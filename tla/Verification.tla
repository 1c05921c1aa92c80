---------------------------- MODULE Verification ----------------------------
(***************************************************************************)
(* AuthService.register, verifyOtp and resendVerifyEmail, the one-time     *)
(* code each email has in Redis, and the consumer of SEND_VERIFY_EMAIL     *)
(* that mails the codes.                                                   *)
(*                                                                         *)
(* The consumer has no prefetch limit and requeues what it cannot send, so *)
(* mails are sent in any order and the queue is a set.  A code is drawn at *)
(* random and may repeat.  Its five minutes end at any time.  How often a  *)
(* code is sent again is the business of module Attempts: here a resend    *)
(* may be refused at any time, and several may be under way.               *)
(***************************************************************************)
EXTENDS Naturals

CONSTANTS
    Emails,
    Codes,          \* what genOTP may draw
    Requests,       \* slots for the handlers served at the same time
    Null,
    MaxCrashes      \* bound on the crashes of the process

ASSUME VerificationAssumption ==
    /\ Null \notin Emails \cup Codes
    /\ MaxCrashes \in Nat

VARIABLES
    account,        \* the users collection, which has a unique index on email
    code,           \* verify:email
    queue,          \* mails ready in send_verify_email
    sending,        \* mails delivered to the consumer, not sent yet
    unacked,        \* mails sent and not acknowledged
    inbox,          \* mails sent
    req,            \* the handler in each slot and what it remembers
    latest,         \* the last code stored for an email, unless it expired
    dropped,        \* mails a handler failed to publish
    crashes

mailVars == <<queue, sending, unacked, inbox>>
history == <<latest, dropped>>
vars == <<account, code, mailVars, req, history, crashes>>

Mail == Emails \X Codes

Request == [pc : {"idle", "create", "store", "publish",
                  "find", "mark", "forget"},
            email : Emails \cup {Null},
            code : Codes \cup {Null}]

Idle == [pc |-> "idle", email |-> Null, code |-> Null]

At(r, pc) == req[r].pc = pc
Goto(r, pc) == req' = [req EXCEPT ![r].pc = pc]
Return(r) == req' = [req EXCEPT ![r] = Idle]
MailOf(r) == <<req[r].email, req[r].code>>

Begin(r, pc, e, c) ==
    /\ At(r, "idle")
    /\ req' = [req EXCEPT ![r] = [pc |-> pc, email |-> e, code |-> c]]

Init ==
    /\ account = [e \in Emails |-> "none"]
    /\ code = [e \in Emails |-> Null]
    /\ queue = {}
    /\ sending = {}
    /\ unacked = {}
    /\ inbox = {}
    /\ req = [r \in Requests |-> Idle]
    /\ latest = [e \in Emails |-> Null]
    /\ dropped = {}
    /\ crashes = 0

----------------------------------------------------------------------------
(* register and resendVerifyEmail.  A handler that refuses returns without *)
(* an effect, so only the ones that go on are steps.                       *)

\* The password is strong and isTakenEmail found nobody.
Register(r, e) ==
    /\ account[e] = "none"
    /\ Begin(r, "create", e, Null)
    /\ UNCHANGED <<account, code, mailVars, history, crashes>>

\* Mutant: the schema gives a new user no isVerified.
CreateWithoutDefault(r) ==
    /\ At(r, "create")
    /\ account' = [account EXCEPT ![req[r].email] = Null]
    /\ Goto(r, "store")
    /\ UNCHANGED <<code, mailVars, history, crashes>>

\* createUser; the index refuses a second account of the email.
Create(r) ==
    LET e == req[r].email
    IN  /\ At(r, "create")
        /\ IF account[e] = "none"
           THEN /\ account' = [account EXCEPT ![e] = "unverified"]
                /\ Goto(r, "store")
           ELSE /\ Return(r)
                /\ UNCHANGED account
        /\ UNCHANGED <<code, mailVars, history, crashes>>

\* The user was found and is not verified; the lock comes next.
Resend(r, e) ==
    /\ account[e] = "unverified"
    /\ Begin(r, "store", e, Null)
    /\ UNCHANGED <<account, code, mailVars, history, crashes>>

\* set ... EX 300
Store(r, c) ==
    LET e == req[r].email
    IN  /\ At(r, "store")
        /\ code' = [code EXCEPT ![e] = c]
        /\ latest' = [latest EXCEPT ![e] = c]
        /\ req' = [req EXCEPT ![r].pc = "publish", ![r].code = c]
        /\ UNCHANGED <<account, mailVars, dropped, crashes>>

\* What follows (sessionService.gen, the counter of resends) is elsewhere.
Publish(r) ==
    /\ At(r, "publish")
    /\ queue' = queue \cup {MailOf(r)}
    /\ Return(r)
    /\ UNCHANGED <<account, code, sending, unacked, inbox, history, crashes>>

----------------------------------------------------------------------------
(* verifyOtp *)

Verify(r, e, c) ==
    /\ code[e] = c
    /\ Begin(r, "find", e, c)
    /\ UNCHANGED <<account, code, mailVars, history, crashes>>

\* Mutant: the code is deleted before the user is marked.
FindAndForget(r) ==
    /\ At(r, "find")
    /\ Goto(r, "mark")
    /\ code' = [code EXCEPT ![req[r].email] = Null]
    /\ UNCHANGED <<account, mailVars, history, crashes>>

\* getByEmail
Find(r) ==
    /\ At(r, "find")
    /\ IF account[req[r].email] = "none" THEN Return(r) ELSE Goto(r, "mark")
    /\ UNCHANGED <<account, code, mailVars, history, crashes>>

\* markEmailVerified
Mark(r) ==
    /\ At(r, "mark")
    /\ account' = [account EXCEPT ![req[r].email] = "verified"]
    /\ Goto(r, "forget")
    /\ UNCHANGED <<code, mailVars, history, crashes>>

\* Deletes whatever code is there, a newer one even.
Forget(r) ==
    /\ At(r, "forget")
    /\ code' = [code EXCEPT ![req[r].email] = Null]
    /\ Return(r)
    /\ UNCHANGED <<account, mailVars, history, crashes>>

\* The five minutes of the key are over.
Expire(e) ==
    /\ code[e] # Null
    /\ code' = [code EXCEPT ![e] = Null]
    /\ latest' = [latest EXCEPT ![e] = Null]
    /\ UNCHANGED <<account, mailVars, req, dropped, crashes>>

----------------------------------------------------------------------------
(* consumeSendVerifyEmail and CloudMailService *)

\* Mutant: a mail whose code is not the current one is not sent.
DeliverCurrent(m) ==
    /\ m \in queue
    /\ queue' = queue \ {m}
    /\ sending' = IF code[m[1]] = m[2] THEN sending \cup {m} ELSE sending
    /\ UNCHANGED <<account, code, unacked, inbox, req, history, crashes>>

Deliver(m) ==
    /\ m \in queue
    /\ queue' = queue \ {m}
    /\ sending' = sending \cup {m}
    /\ UNCHANGED <<account, code, unacked, inbox, req, history, crashes>>

\* The template is there and SES takes the mail.
Send(m) ==
    /\ m \in sending
    /\ sending' = sending \ {m}
    /\ unacked' = unacked \cup {m}
    /\ inbox' = inbox \cup {m}
    /\ UNCHANGED <<account, code, queue, req, history, crashes>>

\* Mutant: nack without requeue.
Discard(m) ==
    /\ m \in sending
    /\ sending' = sending \ {m}
    /\ UNCHANGED <<account, code, queue, unacked, inbox, req, history, crashes>>

\* No template, or SES refuses: nack with requeue.
SendFails(m) ==
    /\ m \in sending
    /\ sending' = sending \ {m}
    /\ queue' = queue \cup {m}
    /\ UNCHANGED <<account, code, unacked, inbox, req, history, crashes>>

Ack(m) ==
    /\ m \in unacked
    /\ unacked' = unacked \ {m}
    /\ UNCHANGED <<account, code, queue, sending, inbox, req, history, crashes>>

----------------------------------------------------------------------------
(* Failures *)

Unpublished == {MailOf(r) : r \in {q \in Requests : At(q, "publish")}}

\* What the handler awaits fails, or the channel is closed when it
\* publishes; or a resend is refused under its lock.
Fail(r) ==
    /\ ~At(r, "idle")
    /\ Return(r)
    /\ dropped' = IF At(r, "publish") THEN dropped \cup {MailOf(r)} ELSE dropped
    /\ UNCHANGED <<account, code, mailVars, latest, crashes>>

\* The broker delivers again what was not acknowledged.
Crash ==
    /\ crashes < MaxCrashes
    /\ crashes' = crashes + 1
    /\ req' = [r \in Requests |-> Idle]
    /\ dropped' = dropped \cup Unpublished
    /\ queue' = queue \cup sending \cup unacked
    /\ sending' = {}
    /\ unacked' = {}
    /\ UNCHANGED <<account, code, inbox, latest>>

Next ==
    \/ \E r \in Requests :
          \/ \E e \in Emails : Register(r, e) \/ Resend(r, e)
          \/ \E e \in Emails, c \in Codes : Verify(r, e, c)
          \/ \E c \in Codes : Store(r, c)
          \/ Create(r) \/ Publish(r)
          \/ Find(r) \/ Mark(r) \/ Forget(r)
          \/ Fail(r)
    \/ \E e \in Emails : Expire(e)
    \/ \E m \in Mail : Deliver(m) \/ Send(m) \/ SendFails(m) \/ Ack(m)
    \/ Crash

Spec == Init /\ [][Next]_vars

\* The broker delivers, and a mail tried again and again is once sent.
Fairness == \A m \in Mail : WF_vars(Deliver(m)) /\ SF_vars(Send(m))

FairSpec == Spec /\ Fairness

----------------------------------------------------------------------------
(* Properties *)

TypeOK ==
    /\ account \in [Emails -> {"none", "unverified", "verified"}]
    /\ code \in [Emails -> Codes \cup {Null}]
    /\ queue \subseteq Mail
    /\ sending \subseteq Mail
    /\ unacked \subseteq inbox
    /\ inbox \subseteq Mail
    /\ req \in [Requests -> Request]
    /\ latest \in [Emails -> Codes \cup {Null}]
    /\ dropped \subseteq Mail
    /\ crashes \in Nat

\* An account that is not verified can always use the last code stored for
\* it, until that expires: no verification, finished, failed or crashed
\* half-way, takes a code away without marking the user (verifyOtp marks
\* before it deletes).
CodeUsableUntilVerified ==
    \A e \in Emails : account[e] = "unverified" => code[e] = latest[e]

\* The code an email has in Redis is in a mail that was sent or will be, or
\* that a handler has yet to publish, or failed to: no failure to send and
\* no crash of the consumer loses it.
StoredCodeIsMailed ==
    \A e \in Emails :
        code[e] # Null =>
            <<e, code[e]>> \in queue \cup sending \cup inbox
                                   \cup Unpublished \cup dropped

\* Every mail that was published is sent in the end, whatever fails on the
\* way (consumeSendVerifyEmail requeues, the broker delivers again).
EveryMailSent ==
    \A m \in Mail : m \in queue ~> m \in inbox
=============================================================================
