------------------------- MODULE Verification_proofs -------------------------
(***************************************************************************)
(* Proofs about Verification: its types, that a code stays usable until it *)
(* expires or its account is verified, and that the code an email has is   *)
(* in a mail no failure of the consumer can lose.                          *)
(***************************************************************************)
EXTENDS Verification, TLAPS

----------------------------------------------------------------------------
(* Typing *)

\* A handler at work has an email, and a code when it is about to publish.
RequestOK(r) ==
    /\ ~At(r, "idle") => req[r].email \in Emails
    /\ At(r, "publish") => req[r].code \in Codes

Typed == TypeOK /\ \A r \in Requests : RequestOK(r)

LEMMA InitTyped == Init => Typed
BY DEF Init, Typed, TypeOK, RequestOK, Idle, Request, At

\* The steps of register, resendVerifyEmail and verifyOtp.
HandlerStep(r) ==
    \/ \E e \in Emails : Register(r, e) \/ Resend(r, e)
    \/ \E e \in Emails, c \in Codes : Verify(r, e, c)
    \/ \E c \in Codes : Store(r, c)
    \/ Create(r) \/ Publish(r)
    \/ Find(r) \/ Mark(r) \/ Forget(r)
    \/ Fail(r)

ConsumerStep(m) == Deliver(m) \/ Send(m) \/ SendFails(m) \/ Ack(m)

LEMMA NextCases ==
    ASSUME Next
    PROVE  \/ \E r \in Requests : HandlerStep(r)
           \/ \E e \in Emails : Expire(e)
           \/ \E m \in Mail : ConsumerStep(m)
           \/ Crash
BY DEF Next, HandlerStep, ConsumerStep

LEMMA HandlerTyped ==
    ASSUME Typed, NEW r \in Requests, HandlerStep(r) PROVE Typed'
<1> USE DEF Typed, TypeOK, RequestOK, At, Request, Idle, mailVars, history
<1>1. CASE \E e \in Emails : Register(r, e) \/ Resend(r, e)
  <2>1. ASSUME NEW e \in Emails, Register(r, e) PROVE Typed'
    BY <2>1 DEF Register, Begin
  <2>2. ASSUME NEW e \in Emails, Resend(r, e) PROVE Typed'
    BY <2>2 DEF Resend, Begin
  <2> QED BY <1>1, <2>1, <2>2
<1>2. CASE \E e \in Emails, c \in Codes : Verify(r, e, c)
  BY <1>2 DEF Verify, Begin
<1>3. CASE \E c \in Codes : Store(r, c)
  <2>1. PICK c \in Codes : Store(r, c) BY <1>3
  <2>2. req[r].email \in Emails
    BY <2>1 DEF Store
  <2>3. /\ code' \in [Emails -> Codes \cup {Null}]
        /\ latest' \in [Emails -> Codes \cup {Null}]
    BY <2>1 DEF Store
  <2>4. /\ req' \in [Requests -> Request]
        /\ \A q \in Requests : RequestOK(q)'
    BY <2>1, <2>2 DEF Store
  <2> QED BY <2>1, <2>3, <2>4 DEF Store
<1>4. CASE Create(r)
  BY <1>4 DEF Create, Goto, Return
<1>5. CASE Publish(r)
  <2>1. MailOf(r) \in Mail
    BY <1>5 DEF Publish, MailOf, Mail
  <2> QED BY <1>5, <2>1 DEF Publish, Return
<1>6. CASE Find(r) \/ Mark(r)
  BY <1>6 DEF Find, Mark, Goto, Return
<1>7. CASE Forget(r)
  BY <1>7 DEF Forget, Return
<1>8. CASE Fail(r)
  <2>1. At(r, "publish") => MailOf(r) \in Mail
    BY DEF MailOf, Mail
  <2> QED BY <1>8, <2>1 DEF Fail, Return
<1> QED BY <1>1, <1>2, <1>3, <1>4, <1>5, <1>6, <1>7, <1>8 DEF HandlerStep

LEMMA NextTyped == Typed /\ [Next]_vars => Typed'
<1> SUFFICES ASSUME Typed, [Next]_vars PROVE Typed' OBVIOUS
<1> USE DEF Typed, TypeOK, RequestOK, At, Request, Idle, mailVars, history
<1>1. CASE \E r \in Requests : HandlerStep(r)
  BY <1>1, HandlerTyped
<1>2. CASE \E e \in Emails : Expire(e)
  BY <1>2 DEF Expire
<1>3. CASE \E m \in Mail : ConsumerStep(m)
  BY <1>3 DEF ConsumerStep, Deliver, Send, SendFails, Ack
<1>4. CASE Crash
  <2>1. Unpublished \subseteq Mail
    BY DEF Unpublished, MailOf, Mail
  <2> QED BY <1>4, <2>1 DEF Crash
<1>5. CASE UNCHANGED vars
  BY <1>5 DEF vars
<1> QED BY <1>1, <1>2, <1>3, <1>4, <1>5, NextCases

\* Every variable keeps its type.
THEOREM VerificationTypeCorrect == Spec => []TypeOK
<1>1. Spec => []Typed
  BY InitTyped, NextTyped, PTL DEF Spec
<1> QED BY <1>1, PTL DEF Typed

----------------------------------------------------------------------------
(* Codes stay usable *)

\* An account that is verified never is anything else, so verifyOtp may
\* delete the code, whichever it finds, once it has marked the user.
Usable ==
    /\ \A e \in Emails : account[e] # "verified" => code[e] = latest[e]
    /\ \A r \in Requests : At(r, "forget") => account[req[r].email] = "verified"

LEMMA InitUsable == Init => Usable
BY DEF Init, Usable, At, Idle

LEMMA NextUsable == Typed /\ Usable /\ [Next]_vars => Usable'
<1> SUFFICES ASSUME Typed, Usable, [Next]_vars PROVE Usable' OBVIOUS
<1> USE DEF Usable, At, mailVars, history
<1>t. /\ account \in [Emails -> {"none", "unverified", "verified"}]
      /\ code \in [Emails -> Codes \cup {Null}]
      /\ latest \in [Emails -> Codes \cup {Null}]
      /\ req \in [Requests -> Request]
      /\ \A r \in Requests : ~At(r, "idle") => req[r].email \in Emails
  BY DEF Typed, TypeOK, RequestOK
<1>1. ASSUME NEW r \in Requests, HandlerStep(r) PROVE Usable'
  <2>1. CASE \E e \in Emails : Register(r, e) \/ Resend(r, e)
    BY <1>t, <2>1 DEF Register, Resend, Begin
  <2>2. CASE \E e \in Emails, c \in Codes : Verify(r, e, c)
    BY <1>t, <2>2 DEF Verify, Begin
  <2>3. CASE \E c \in Codes : Store(r, c)
    BY <1>t, <2>3 DEF Store, Request
  <2>4. CASE Create(r)
    BY <1>t, <2>4 DEF Create, Goto, Return, Idle, Request
  <2>5. CASE Publish(r) \/ Fail(r)
    BY <1>t, <2>5 DEF Publish, Fail, Return, Idle
  <2>6. CASE Find(r)
    BY <1>t, <2>6 DEF Find, Goto, Return, Idle, Request
  <2>7. CASE Mark(r)
    BY <1>t, <2>7 DEF Mark, Goto, Request
  <2>8. CASE Forget(r)
    BY <1>t, <2>8 DEF Forget, Return, Idle
  <2> QED BY <1>1, <2>1, <2>2, <2>3, <2>4, <2>5, <2>6, <2>7, <2>8 DEF HandlerStep
<1>2. CASE \E e \in Emails : Expire(e)
  BY <1>t, <1>2 DEF Expire
<1>3. CASE \E m \in Mail : ConsumerStep(m)
  BY <1>3 DEF ConsumerStep, Deliver, Send, SendFails, Ack
<1>4. CASE Crash
  BY <1>4 DEF Crash, Idle
<1>5. CASE UNCHANGED vars
  BY <1>5 DEF vars
<1> QED BY <1>1, <1>2, <1>3, <1>4, <1>5, NextCases

\* As long as an account is not verified, the last code stored for it works
\* until its five minutes are over.
THEOREM CodesStayUsable == Spec => []CodeUsableUntilVerified
<1>1. Spec => [](Typed /\ Usable)
  BY InitTyped, NextTyped, InitUsable, NextUsable, PTL DEF Spec
<1>2. Usable => CodeUsableUntilVerified
  BY DEF Usable, CodeUsableUntilVerified
<1> QED BY <1>1, <1>2, PTL

----------------------------------------------------------------------------
(* Stored codes are mailed *)

\* The mails that are somewhere: no step takes one away.
Somewhere == queue \cup sending \cup inbox \cup Unpublished \cup dropped

\* The handlers other than r still have to publish what they had to.
LEMMA OthersPublish ==
    ASSUME Typed, NEW r \in Requests,
           \A q \in Requests \ {r} : req'[q] = req[q],
           At(r, "publish") => MailOf(r) \in queue' \cup dropped'
    PROVE  Unpublished \subseteq Unpublished' \cup queue' \cup dropped'
<1> SUFFICES ASSUME NEW q \in Requests, At(q, "publish")
             PROVE  MailOf(q) \in Unpublished' \cup queue' \cup dropped'
  BY DEF Unpublished
<1>1. CASE q = r
  BY <1>1
<1>2. CASE q # r
  <2>1. At(q, "publish")' /\ MailOf(q)' = MailOf(q)
    BY <1>2 DEF At, MailOf
  <2> QED BY <2>1 DEF Unpublished
<1> QED BY <1>1, <1>2

LEMMA HandlerLosesNoMail ==
    ASSUME Typed, NEW r \in Requests, HandlerStep(r)
    PROVE  Somewhere \subseteq Somewhere'
<1>t. req \in [Requests -> Request]
  BY DEF Typed, TypeOK
<1>1. \A q \in Requests \ {r} : req'[q] = req[q]
  BY <1>t DEF HandlerStep, Register, Resend, Verify, Store, Create, Publish, Find, Mark,
              Forget, Fail, Begin, Goto, Return
<1>2. At(r, "publish") => MailOf(r) \in queue' \cup dropped'
  BY DEF HandlerStep, Register, Resend, Verify, Store, Create, Publish, Find, Mark,
         Forget, Fail, Begin, At
<1>3. /\ queue \subseteq queue' /\ dropped \subseteq dropped'
      /\ UNCHANGED <<sending, inbox>>
  BY DEF HandlerStep, Register, Resend, Verify, Store, Create, Publish, Find, Mark,
         Forget, Fail, mailVars, history
<1> QED BY <1>1, <1>2, <1>3, OthersPublish DEF Somewhere

LEMMA NextLosesNoMail ==
    ASSUME Typed, [Next]_vars PROVE Somewhere \subseteq Somewhere'
<1>1. ASSUME UNCHANGED req PROVE Unpublished' = Unpublished
  BY <1>1 DEF Unpublished, At, MailOf
<1>2. CASE \E r \in Requests : HandlerStep(r)
  BY <1>2, HandlerLosesNoMail
<1>3. CASE \E e \in Emails : Expire(e)
  BY <1>1, <1>3 DEF Expire, mailVars, Somewhere
<1>4. CASE \E m \in Mail : ConsumerStep(m)
  BY <1>1, <1>4 DEF ConsumerStep, Deliver, Send, SendFails, Ack, history, Somewhere
<1>5. CASE Crash
  BY <1>5 DEF Crash, Somewhere
<1>6. CASE UNCHANGED vars
  BY <1>1, <1>6 DEF vars, mailVars, history, Somewhere
<1> QED BY <1>2, <1>3, <1>4, <1>5, <1>6, NextCases

LEMMA InitMailed == Init => StoredCodeIsMailed
BY DEF Init, StoredCodeIsMailed

LEMMA NextMailed == Typed /\ StoredCodeIsMailed /\ [Next]_vars => StoredCodeIsMailed'
<1> SUFFICES ASSUME Typed, StoredCodeIsMailed, [Next]_vars,
                    NEW e \in Emails, code'[e] # Null
             PROVE  <<e, code'[e]>> \in Somewhere'
  BY DEF StoredCodeIsMailed, Somewhere
<1>t. code \in [Emails -> Codes \cup {Null}] /\ req \in [Requests -> Request]
  BY DEF Typed, TypeOK
<1>1. CASE code'[e] = code[e]
  <2>1. <<e, code[e]>> \in Somewhere
    BY <1>1 DEF StoredCodeIsMailed, Somewhere
  <2> QED BY <1>1, <2>1, NextLosesNoMail
<1>2. CASE code'[e] # code[e]
  <2>1. \E r \in Requests, c \in Codes : Store(r, c)
    BY <1>t, <1>2, NextCases
       DEF HandlerStep, ConsumerStep, Register, Resend, Verify, Create, Publish, Find,
           Mark, Forget, Fail, Expire, Deliver, Send, SendFails, Ack, Crash, vars
  <2>2. PICK r \in Requests, c \in Codes : Store(r, c) BY <2>1
  <2>3. req[r].email = e /\ code'[e] = c
    BY <1>t, <1>2, <2>2 DEF Store
  <2>4. At(r, "publish")' /\ MailOf(r)' = <<e, c>>
    BY <1>t, <2>2, <2>3 DEF Store, At, MailOf, Request
  <2> QED BY <2>3, <2>4 DEF Somewhere, Unpublished
<1> QED BY <1>1, <1>2

\* A code that can be entered was mailed, or is on its way, or its handler
\* failed before the mail was published: the consumer never loses one.
THEOREM StoredCodesAreMailed == Spec => []StoredCodeIsMailed
<1>1. Spec => []Typed
  BY InitTyped, NextTyped, PTL DEF Spec
<1> QED BY <1>1, InitMailed, NextMailed, PTL DEF Spec
=============================================================================
