---------------------------- MODULE SessionLife ----------------------------
(***************************************************************************)
(* What SessionService promises of a session, however its documents, cache *)
(* entries and black lists are written: it is given to a client once; who  *)
(* is admitted to it asked before its logout was confirmed and, but for    *)
(* the time a request takes, before its date; only who is admitted logs    *)
(* out of it; and it is banned for good by a logout or its date, never     *)
(* because a check came at the wrong moment.                               *)
(*                                                                         *)
(* It does not promise that who asks in time is admitted.                  *)
(***************************************************************************)
CONSTANTS
    Sessions,
    Tickets         \* tell the requests for one session apart

VARIABLES
    given,          \* sessions a client has the tokens of
    asked,          \* <<session, ticket>>: asked in time, not answered yet
    admitted,       \* <<session, ticket>>: let in, and still at it
    leaving,        \* sessions whose logout has begun
    closed,         \* sessions whose logout has been confirmed
    banned,         \* sessions that verifySession refuses for good
    expired,        \* given sessions past their date
    stale           \* those past it for longer than a request takes

dates == <<expired, stale>>
vars == <<given, asked, admitted, leaving, closed, banned, dates>>

Init ==
    /\ given = {} /\ asked = {} /\ admitted = {}
    /\ leaving = {} /\ closed = {} /\ banned = {}
    /\ expired = {} /\ stale = {}

\* Time passes, and never back.
Pass ==
    /\ expired \subseteq expired' /\ expired' \subseteq given'
    /\ stale \subseteq stale' /\ stale' \subseteq expired'

\* It may be given late, when its date is over already.
Give(s) ==
    /\ s \notin given
    /\ given' = given \cup {s}
    /\ Pass
    /\ UNCHANGED <<asked, admitted, leaving, closed, banned>>

Ask(s, t) ==
    /\ s \in given \ (closed \cup stale)
    /\ asked' = asked \cup {<<s, t>>}
    /\ UNCHANGED <<given, admitted, leaving, closed, banned, dates>>

Admit(s, t) ==
    /\ <<s, t>> \in asked
    /\ asked' = asked \ {<<s, t>>}
    /\ admitted' = admitted \cup {<<s, t>>}
    /\ UNCHANGED <<given, leaving, closed, banned, dates>>

\* Refused, answered, failed, or lost with the process.
Dismiss ==
    /\ asked' \subseteq asked
    /\ admitted' \subseteq admitted
    /\ UNCHANGED <<given, leaving, closed, banned, dates>>

Leave(s, t) ==
    /\ <<s, t>> \in admitted
    /\ leaving' = leaving \cup {s}
    /\ UNCHANGED <<given, asked, admitted, closed, banned, dates>>

Ban(s) ==
    /\ s \in leaving \cup expired
    /\ banned' = banned \cup {s}
    /\ UNCHANGED <<given, asked, admitted, leaving, closed, dates>>

Close(s, t) ==
    /\ <<s, t>> \in admitted
    /\ s \in leaving \cap banned
    /\ closed' = closed \cup {s}
    /\ admitted' = admitted \ {<<s, t>>}
    /\ UNCHANGED <<given, asked, leaving, banned, dates>>

Expire ==
    /\ Pass
    /\ UNCHANGED <<given, asked, admitted, leaving, closed, banned>>

Next ==
    \/ \E s \in Sessions : Give(s) \/ Ban(s)
    \/ \E s \in Sessions, t \in Tickets :
          Ask(s, t) \/ Admit(s, t) \/ Leave(s, t) \/ Close(s, t)
    \/ Dismiss
    \/ Expire

Spec == Init /\ [][Next]_vars
=============================================================================
