------------------------------ MODULE Sessions ------------------------------
(***************************************************************************)
(* SessionService with its callers: gen (login and register), delete       *)
(* (logout) and verifySession, as the HTTP strategy and verifyToken reach  *)
(* it.  A session is spread over a MongoDB document, a cache entry and     *)
(* four kinds of Redis keys; a handler reads and writes them one by one,   *)
(* and the writes of a Promise.all take effect in any order.               *)
(*                                                                         *)
(* The access token of a session is named by the session.  Time is counted *)
(* in days, the unit of the settings; a TTL is the first day the key is    *)
(* gone.  The refresh cache and the set of a user's sessions are left out: *)
(* no route reads them.                                                    *)
(***************************************************************************)
EXTENDS Naturals

CONSTANTS
    Sessions,       \* the ids MongoDB can give to sessions
    Users,
    Requests,       \* slots for the requests served at the same time
    Null,
    AccessDays,     \* setting.accessTokenExpiresIn
    RefreshDays,    \* setting.refreshTokenExpiresIn
    Latency,        \* bound on the days a request lasts
    MaxDay          \* bound on the clock

ASSUME SessionsAssumption ==
    /\ Null \notin Sessions \cup Users
    /\ AccessDays \in Nat \ {0}
    /\ RefreshDays \in Nat \ {0}
    /\ Latency \in Nat
    /\ MaxDay \in Nat

VARIABLES
    now,            \* the day
    docs,           \* the sessions collection
    cache,          \* access_sessions:sessionId-s: the day the entry is gone
    token,          \* user:u:access_token: whose token, and the day it is gone
    blackTok,       \* blacklist-token:t: the day the key is gone
    blackSess,      \* the set black_list_sessions
    blackAccess,    \* the set black_list_access_tokens
    req,            \* the handler in each slot and what it remembers
    born,           \* ids already given to a session
    issued,         \* sessions whose tokens a client has received
    leaving,        \* sessions whose logout has begun
    ended,          \* sessions whose logout has been confirmed
    failedGens      \* users of whom a gen failed among its writes

stores == <<docs, cache, token, blackTok, blackSess, blackAccess>>
history == <<born, issued, leaving, ended, failedGens>>
vars == <<now, stores, req, history>>

----------------------------------------------------------------------------
(* What a handler is about to do and what it has in its local variables.   *)

Pc == {"idle", "genRead", "genBlack", "genWrite", "checkBlack", "checkCache",
       "checkLoad", "checkStore", "accepted", "refusing", "leave", "rejected"}

Kind == {"gen", "http", "socket"}

\* The writes a Promise.all or a catch block starts.
WriteOp == {"create", "remember", "token",
            "forget", "black", "delete", "tokenBlack"}

Request == [pc : Pc,
            kind : Kind,
            who : Users \cup {Null},            \* gen: for whom
            session : Sessions \cup {Null},
            old : Sessions \cup {Null},         \* gen: the token it replaces
            held : Nat,                         \* gen: expiresAt; check: a TTL
            began : Nat,
            todo : SUBSET WriteOp,              \* writes not yet applied
            late : SUBSET {"ended", "expired"}] \* over when the check began

Idle == [pc |-> "idle", kind |-> "http", who |-> Null, session |-> Null,
         old |-> Null, held |-> 0, began |-> 0, todo |-> {}, late |-> {}]

\* A handler that begins today.
Begin(pc, kind, u, s, held, W, late) ==
    [pc |-> pc, kind |-> kind, who |-> u, session |-> s, old |-> Null,
     held |-> held, began |-> now, todo |-> W, late |-> late]

At(r, pc) == req[r].pc = pc
Goto(r, pc) == req' = [req EXCEPT ![r].pc = pc]
Return(r) == req' = [req EXCEPT ![r] = Idle]

\* The handler goes on to await Promise.all of the writes W.
Await(r, pc, W) == req' = [req EXCEPT ![r].pc = pc, ![r].todo = W]

\* verifyToken blacklists the token whatever the error was.
Catch(r) == IF req[r].kind = "socket" THEN {"tokenBlack"} ELSE {}

\* The handler throws while the writes W are still under way.
Reject(r, W) ==
    IF W \cup Catch(r) = {} THEN Return(r)
                            ELSE Await(r, "rejected", W \cup Catch(r))

----------------------------------------------------------------------------
(* The stores *)

NoDoc == [user |-> Null, expiresAt |-> 0, deleted |-> FALSE]
Doc == [user : Users \cup {Null}, expiresAt : Nat, deleted : BOOLEAN]

\* findOneByCondition filters on deleted_at.
Found(s) == docs[s].user # Null /\ ~docs[s].deleted

\* Mutant: the two dates are swapped.
IsExpiredSwapped(s) == docs[s].expiresAt > now

IsExpired(s) == now > docs[s].expiresAt

\* A key is there until its day has come; 0 is a key never written.
Live(day) == now < day

\* The milliseconds of line 149 are read by Redis as seconds.
TokenDays == 1000 * AccessDays

Init ==
    /\ now = 0
    /\ docs = [s \in Sessions |-> NoDoc]
    /\ cache = [s \in Sessions |-> 0]
    /\ token = [u \in Users |-> [session |-> Null, gone |-> 0]]
    /\ blackTok = [s \in Sessions |-> 0]
    /\ blackSess = {}
    /\ blackAccess = {}
    /\ req = [r \in Requests |-> Idle]
    /\ born = {}
    /\ issued = {}
    /\ leaving = {}
    /\ ended = {}
    /\ failedGens = {}

----------------------------------------------------------------------------
(* One write of a Promise.all takes effect.                                *)

Apply(r, w) ==
    LET s == req[r].session
        u == req[r].who
    IN  \/ /\ w = "create"
           /\ docs' = [docs EXCEPT ![s] = [user |-> u,
                                           expiresAt |-> req[r].held,
                                           deleted |-> FALSE]]
           /\ UNCHANGED <<cache, token, blackTok, blackSess, blackAccess>>
        \/ /\ w = "remember"
           /\ cache' = [cache EXCEPT ![s] = now + AccessDays]
           /\ UNCHANGED <<docs, token, blackTok, blackSess, blackAccess>>
        \/ /\ w = "token"
           /\ token' = [token EXCEPT ![u] = [session |-> s,
                                             gone |-> now + TokenDays]]
           /\ UNCHANGED <<docs, cache, blackTok, blackSess, blackAccess>>
        \/ /\ w = "forget"
           /\ cache' = [cache EXCEPT ![s] = 0]
           /\ UNCHANGED <<docs, token, blackTok, blackSess, blackAccess>>
        \/ /\ w = "black"
           /\ blackSess' = blackSess \cup {s}
           /\ UNCHANGED <<docs, cache, token, blackTok, blackAccess>>
        \/ /\ w = "delete"
           /\ docs' = [docs EXCEPT ![s].deleted = TRUE]
           /\ UNCHANGED <<cache, token, blackTok, blackSess, blackAccess>>
        \/ /\ w = "tokenBlack"
           /\ blackAccess' = blackAccess \cup {s}
           /\ UNCHANGED <<docs, cache, token, blackTok, blackSess>>

\* A handler that has thrown ends with its last write.
Written(r, w) ==
    IF At(r, "rejected") /\ req[r].todo = {w}
    THEN Return(r)
    ELSE req' = [req EXCEPT ![r].todo = @ \ {w}]

Write(r, w) ==
    /\ w \in req[r].todo
    /\ Apply(r, w)
    /\ Written(r, w)
    /\ UNCHANGED <<now, history>>

\* Promise.all rejects at the first failure; the other writes go on.
WriteFails(r, w) ==
    /\ w \in req[r].todo
    /\ IF At(r, "rejected") THEN Written(r, w) ELSE Reject(r, req[r].todo \ {w})
    /\ failedGens' = IF At(r, "genWrite") THEN failedGens \cup {req[r].who}
                                          ELSE failedGens
    /\ UNCHANGED <<now, stores, born, issued, leaving, ended>>

----------------------------------------------------------------------------
(* gen: choose the id and the dates, read the user's token, blacklist it,  *)
(* write the session.  login calls it under the lock of the user; register *)
(* calls it for a user it has just created.                                *)

\* Mutant: login does not take the lock.
NoLock(u) == TRUE

LockFree(u) ==
    \A r \in Requests :
        ~(req[r].who = u /\ req[r].pc \in {"genRead", "genBlack", "genWrite"})

GenBegin(r, u, s) ==
    /\ At(r, "idle")
    /\ LockFree(u)
    /\ s \notin born
    /\ born' = born \cup {s}
    /\ req' = [req EXCEPT ![r] =
                  Begin("genRead", "gen", u, s, now + RefreshDays, {}, {})]
    /\ UNCHANGED <<now, stores, issued, leaving, ended, failedGens>>

GenWrites == {"create", "remember", "token"}

GenRead(r) ==
    /\ At(r, "genRead")
    /\ LET t == token[req[r].who]
       IN  IF Live(t.gone)
           THEN req' = [req EXCEPT ![r].pc = "genBlack", ![r].old = t.session]
           ELSE Await(r, "genWrite", GenWrites)
    /\ UNCHANGED <<now, stores, history>>

GenBlacklist(r) ==
    /\ At(r, "genBlack")
    /\ blackTok' = [blackTok EXCEPT ![req[r].old] = now + AccessDays]
    /\ Await(r, "genWrite", GenWrites)
    /\ UNCHANGED <<now, docs, cache, token, blackSess, blackAccess, history>>

\* Mutant: Promise.all is not awaited.
NotAwaited(r) == TRUE

AllWritten(r) == req[r].todo = {}

GenReturn(r) ==
    /\ At(r, "genWrite")
    /\ AllWritten(r)
    /\ issued' = issued \cup {req[r].session}
    /\ Return(r)
    /\ UNCHANGED <<now, stores, born, leaving, ended, failedGens>>

----------------------------------------------------------------------------
(* The checks.  The HTTP strategy looks the token up in the blacklist and  *)
(* does not mind its date; verifyToken looks it up in another set and      *)
(* does.  Both go on to verifySession: black list, cache, document.        *)

\* Why the session is over already when the check begins.  (History: a
\* handler does not know it.)
Over(s) == {why \in {"ended", "expired"} :
                \/ why = "ended" /\ s \in ended
                \/ why = "expired" /\ now > docs[s].expiresAt + Latency}

JwtExpired(s) == now + RefreshDays >= docs[s].expiresAt + AccessDays

Checking(pc, kind, s, W) == Begin(pc, kind, Null, s, 0, W, Over(s))

HttpCheck(r, s) ==
    /\ At(r, "idle")
    /\ s \in issued
    /\ ~Live(blackTok[s])
    /\ req' = [req EXCEPT ![r] = Checking("checkBlack", "http", s, {})]
    /\ UNCHANGED <<now, stores, history>>

SocketCheck(r, s) ==
    /\ At(r, "idle")
    /\ s \in issued
    /\ s \notin blackAccess
    /\ req' = [req EXCEPT ![r] =
                IF JwtExpired(s)
                THEN Checking("rejected", "socket", s, {"tokenBlack"})
                ELSE Checking("checkBlack", "socket", s, {})]
    /\ UNCHANGED <<now, stores, history>>

CheckBlack(r) ==
    /\ At(r, "checkBlack")
    /\ IF req[r].session \in blackSess THEN Reject(r, {})
                                       ELSE Goto(r, "checkCache")
    /\ UNCHANGED <<now, stores, history>>

CheckCache(r) ==
    /\ At(r, "checkCache")
    /\ Goto(r, IF Live(cache[req[r].session]) THEN "accepted" ELSE "checkLoad")
    /\ UNCHANGED <<now, stores, history>>

CheckLoad(r) ==
    /\ At(r, "checkLoad")
    /\ LET s == req[r].session
       IN  \/ /\ ~Found(s)
              /\ Await(r, "refusing", {"black"})
           \/ /\ Found(s) /\ IsExpired(s)
              /\ Await(r, "refusing", {"delete", "black", "forget"})
           \/ /\ Found(s) /\ ~IsExpired(s)
              /\ req' = [req EXCEPT ![r].pc = "checkStore",
                                    ![r].held = docs[s].expiresAt - now]
    /\ UNCHANGED <<now, stores, history>>

CheckStore(r) ==
    /\ At(r, "checkStore")
    /\ cache' = [cache EXCEPT ![req[r].session] = now + req[r].held]
    /\ Goto(r, "accepted")
    /\ UNCHANGED <<now, docs, token, blackTok, blackSess, blackAccess, history>>

Refuse(r) ==
    /\ At(r, "refusing")
    /\ req[r].todo = {}
    /\ Reject(r, {})
    /\ UNCHANGED <<now, stores, history>>

\* The request goes on to a handler that does not concern sessions.
Answer(r) ==
    /\ At(r, "accepted")
    /\ Return(r)
    /\ UNCHANGED <<now, stores, history>>

----------------------------------------------------------------------------
(* delete, called by logout, a route behind the same check *)

\* Mutant: the session is not put on the black list.
DeleteWritesNoBlack == {"forget", "delete"}

\* The token is not blacklisted: logout passes request.token, which nothing
\* sets.  The black list of sessions alone keeps its holder out.
DeleteWrites == {"forget", "black", "delete"}

LogoutBegin(r) ==
    /\ At(r, "accepted")
    /\ req[r].kind = "http"
    /\ leaving' = leaving \cup {req[r].session}
    /\ Await(r, "leave", DeleteWrites)
    /\ UNCHANGED <<now, stores, born, issued, ended, failedGens>>

LogoutReturn(r) ==
    /\ At(r, "leave")
    /\ req[r].todo = {}
    /\ ended' = ended \cup {req[r].session}
    /\ Return(r)
    /\ UNCHANGED <<now, stores, born, issued, leaving, failedGens>>

----------------------------------------------------------------------------
(* Failures, and time *)

\* A query of the handler rejects.
QueryFails(r) ==
    /\ req[r].pc \in {"genRead", "genBlack", "checkBlack", "checkCache",
                      "checkLoad", "checkStore"}
    /\ Reject(r, {})
    /\ UNCHANGED <<now, stores, history>>

\* The process restarts.  The cache is lost with it if it is the one in
\* memory, and stays if it is in Redis.
Crash ==
    /\ req' = [r \in Requests |-> Idle]
    /\ \/ cache' = [s \in Sessions |-> 0]
       \/ UNCHANGED cache
    /\ UNCHANGED <<now, docs, token, blackTok, blackSess, blackAccess, history>>

Tick ==
    /\ now < MaxDay
    /\ \A r \in Requests : ~At(r, "idle") => now < req[r].began + Latency
    /\ now' = now + 1
    /\ UNCHANGED <<stores, req, history>>

GenStep(r) ==
    \/ \E u \in Users, s \in Sessions : GenBegin(r, u, s)
    \/ GenRead(r)
    \/ GenBlacklist(r)
    \/ GenReturn(r)

CheckStep(r) ==
    \/ \E s \in Sessions : HttpCheck(r, s) \/ SocketCheck(r, s)
    \/ CheckBlack(r)
    \/ CheckCache(r)
    \/ CheckLoad(r)
    \/ CheckStore(r)
    \/ Refuse(r)
    \/ Answer(r)

LogoutStep(r) == LogoutBegin(r) \/ LogoutReturn(r)

WriteStep(r) == \E w \in WriteOp : Write(r, w) \/ WriteFails(r, w)

Next ==
    \/ \E r \in Requests :
          GenStep(r) \/ CheckStep(r) \/ LogoutStep(r) \/ WriteStep(r)
             \/ QueryFails(r)
    \/ Crash
    \/ Tick

Spec == Init /\ [][Next]_vars

----------------------------------------------------------------------------
(* Properties *)

\* The stores and the handlers are well typed.
TypeOK ==
    /\ now \in Nat
    /\ docs \in [Sessions -> Doc]
    /\ cache \in [Sessions -> Nat]
    /\ token \in [Users -> [session : Sessions \cup {Null}, gone : Nat]]
    /\ blackTok \in [Sessions -> Nat]
    /\ blackSess \subseteq Sessions
    /\ blackAccess \subseteq Sessions
    /\ req \in [Requests -> Request]
    /\ born \subseteq Sessions
    /\ issued \subseteq Sessions
    /\ leaving \subseteq Sessions
    /\ ended \subseteq Sessions
    /\ failedGens \subseteq Users

\* A check that begins after the logout was confirmed does not accept the
\* session, although a check that overlapped the logout may have written
\* the cache entry again after delete removed it.
EndedStaysEnded == \A r \in Requests : At(r, "accepted") => "ended" \notin req[r].late

\* Nor is a session accepted past its date, whichever of the cache and the
\* document answers, as long as the access token's setting does not exceed
\* the refresh token's.
ExpiredIsRefused ==
    AccessDays <= RefreshDays =>
        \A r \in Requests : At(r, "accepted") => "expired" \notin req[r].late

\* verifySession puts a session it does not find on the black list for
\* good: this never happens to a session that goes on, because its token
\* is handed out only after gen's writes.
BlacklistedForCause ==
    \A s \in blackSess :
        s \in leaving \/ (docs[s].user # Null /\ IsExpired(s))

\* The tokens of u that no login has replaced.
Current(u) == {s \in issued : /\ docs[s].user = u
                              /\ blackTok[s] = 0
                              /\ ~IsExpired(s)}

\* A login replaces the token of the login before: gen reads the token to
\* blacklist long before it writes the next, and only the lock keeps two
\* logins of a user apart.  A gen that failed half way is excepted, its
\* writes go on after the lock is released.
OneCurrentToken ==
    RefreshDays < TokenDays =>
        \A u \in Users \ failedGens :
            \A s, t \in Current(u) : s = t

----------------------------------------------------------------------------
(* The life of a session *)

\* The session was not over yet when the check began; its date is kept only
\* as long as the access token's setting does not exceed the refresh token's.
InTime(r) ==
    /\ "ended" \notin req[r].late
    /\ AccessDays <= RefreshDays => "expired" \notin req[r].late

Asking(r) ==
    req[r].pc \in {"checkBlack", "checkCache", "checkLoad", "checkStore"} /\ InTime(r)

IsIn(r) == req[r].pc \in {"accepted", "leave"}

Asked == {<<req[r].session, r>> : r \in {q \in Requests : Asking(q)}}
Admitted == {<<req[r].session, r>> : r \in {q \in Requests : IsIn(q)}}

Expired == {s \in issued : IsExpired(s)}
Stale == {s \in issued : AccessDays <= RefreshDays /\ now > docs[s].expiresAt + Latency}

\* The handlers, the stores and the clock implement the abstract life of a
\* session.
Life == INSTANCE SessionLife WITH
    Tickets <- Requests,
    given <- issued,
    asked <- Asked,
    admitted <- Admitted,
    closed <- ended,
    banned <- blackSess,
    expired <- Expired,
    stale <- Stale

SessionLifeSpec == Life!Spec
=============================================================================
