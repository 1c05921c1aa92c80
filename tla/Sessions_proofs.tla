-------------------------- MODULE Sessions_proofs --------------------------
(***************************************************************************)
(* Proofs about Sessions, for any number of sessions, users and requests,  *)
(* any settings and any length of time.                                    *)
(***************************************************************************)
EXTENDS Sessions, TLAPS

\* What the place of a handler says of its local variables.
GenPc == {"genRead", "genBlack", "genWrite"}

ShapeOf(q) ==
    /\ q.pc = "idle" => q.todo = {} /\ q.who = Null
    /\ q.pc # "idle" => q.session \in Sessions
    /\ q.kind = "gen" => /\ q.who \in Users
                         /\ q.pc \in GenPc \cup {"rejected"}
                         /\ q.todo \subseteq GenWrites
                         /\ q.session \in born \ issued
    /\ q.kind # "gen" => /\ q.who = Null
                         /\ q.pc \notin GenPc
                         /\ q.todo \cap GenWrites = {}
                         /\ q.pc # "idle" => q.session \in issued
    /\ q.pc = "genBlack" => q.old \in Sessions
    /\ q.todo # {} => q.pc \in {"genWrite", "refusing", "leave", "rejected"}

Shape == \A r \in Requests : ShapeOf(req[r])

\* Ids are not given twice, and what is known of a session stays with it.
Known ==
    /\ issued \subseteq born
    /\ blackSess \subseteq issued
    /\ \A r, q \in Requests :
          req[r].kind = "gen" /\ req[q].kind = "gen"
              /\ req[r].session = req[q].session => r = q
    /\ \A u \in Users : token[u].gone > 0 => token[u].session \in Sessions
    /\ \A s \in issued : docs[s].user # Null
    /\ \A r \in Requests :
          At(r, "genWrite") /\ "create" \notin req[r].todo =>
              /\ docs[req[r].session].user = req[r].who
              /\ docs[req[r].session].expiresAt = req[r].held

Typed == TypeOK /\ Shape /\ Known

\* A session has ended for good.
Cause(s) == s \in leaving \/ (docs[s].user # Null /\ IsExpired(s))

Causes ==
    /\ \A s \in blackSess : Cause(s)
    /\ \A s \in Sessions : docs[s].deleted => s \in issued /\ Cause(s)
    /\ \A r \in Requests :
          req[r].todo \cap {"black", "delete"} # {} => Cause(req[r].session)

\* Where a check that began too late can be.
Barred ==
    /\ ended \subseteq blackSess
    /\ \A r \in Requests :
          /\ At(r, "leave") /\ "black" \notin req[r].todo
                => req[r].session \in blackSess
          /\ "ended" \in req[r].late
                => /\ req[r].session \in blackSess
                   /\ req[r].pc \in {"checkBlack", "rejected"}

\* What bounds the entries of the cache by the date of the session.
Dated ==
    /\ \A s \in Sessions \ born : cache[s] = 0
    /\ \A s \in issued : cache[s] <= docs[s].expiresAt + Latency
    /\ \A r \in Requests :
          /\ ~At(r, "idle") => req[r].began <= now /\ now <= req[r].began + Latency
          /\ req[r].pc \in GenPc =>
                /\ req[r].held = req[r].began + RefreshDays
                /\ cache[req[r].session] <= req[r].held + Latency
          /\ At(r, "checkStore") =>
                req[r].held + req[r].began <= docs[req[r].session].expiresAt
          /\ "expired" \in req[r].late =>
                /\ now > docs[req[r].session].expiresAt + Latency
                /\ req[r].kind # "gen"
                /\ req[r].pc \notin {"idle", "checkStore", "accepted"}

\* A token that is current is the one gen will find and blacklist.
Replaced ==
    /\ \A r, q \in Requests :
          /\ req[r].pc \in GenPc
          /\ req[q].pc \in GenPc
          /\ req[r].who = req[q].who
          => r = q
    /\ \A r \in Requests :
          /\ req[r].kind = "gen" /\ At(r, "rejected") => req[r].who \in failedGens
          /\ req[r].pc \in GenPc => req[r].held <= now + RefreshDays
    /\ \A u \in Users \ failedGens :
          /\ \A s \in Current(u) : /\ token[u].session = s
                                   /\ token[u].gone > docs[s].expiresAt
          /\ \A r \in Requests :
                req[r].who = u =>
                    /\ At(r, "genBlack") => req[r].old = token[u].session
                    /\ At(r, "genWrite") => Current(u) = {}
                    /\ At(r, "genWrite") /\ "token" \notin req[r].todo =>
                          /\ token[u].session = req[r].session
                          /\ token[u].gone > req[r].held

----------------------------------------------------------------------------
(* What the helpers do to the record of a slot, field by field.  The       *)
(* proofs of the invariants use these facts and never the records.         *)

OthersWait(r) == \A q \in Requests \ {r} : req'[q] = req[q]

SameRequest(r) ==
    /\ req'[r].kind = req[r].kind
    /\ req'[r].who = req[r].who
    /\ req'[r].session = req[r].session
    /\ req'[r].began = req[r].began
    /\ req'[r].late = req[r].late

Becomes(r, pc, W) ==
    /\ req' \in [Requests -> Request]
    /\ OthersWait(r)
    /\ req'[r].pc = pc
    /\ req'[r].todo = W

Ends(r) ==
    /\ Becomes(r, "idle", {})
    /\ req'[r].kind = "http"
    /\ req'[r].who = Null
    /\ req'[r].late = {}

LEMMA IdleTyped == Idle \in Request
BY DEF Idle, Request, Pc, Kind

LEMMA FieldTypes ==
    ASSUME TypeOK, NEW r \in Requests
    PROVE  /\ req[r].pc \in Pc
           /\ req[r].kind \in Kind
           /\ req[r].who \in Users \cup {Null}
           /\ req[r].session \in Sessions \cup {Null}
           /\ req[r].old \in Sessions \cup {Null}
           /\ req[r].held \in Nat
           /\ req[r].began \in Nat
           /\ req[r].todo \in SUBSET WriteOp
           /\ req[r].late \in SUBSET {"ended", "expired"}
BY DEF TypeOK, Request

LEMMA ReturnSlot ==
    ASSUME TypeOK, NEW r \in Requests, Return(r) PROVE Ends(r)
<1>1. req' = [req EXCEPT ![r] = Idle] BY DEF Return
<1>2. req' \in [Requests -> Request] BY <1>1, IdleTyped DEF TypeOK
<1>3. req'[r] = Idle /\ OthersWait(r) BY <1>1 DEF TypeOK, OthersWait
<1> QED BY <1>2, <1>3 DEF Ends, Becomes, Idle

LEMMA AwaitSlot ==
    ASSUME TypeOK, NEW r \in Requests, NEW pc \in Pc, NEW W \in SUBSET WriteOp,
           Await(r, pc, W)
    PROVE  /\ Becomes(r, pc, W) /\ SameRequest(r)
           /\ req'[r].held = req[r].held /\ req'[r].old = req[r].old
<1> DEFINE q == [req[r] EXCEPT !.pc = pc, !.todo = W]
<1>1. req' = [req EXCEPT ![r] = q] BY DEF Await
<1>2. req[r] \in Request BY DEF TypeOK
<1>3. /\ q \in Request /\ q.pc = pc /\ q.todo = W
      /\ q.kind = req[r].kind /\ q.who = req[r].who /\ q.session = req[r].session
      /\ q.began = req[r].began /\ q.late = req[r].late
      /\ q.held = req[r].held /\ q.old = req[r].old
  BY <1>2 DEF Request
<1> HIDE DEF q
<1>4. req' \in [Requests -> Request] /\ req'[r] = q /\ OthersWait(r)
  BY <1>1, <1>3 DEF TypeOK, OthersWait
<1> QED BY <1>3, <1>4 DEF Becomes, SameRequest

LEMMA GotoSlot ==
    ASSUME TypeOK, NEW r \in Requests, NEW pc \in Pc, Goto(r, pc)
    PROVE  /\ Becomes(r, pc, req[r].todo) /\ SameRequest(r)
           /\ req'[r].held = req[r].held /\ req'[r].old = req[r].old
<1> DEFINE q == [req[r] EXCEPT !.pc = pc]
<1>1. req' = [req EXCEPT ![r] = q] BY DEF Goto
<1>2. req[r] \in Request BY DEF TypeOK
<1>3. /\ q \in Request /\ q.pc = pc /\ q.todo = req[r].todo
      /\ q.kind = req[r].kind /\ q.who = req[r].who /\ q.session = req[r].session
      /\ q.began = req[r].began /\ q.late = req[r].late
      /\ q.held = req[r].held /\ q.old = req[r].old
  BY <1>2 DEF Request
<1> HIDE DEF q
<1>4. req' \in [Requests -> Request] /\ req'[r] = q /\ OthersWait(r)
  BY <1>1, <1>3 DEF TypeOK, OthersWait
<1> QED BY <1>3, <1>4 DEF Becomes, SameRequest

LEMMA RejectSlot ==
    ASSUME TypeOK, NEW r \in Requests, NEW W \in SUBSET WriteOp, Reject(r, W)
    PROVE  \/ Ends(r) /\ W \cup Catch(r) = {}
           \/ /\ Becomes(r, "rejected", W \cup Catch(r)) /\ SameRequest(r)
              /\ req'[r].held = req[r].held /\ req'[r].old = req[r].old
<1>1. W \cup Catch(r) \in SUBSET WriteOp BY DEF Catch, WriteOp
<1>2. "rejected" \in Pc BY DEF Pc
<1>3. CASE W \cup Catch(r) = {}
  BY <1>3, ReturnSlot DEF Reject
<1>4. CASE W \cup Catch(r) # {}
  BY <1>1, <1>2, <1>4, AwaitSlot DEF Reject
<1> QED BY <1>3, <1>4

\* A handler that throws with no write under way.
LEMMA RejectNone ==
    ASSUME TypeOK, NEW r \in Requests, Reject(r, {})
    PROVE  \/ Ends(r) /\ Catch(r) = {}
           \/ Becomes(r, "rejected", Catch(r)) /\ SameRequest(r) /\ Catch(r) # {}
<1>1. {} \in SUBSET WriteOp OBVIOUS
<1>2. {} \cup Catch(r) = Catch(r) OBVIOUS
<1>3. \/ Ends(r) /\ {} \cup Catch(r) = {}
      \/ Becomes(r, "rejected", {} \cup Catch(r)) /\ SameRequest(r)
  BY <1>1, RejectSlot
<1>4. Catch(r) = {} => Ends(r)
  BY <1>2, ReturnSlot DEF Reject
<1> QED BY <1>2, <1>3, <1>4

LEMMA WrittenSlot ==
    ASSUME TypeOK, NEW r \in Requests, NEW w, Written(r, w)
    PROVE  \/ Ends(r) /\ At(r, "rejected")
           \/ /\ Becomes(r, req[r].pc, req[r].todo \ {w}) /\ SameRequest(r)
              /\ req'[r].held = req[r].held /\ req'[r].old = req[r].old
<1> DEFINE q == [req[r] EXCEPT !.todo = @ \ {w}]
<1>1. CASE At(r, "rejected") /\ req[r].todo = {w}
  BY <1>1, ReturnSlot DEF Written
<1>2. CASE ~(At(r, "rejected") /\ req[r].todo = {w})
  <2>1. req' = [req EXCEPT ![r] = q] BY <1>2 DEF Written
  <2>2. req[r] \in Request BY DEF TypeOK
  <2>3. /\ q \in Request /\ q.pc = req[r].pc /\ q.todo = req[r].todo \ {w}
        /\ q.kind = req[r].kind /\ q.who = req[r].who /\ q.session = req[r].session
        /\ q.began = req[r].began /\ q.late = req[r].late
        /\ q.held = req[r].held /\ q.old = req[r].old
    BY <2>2 DEF Request
  <2> HIDE DEF q
  <2>4. req' \in [Requests -> Request] /\ req'[r] = q /\ OthersWait(r)
    BY <2>1, <2>3 DEF TypeOK, OthersWait
  <2> QED BY <2>3, <2>4 DEF Becomes, SameRequest
<1> QED BY <1>1, <1>2

LEMMA GenBeginSlot ==
    ASSUME TypeOK, NEW r \in Requests, NEW u \in Users, NEW s \in Sessions,
           GenBegin(r, u, s)
    PROVE  /\ Becomes(r, "genRead", {})
           /\ req'[r].kind = "gen" /\ req'[r].who = u /\ req'[r].session = s
           /\ req'[r].held = now + RefreshDays /\ req'[r].began = now
           /\ req'[r].late = {}
<1> DEFINE q == Begin("genRead", "gen", u, s, now + RefreshDays, {}, {})
<1>1. req' = [req EXCEPT ![r] = q] BY DEF GenBegin
<1>2. q \in Request BY SessionsAssumption DEF Begin, Request, Pc, Kind, TypeOK
<1>3. /\ q.pc = "genRead" /\ q.kind = "gen" /\ q.who = u /\ q.session = s
      /\ q.held = now + RefreshDays /\ q.began = now /\ q.todo = {} /\ q.late = {}
  BY DEF Begin
<1> HIDE DEF q
<1>4. req' \in [Requests -> Request] /\ req'[r] = q /\ OthersWait(r)
  BY <1>1, <1>2 DEF TypeOK, OthersWait
<1> QED BY <1>3, <1>4 DEF Becomes

LEMMA GenReadSlot ==
    ASSUME TypeOK, NEW r \in Requests, GenRead(r), req[r].who \in Users
    PROVE  /\ SameRequest(r) /\ req'[r].held = req[r].held
           /\ \/ /\ Live(token[req[r].who].gone)
                 /\ Becomes(r, "genBlack", req[r].todo)
                 /\ req'[r].old = token[req[r].who].session
              \/ /\ ~Live(token[req[r].who].gone)
                 /\ Becomes(r, "genWrite", GenWrites)
<1> DEFINE t == token[req[r].who]
           q == [req[r] EXCEPT !.pc = "genBlack", !.old = t.session]
<1>1. CASE Live(t.gone)
  <2>1. req' = [req EXCEPT ![r] = q] BY <1>1 DEF GenRead
  <2>2. req[r] \in Request /\ t.session \in Sessions \cup {Null} BY DEF TypeOK
  <2> HIDE DEF t
  <2>3. /\ q \in Request /\ q.pc = "genBlack" /\ q.todo = req[r].todo
        /\ q.kind = req[r].kind /\ q.who = req[r].who /\ q.session = req[r].session
        /\ q.began = req[r].began /\ q.late = req[r].late
        /\ q.held = req[r].held /\ q.old = t.session
    BY <2>2 DEF Request, Pc
  <2> HIDE DEF q
  <2>4. req' \in [Requests -> Request] /\ req'[r] = q /\ OthersWait(r)
    BY <2>1, <2>3 DEF TypeOK, OthersWait
  <2> QED BY <1>1, <2>3, <2>4 DEF Becomes, SameRequest, t
<1>2. CASE ~Live(t.gone)
  <2>1. Await(r, "genWrite", GenWrites) BY <1>2 DEF GenRead
  <2>2. "genWrite" \in Pc /\ GenWrites \in SUBSET WriteOp BY DEF Pc, GenWrites, WriteOp
  <2> QED BY <1>2, <2>1, <2>2, AwaitSlot
<1> QED BY <1>1, <1>2

LEMMA CheckingSlot ==
    ASSUME TypeOK, NEW r \in Requests, NEW pc \in Pc, NEW kind \in {"http", "socket"},
           NEW s \in Sessions, NEW W \in SUBSET WriteOp,
           req' = [req EXCEPT ![r] = Checking(pc, kind, s, W)]
    PROVE  /\ Becomes(r, pc, W)
           /\ req'[r].kind = kind /\ req'[r].who = Null /\ req'[r].session = s
           /\ req'[r].began = now /\ req'[r].late = Over(s)
<1> DEFINE q == Checking(pc, kind, s, W)
<1>1. Over(s) \in SUBSET {"ended", "expired"} BY DEF Over
<1>2. q \in Request BY <1>1 DEF Checking, Begin, Request, Kind, TypeOK
<1>3. /\ q.pc = pc /\ q.todo = W /\ q.kind = kind /\ q.who = Null
      /\ q.session = s /\ q.began = now /\ q.late = Over(s)
  BY DEF Checking, Begin
<1>4. req' = [req EXCEPT ![r] = q] OBVIOUS
<1> HIDE DEF q
<1>5. req' \in [Requests -> Request] /\ req'[r] = q /\ OthersWait(r)
  BY <1>2, <1>4 DEF TypeOK, OthersWait
<1> QED BY <1>3, <1>5 DEF Becomes

\* Both checks begin alike, with or without the write of a refusal.
Begun(r, s) ==
    /\ s \in issued
    /\ req'[r].kind \in {"http", "socket"}
    /\ req'[r].who = Null
    /\ req'[r].session = s
    /\ req'[r].began = now
    /\ req'[r].late = Over(s)
    /\ Becomes(r, "checkBlack", {}) \/ Becomes(r, "rejected", {"tokenBlack"})

LEMMA HttpCheckSlot ==
    ASSUME TypeOK, NEW r \in Requests, NEW s \in Sessions, HttpCheck(r, s)
    PROVE  Begun(r, s)
<1>1. req' = [req EXCEPT ![r] = Checking("checkBlack", "http", s, {})]
  BY DEF HttpCheck
<1>2. "checkBlack" \in Pc /\ {} \in SUBSET WriteOp BY DEF Pc
<1>3. /\ Becomes(r, "checkBlack", {})
      /\ req'[r].kind = "http" /\ req'[r].who = Null /\ req'[r].session = s
      /\ req'[r].began = now /\ req'[r].late = Over(s)
  BY <1>1, <1>2, CheckingSlot
<1> QED BY <1>3 DEF Begun, HttpCheck

LEMMA SocketCheckSlot ==
    ASSUME TypeOK, NEW r \in Requests, NEW s \in Sessions, SocketCheck(r, s)
    PROVE  Begun(r, s)
<1>1. "checkBlack" \in Pc /\ "rejected" \in Pc
        /\ {} \in SUBSET WriteOp /\ {"tokenBlack"} \in SUBSET WriteOp
  BY DEF Pc, WriteOp
<1>2. CASE req' = [req EXCEPT ![r] = Checking("checkBlack", "socket", s, {})]
  <2>1. /\ Becomes(r, "checkBlack", {})
        /\ req'[r].kind = "socket" /\ req'[r].who = Null /\ req'[r].session = s
        /\ req'[r].began = now /\ req'[r].late = Over(s)
    BY <1>1, <1>2, CheckingSlot
  <2> QED BY <2>1 DEF Begun, SocketCheck
<1>3. CASE req' = [req EXCEPT ![r] = Checking("rejected", "socket", s, {"tokenBlack"})]
  <2>1. /\ Becomes(r, "rejected", {"tokenBlack"})
        /\ req'[r].kind = "socket" /\ req'[r].who = Null /\ req'[r].session = s
        /\ req'[r].began = now /\ req'[r].late = Over(s)
    BY <1>1, <1>3, CheckingSlot
  <2> QED BY <2>1 DEF Begun, SocketCheck
<1> QED BY <1>2, <1>3 DEF SocketCheck

\* The three outcomes of looking the session up in MongoDB.
LEMMA CheckLoadSlot ==
    ASSUME TypeOK, NEW r \in Requests, CheckLoad(r), req[r].session \in Sessions
    PROVE  /\ SameRequest(r)
           /\ LET s == req[r].session
              IN  \/ ~Found(s) /\ Becomes(r, "refusing", {"black"})
                  \/ /\ Found(s) /\ IsExpired(s)
                     /\ Becomes(r, "refusing", {"delete", "black", "forget"})
                  \/ /\ Found(s) /\ ~IsExpired(s)
                     /\ Becomes(r, "checkStore", req[r].todo)
                     /\ req'[r].held = docs[s].expiresAt - now
<1> DEFINE s == req[r].session
           q == [req[r] EXCEPT !.pc = "checkStore", !.held = docs[s].expiresAt - now]
<1>1. "refusing" \in Pc /\ {"black"} \in SUBSET WriteOp
        /\ {"delete", "black", "forget"} \in SUBSET WriteOp
  BY DEF Pc, WriteOp
<1>2. CASE ~Found(s) /\ Await(r, "refusing", {"black"})
  BY <1>1, <1>2, AwaitSlot
<1>3. CASE Found(s) /\ IsExpired(s) /\ Await(r, "refusing", {"delete", "black", "forget"})
  BY <1>1, <1>3, AwaitSlot
<1>4. CASE Found(s) /\ ~IsExpired(s) /\ req' = [req EXCEPT ![r] = q]
  <2>1. req[r] \in Request BY DEF TypeOK
  <2>2. docs[s].expiresAt - now \in Nat BY <1>4 DEF TypeOK, Doc, IsExpired
  <2>3. /\ q \in Request /\ q.pc = "checkStore" /\ q.todo = req[r].todo
        /\ q.kind = req[r].kind /\ q.who = req[r].who /\ q.session = req[r].session
        /\ q.began = req[r].began /\ q.late = req[r].late
        /\ q.held = docs[s].expiresAt - now
    <3> DEFINE n == docs[s].expiresAt - now
    <3>1. n \in Nat BY <2>2
    <3> HIDE DEF n
    <3>2. q = [req[r] EXCEPT !.pc = "checkStore", !.held = n] BY DEF n
    <3> HIDE DEF q
    <3>3. /\ q \in Request /\ q.pc = "checkStore" /\ q.todo = req[r].todo
          /\ q.kind = req[r].kind /\ q.who = req[r].who /\ q.session = req[r].session
          /\ q.began = req[r].began /\ q.late = req[r].late
          /\ q.held = n
      BY <2>1, <3>1, <3>2 DEF Request, Pc
    <3> QED BY <3>3 DEF n
  <2> HIDE DEF q
  <2>4. req' \in [Requests -> Request] /\ req'[r] = q /\ OthersWait(r)
    BY <1>4, <2>3 DEF TypeOK, OthersWait
  <2> QED BY <1>4, <2>3, <2>4 DEF Becomes, SameRequest
<1> QED BY <1>2, <1>3, <1>4 DEF CheckLoad

----------------------------------------------------------------------------
(* Typing *)

\* Steps that only move one handler along.
Quiet == UNCHANGED <<now, stores, history>>

LEMMA DaysAreNaturals == TokenDays \in Nat /\ TokenDays > 0
BY SessionsAssumption DEF TokenDays

LEMMA InitTyped == Init => Typed
<1>1. ASSUME Init PROVE TypeOK
  BY <1>1, SessionsAssumption, IdleTyped DEF Init, TypeOK, NoDoc, Doc
<1>2. ASSUME Init PROVE Shape
  BY <1>2, SessionsAssumption DEF Init, Shape, ShapeOf, Idle, GenPc
<1>3. ASSUME Init PROVE Known
  BY <1>3, SessionsAssumption DEF Init, Known, Idle, At
<1> QED BY <1>1, <1>2, <1>3 DEF Typed

\* The steps of gen keep the types.
LEMMA GenTyped ==
    ASSUME Typed, NEW r \in Requests, GenStep(r) PROVE Typed'
<1>0. TypeOK /\ Shape /\ Known BY DEF Typed
<1>1. ASSUME NEW u \in Users, NEW s \in Sessions, GenBegin(r, u, s) PROVE Typed'
  <2>1. /\ Becomes(r, "genRead", {})
        /\ req'[r].kind = "gen" /\ req'[r].who = u /\ req'[r].session = s
    BY <1>0, <1>1, GenBeginSlot
  <2>2. TypeOK'
    BY <1>0, <1>1, <2>1 DEF GenBegin, TypeOK, Becomes, stores
  <2>3. Shape'
    BY <1>0, <1>1, <2>1 DEF GenBegin, Shape, ShapeOf, Known, Becomes, OthersWait, GenPc
  <2>4. Known'
    BY <1>0, <1>1, <2>1 DEF GenBegin, Shape, ShapeOf, Known, Becomes, OthersWait, GenPc,
                            stores, At
  <2> QED BY <2>2, <2>3, <2>4 DEF Typed
<1>2. CASE GenRead(r)
  <2>0. req[r].who \in Users /\ req[r].kind = "gen" /\ req[r].todo = {}
    BY <1>0, <1>2 DEF GenRead, Shape, ShapeOf, At, GenPc
  <2>1. SameRequest(r) /\ Becomes(r, req'[r].pc, req'[r].todo)
    BY <1>0, <1>2, <2>0, GenReadSlot DEF Becomes
  <2>2. \/ /\ req'[r].pc = "genBlack" /\ req'[r].todo = req[r].todo
           /\ req'[r].old \in Sessions
        \/ req'[r].pc = "genWrite" /\ req'[r].todo = GenWrites
    BY <1>0, <1>2, <2>0, GenReadSlot DEF Becomes, Known, Live, TypeOK
  <2>3. TypeOK'
    BY <1>0, <1>2, <2>1 DEF GenRead, TypeOK, Becomes, stores, history
  <2>4. Shape'
    BY <1>0, <1>2, <2>0, <2>1, <2>2
       DEF GenRead, Shape, ShapeOf, Becomes, OthersWait, SameRequest, GenPc, GenWrites,
           history, At
  <2>5. Known'
    BY <1>0, <1>2, <2>0, <2>1, <2>2
       DEF GenRead, Known, Becomes, OthersWait, SameRequest, GenWrites, stores, history, At
  <2> QED BY <2>3, <2>4, <2>5 DEF Typed
<1>3. CASE GenBlacklist(r)
  <2>0. req[r].old \in Sessions /\ req[r].kind = "gen"
    BY <1>0, <1>3 DEF GenBlacklist, Shape, ShapeOf, At, GenPc
  <2>1. SameRequest(r) /\ Becomes(r, "genWrite", GenWrites)
    BY <1>0, <1>3, AwaitSlot DEF GenBlacklist, Pc, GenWrites, WriteOp
  <2>2. now + AccessDays \in Nat
    BY <1>0, SessionsAssumption DEF TypeOK
  <2>3. TypeOK'
    BY <1>0, <1>3, <2>0, <2>1, <2>2 DEF GenBlacklist, TypeOK, Becomes, history
  <2>4. Shape'
    BY <1>0, <1>3, <2>0, <2>1
       DEF GenBlacklist, Shape, ShapeOf, Becomes, OthersWait, SameRequest, GenPc,
           GenWrites, history, At
  <2>5. Known'
    BY <1>0, <1>3, <2>0, <2>1
       DEF GenBlacklist, Known, Becomes, OthersWait, SameRequest, GenWrites, history, At
  <2> QED BY <2>3, <2>4, <2>5 DEF Typed
<1>4. CASE GenReturn(r)
  <2>0. req[r].session \in born /\ req[r].kind = "gen"
    BY <1>0, <1>4 DEF GenReturn, Shape, ShapeOf, At, GenPc
  <2>1. Ends(r)
    BY <1>0, <1>4, ReturnSlot DEF GenReturn
  <2>2. docs[req[r].session].user = req[r].who /\ req[r].who # Null
    BY <1>0, <1>4, <2>0, SessionsAssumption
       DEF GenReturn, AllWritten, Known, At, Shape, ShapeOf
  <2>3. TypeOK'
    BY <1>0, <1>4, <2>0, <2>1 DEF GenReturn, TypeOK, Ends, Becomes, stores
  <2>4. Shape'
    BY <1>0, <1>4, <2>0, <2>1
       DEF GenReturn, Shape, ShapeOf, Known, Ends, Becomes, OthersWait, GenPc
  <2>5. Known'
    BY <1>0, <1>4, <2>0, <2>1, <2>2
       DEF GenReturn, Known, Ends, Becomes, OthersWait, stores, At
  <2> QED BY <2>3, <2>4, <2>5 DEF Typed
<1> QED BY <1>1, <1>2, <1>3, <1>4 DEF GenStep

\* A handler that ends, or a check that goes on to its next query, without
\* touching the stores.
LEMMA EndTyped ==
    ASSUME Typed, NEW r \in Requests, Quiet, Ends(r) PROVE Typed'
<1>1. TypeOK'
  BY DEF Typed, TypeOK, Quiet, Ends, Becomes, stores, history
<1>2. Shape'
  BY DEF Typed, Shape, ShapeOf, Quiet, Ends, Becomes, OthersWait, GenPc, history
<1>3. Known'
  BY DEF Typed, Known, Quiet, Ends, Becomes, OthersWait, stores, history, At
<1> QED BY <1>1, <1>2, <1>3 DEF Typed

CheckPc == {"checkBlack", "checkCache", "checkLoad", "checkStore", "accepted"}

\* What a check, a logout or a handler that throws may become.
GoesOn(r) ==
    /\ Becomes(r, req'[r].pc, req'[r].todo)
    /\ SameRequest(r)
    /\ req'[r].todo \cap GenWrites = {}
    /\ \/ req'[r].pc \in CheckPc /\ req'[r].todo = {}
       \/ req'[r].pc \in {"refusing", "leave", "rejected"}

LEMMA GoesOnTyped ==
    ASSUME Typed, NEW r \in Requests, Quiet, GoesOn(r),
           req[r].kind # "gen", req[r].pc # "idle"
    PROVE  Typed'
<1>1. TypeOK'
  BY DEF Typed, TypeOK, Quiet, GoesOn, Becomes, stores, history
<1>2. Shape'
  BY DEF Typed, Shape, ShapeOf, Quiet, GoesOn, Becomes, OthersWait, SameRequest, GenPc,
         CheckPc, history
<1>3. Known'
  BY DEF Typed, Known, Quiet, GoesOn, Becomes, OthersWait, SameRequest, CheckPc, stores,
         history, At
<1> QED BY <1>1, <1>2, <1>3 DEF Typed

LEMMA BegunTyped ==
    ASSUME Typed, NEW r \in Requests, NEW s \in Sessions, Quiet, Begun(r, s) PROVE Typed'
<1>0. Becomes(r, req'[r].pc, req'[r].todo)
  BY DEF Begun, Becomes
<1>1. TypeOK'
  BY <1>0 DEF Typed, TypeOK, Quiet, Becomes, stores, history
<1>2. Shape'
  <2>1. ShapeOf(req[r])'
    BY DEF Begun, Becomes, Quiet, history, ShapeOf, GenPc, GenWrites
  <2> QED BY <1>0, <2>1 DEF Typed, Shape, ShapeOf, Quiet, Becomes, OthersWait, history
<1>3. Known'
  BY <1>0 DEF Typed, Known, Quiet, Begun, Becomes, OthersWait, stores, history, At
<1> QED BY <1>1, <1>2, <1>3 DEF Typed

\* What decides how a check goes on.
CheckRule(r) ==
    LET s == req[r].session
    IN  /\ req[r].pc \in CheckPc \cup {"refusing"}
        /\ req'[r].pc # "leave"
        /\ At(r, "checkBlack") /\ s \in blackSess => req'[r].pc = "rejected"
        /\ req'[r].pc = "accepted" => Live(cache[s]) \/ At(r, "checkStore")
        /\ req'[r].pc = "checkStore" =>
              ~IsExpired(s) /\ req'[r].held = docs[s].expiresAt - now
        /\ req'[r].todo \cap {"black", "delete"} # {} => ~Found(s) \/ IsExpired(s)

\* What a step of a check does, for all invariants.
LEMMA CheckMoves ==
    ASSUME Typed, NEW r \in Requests, CheckStep(r)
    PROVE  \/ Quiet /\ \E s \in Sessions : Begun(r, s)
           \/ Quiet /\ Ends(r)
           \/ /\ req[r].kind # "gen" /\ req[r].pc # "idle" /\ req[r].session \in issued
              /\ GoesOn(r) /\ CheckRule(r)
              /\ Quiet \/ CheckStore(r)
<1>0. TypeOK /\ Shape BY DEF Typed
<1>1. CASE \E s \in Sessions : HttpCheck(r, s)
  BY <1>0, <1>1, HttpCheckSlot DEF HttpCheck, Quiet
<1>2. CASE \E s \in Sessions : SocketCheck(r, s)
  BY <1>0, <1>2, SocketCheckSlot DEF SocketCheck, Quiet
<1>3. CASE CheckBlack(r)
  <2>1. req[r].kind # "gen" /\ req[r].pc # "idle" /\ req[r].session \in issued /\ req[r].todo = {}
    BY <1>0, <1>3 DEF CheckBlack, At, Shape, ShapeOf, GenPc
  <2>2. CASE req[r].session \in blackSess
    <3>1. Ends(r) \/ (Becomes(r, "rejected", Catch(r)) /\ SameRequest(r))
      <4>1. Reject(r, {}) BY <1>3, <2>2 DEF CheckBlack
      <4> QED BY <1>0, <4>1, RejectNone
    <3>2. CASE Ends(r)
      BY <1>3, <3>2 DEF CheckBlack, Quiet
    <3>3. CASE Becomes(r, "rejected", Catch(r)) /\ SameRequest(r)
      <4>1. req'[r].pc = "rejected" /\ req'[r].todo = Catch(r)
        BY <3>3 DEF Becomes
      <4>2. Catch(r) \cap GenWrites = {} /\ Catch(r) \cap {"black", "delete"} = {}
        BY DEF Catch, GenWrites
      <4>3. GoesOn(r)
        BY <3>3, <4>1, <4>2 DEF GoesOn
      <4>4. CheckRule(r)
        BY <1>3, <4>1, <4>2 DEF CheckRule, CheckBlack, CheckPc, At
      <4> QED BY <1>3, <2>1, <4>3, <4>4 DEF CheckBlack, Quiet
    <3> QED BY <3>1, <3>2, <3>3
  <2>3. CASE req[r].session \notin blackSess
    <3>1. Becomes(r, "checkCache", {}) /\ SameRequest(r)
      BY <1>0, <1>3, <2>1, <2>3, GotoSlot DEF CheckBlack, Pc
    <3> QED BY <1>3, <2>1, <2>3, <3>1
            DEF CheckBlack, Quiet, GoesOn, CheckRule, Becomes, CheckPc, At
  <2> QED BY <2>2, <2>3
<1>4. CASE CheckCache(r)
  <2>1. req[r].kind # "gen" /\ req[r].pc # "idle" /\ req[r].session \in issued /\ req[r].todo = {}
    BY <1>0, <1>4 DEF CheckCache, At, Shape, ShapeOf, GenPc
  <2>2. /\ SameRequest(r)
        /\ \/ Becomes(r, "accepted", {}) /\ Live(cache[req[r].session])
           \/ Becomes(r, "checkLoad", {})
    BY <1>0, <1>4, <2>1, GotoSlot DEF CheckCache, Pc
  <2> QED BY <1>4, <2>1, <2>2
          DEF CheckCache, Quiet, GoesOn, CheckRule, Becomes, CheckPc, At
<1>5. CASE CheckLoad(r)
  <2>1. /\ req[r].kind # "gen" /\ req[r].pc # "idle" /\ req[r].session \in issued
        /\ req[r].todo = {} /\ req[r].session \in Sessions
    BY <1>0, <1>5 DEF CheckLoad, At, Shape, ShapeOf, GenPc
  <2> QED BY <1>0, <1>5, <2>1, CheckLoadSlot
            DEF CheckLoad, Quiet, GoesOn, CheckRule, Becomes, CheckPc, GenWrites, At
<1>6. CASE CheckStore(r)
  <2>1. req[r].kind # "gen" /\ req[r].pc # "idle" /\ req[r].session \in issued /\ req[r].todo = {}
    BY <1>0, <1>6 DEF CheckStore, At, Shape, ShapeOf, GenPc
  <2>2. Becomes(r, "accepted", {}) /\ SameRequest(r)
    BY <1>0, <1>6, <2>1, GotoSlot DEF CheckStore, Pc
  <2> QED BY <1>6, <2>1, <2>2 DEF CheckStore, GoesOn, CheckRule, Becomes, CheckPc, At
<1>7. CASE Refuse(r)
  <2>1. req[r].kind # "gen" /\ req[r].pc # "idle" /\ req[r].session \in issued
    BY <1>0, <1>7 DEF Refuse, At, Shape, ShapeOf, GenPc
  <2> QED BY <1>0, <1>7, <2>1, RejectNone
            DEF Refuse, Quiet, GoesOn, CheckRule, CheckPc, Becomes, Catch, GenWrites, At
<1>8. CASE Answer(r)
  BY <1>0, <1>8, ReturnSlot DEF Answer, Quiet
<1> QED BY <1>1, <1>2, <1>3, <1>4, <1>5, <1>6, <1>7, <1>8 DEF CheckStep

\* The steps of the checks keep the types.
LEMMA CheckTyped ==
    ASSUME Typed, NEW r \in Requests, CheckStep(r) PROVE Typed'
<1>1. CASE Quiet
  BY <1>1, CheckMoves, BegunTyped, EndTyped, GoesOnTyped
<1>2. CASE ~Quiet
  <2>1. req[r].kind # "gen" /\ req[r].pc # "idle" /\ GoesOn(r) /\ CheckStore(r)
    BY <1>2, CheckMoves
  <2>2. now + req[r].held \in Nat
    BY FieldTypes DEF Typed, TypeOK
  <2>3. TypeOK'
    BY <2>1, <2>2 DEF Typed, TypeOK, CheckStore, GoesOn, Becomes, history
  <2>4. Shape'
    BY <2>1 DEF Typed, Shape, ShapeOf, CheckStore, GoesOn, Becomes, OthersWait,
                SameRequest, GenPc, CheckPc, history
  <2>5. Known'
    BY <2>1 DEF Typed, Known, CheckStore, GoesOn, Becomes, OthersWait, SameRequest,
                CheckPc, history, At
  <2> QED BY <2>3, <2>4, <2>5 DEF Typed
<1> QED BY <1>1, <1>2

\* The steps of logout keep the types.
LEMMA LogoutTyped ==
    ASSUME Typed, NEW r \in Requests, LogoutStep(r) PROVE Typed'
<1>0. TypeOK /\ Shape /\ Known BY DEF Typed
<1>1. CASE LogoutBegin(r)
  <2>0. req[r].session \in issued /\ req[r].kind # "gen"
    BY <1>0, <1>1 DEF LogoutBegin, Shape, ShapeOf, At, GenPc
  <2>1. SameRequest(r) /\ Becomes(r, "leave", DeleteWrites)
    BY <1>0, <1>1, AwaitSlot DEF LogoutBegin, Pc, DeleteWrites, WriteOp
  <2>2. TypeOK'
    BY <1>0, <1>1, <2>0, <2>1 DEF LogoutBegin, TypeOK, Becomes, stores
  <2>3. Shape'
    <3>1. ShapeOf(req[r])'
      BY <1>0, <1>1, <2>0, <2>1
         DEF LogoutBegin, Shape, ShapeOf, Becomes, SameRequest, GenPc, GenWrites,
             DeleteWrites, At
    <3> QED BY <1>0, <1>1, <2>1, <3>1 DEF LogoutBegin, Shape, ShapeOf, Becomes, OthersWait
  <2>4. Known'
    BY <1>0, <1>1, <2>0, <2>1
       DEF LogoutBegin, Known, Becomes, OthersWait, SameRequest, stores, At
  <2> QED BY <2>2, <2>3, <2>4 DEF Typed
<1>2. CASE LogoutReturn(r)
  <2>0. req[r].session \in Sessions
    BY <1>0, <1>2 DEF LogoutReturn, Shape, ShapeOf, At
  <2>1. Ends(r)
    BY <1>0, <1>2, ReturnSlot DEF LogoutReturn
  <2>2. TypeOK'
    BY <1>0, <1>2, <2>0, <2>1 DEF LogoutReturn, TypeOK, Ends, Becomes, stores
  <2>3. Shape'
    BY <1>0, <1>2, <2>1
       DEF LogoutReturn, Shape, ShapeOf, Ends, Becomes, OthersWait, GenPc
  <2>4. Known'
    BY <1>0, <1>2, <2>1
       DEF LogoutReturn, Known, Ends, Becomes, OthersWait, stores, At
  <2> QED BY <2>2, <2>3, <2>4 DEF Typed
<1> QED BY <1>1, <1>2 DEF LogoutStep

\* The handler whose write is applied or fails.
LEMMA WritingPlace ==
    ASSUME Typed, NEW r \in Requests, NEW w \in req[r].todo
    PROVE  /\ req[r].pc \in {"genWrite", "refusing", "leave", "rejected"}
           /\ req[r].session \in Sessions
           /\ req[r].kind = "gen" =>
                 req[r].who \in Users /\ w \in GenWrites
                    /\ req[r].session \in born \ issued
           /\ req[r].kind # "gen" =>
                 w \notin GenWrites /\ req[r].session \in issued /\ req[r].pc # "genWrite"
BY DEF Typed, Shape, ShapeOf, GenPc

\* The writes of a Promise.all keep the types.
LEMMA WriteTyped ==
    ASSUME Typed, NEW r \in Requests, NEW w \in WriteOp, Write(r, w) PROVE Typed'
<1>0. TypeOK /\ Shape /\ Known BY DEF Typed
<1>1. w \in req[r].todo /\ Written(r, w) /\ Apply(r, w) /\ UNCHANGED <<now, history>>
  BY DEF Write
<1>2. \/ Ends(r) /\ At(r, "rejected")
      \/ /\ Becomes(r, req[r].pc, req[r].todo \ {w}) /\ SameRequest(r)
         /\ req'[r].held = req[r].held /\ req'[r].old = req[r].old
  BY <1>0, <1>1, WrittenSlot
<1>3. /\ req[r].session \in Sessions
      /\ req[r].held \in Nat
      /\ req[r].kind = "gen" =>
            req[r].who \in Users /\ w \in GenWrites /\ req[r].session \in born \ issued
      /\ req[r].kind # "gen" => w \notin GenWrites /\ req[r].session \in issued
  BY <1>0, <1>1, WritingPlace, FieldTypes
<1>4. now + AccessDays \in Nat /\ now + TokenDays \in Nat /\ now + TokenDays > 0
  BY <1>0, DaysAreNaturals, SessionsAssumption DEF TypeOK
<1>5. TypeOK'
  <2>1. req' \in [Requests -> Request]
    BY <1>2 DEF Ends, Becomes
  <2>2. docs' \in [Sessions -> Doc]
    <3>1. CASE w = "create"
      <4>1. w \in GenWrites /\ req[r].kind = "gen"
        BY <1>3, <3>1 DEF GenWrites
      <4>2. [user |-> req[r].who, expiresAt |-> req[r].held, deleted |-> FALSE] \in Doc
        BY <1>3, <4>1 DEF Doc
      <4> QED BY <1>0, <1>1, <1>3, <3>1, <4>2 DEF Apply, TypeOK
    <3>2. CASE w = "delete"
      <4>1. docs[req[r].session] \in Doc BY <1>0, <1>3 DEF TypeOK
      <4>2. [docs[req[r].session] EXCEPT !.deleted = TRUE] \in Doc BY <4>1 DEF Doc
      <4> QED BY <1>0, <1>1, <1>3, <3>2, <4>2 DEF Apply, TypeOK
    <3>3. CASE w \notin {"create", "delete"}
      BY <1>0, <1>1, <3>3 DEF Apply, TypeOK
    <3> QED BY <3>1, <3>2, <3>3
  <2>3. token' \in [Users -> [session : Sessions \cup {Null}, gone : Nat]]
    BY <1>0, <1>1, <1>3, <1>4 DEF Apply, TypeOK, GenWrites
  <2>4. cache' \in [Sessions -> Nat]
    BY <1>0, <1>1, <1>4 DEF Apply, TypeOK
  <2> QED BY <1>0, <1>1, <1>3, <2>1, <2>2, <2>3, <2>4 DEF TypeOK, Apply, history
<1>6. Shape'
  BY <1>0, <1>1, <1>2, <1>3
     DEF Shape, ShapeOf, Ends, Becomes, OthersWait, SameRequest, GenPc, history, At
<1>7. Known'
  <2>1. /\ blackSess' \subseteq issued
        /\ \A u \in Users : token'[u].gone > 0 => token'[u].session \in Sessions
    BY <1>0, <1>1, <1>3, <1>4 DEF Apply, Known, TypeOK, GenWrites
  <2>2. \A s \in issued : docs'[s].user # Null
    <3>1. CASE w = "create"
      <4>1. req[r].session \notin issued BY <1>3, <3>1 DEF GenWrites
      <4> QED BY <1>0, <1>1, <3>1, <4>1 DEF Apply, Known, TypeOK
    <3>2. CASE w = "delete"
      BY <1>0, <1>1, <3>2 DEF Apply, Known, TypeOK, Doc
    <3>3. CASE w # "create" /\ w # "delete"
      BY <1>0, <1>1, <3>3 DEF Apply, Known
    <3> QED BY <3>1, <3>2, <3>3
  <2>3. \A q, p \in Requests :
           req'[q].kind = "gen" /\ req'[p].kind = "gen"
              /\ req'[q].session = req'[p].session => q = p
    BY <1>0, <1>2 DEF Known, Ends, Becomes, OthersWait, SameRequest
  <2>4. ASSUME NEW q \in Requests, At(q, "genWrite")', "create" \notin req'[q].todo
        PROVE  /\ docs'[req'[q].session].user = req'[q].who
               /\ docs'[req'[q].session].expiresAt = req'[q].held
    <3>0. /\ At(q, "genWrite") /\ req[q].kind = "gen" /\ req[q].session \in born \ issued
          /\ req'[q].session = req[q].session /\ req'[q].who = req[q].who
          /\ req'[q].held = req[q].held
          /\ "create" \in req[q].todo => q = r /\ w = "create"
      BY <1>0, <1>2, <2>4 DEF Ends, Becomes, OthersWait, SameRequest, At, Shape, ShapeOf,
                              GenPc
    <3>1. CASE w = "create" /\ q = r
      BY <1>0, <1>1, <1>3, <3>0, <3>1 DEF Apply, TypeOK
    <3>2. CASE ~(w = "create" /\ q = r)
      <4>1. docs[req[q].session].user = req[q].who /\ docs[req[q].session].expiresAt = req[q].held
        BY <1>0, <3>0, <3>2 DEF Known
      <4>2. w = "create" \/ w = "delete" => req[q].session # req[r].session
        BY <1>0, <1>3, <3>0, <3>2 DEF Known, GenWrites
      <4>3. docs'[req[q].session] = docs[req[q].session]
        <5>1. CASE w = "create" \/ w = "delete"
          BY <1>0, <1>1, <4>2, <5>1, <3>0 DEF Apply, TypeOK
        <5>2. CASE w # "create" /\ w # "delete"
          BY <1>1, <5>2 DEF Apply
        <5> QED BY <5>1, <5>2
      <4> QED BY <3>0, <4>1, <4>3
    <3> QED BY <3>1, <3>2
  <2> QED BY <1>0, <1>1, <2>1, <2>2, <2>3, <2>4 DEF Known, history, At
<1> QED BY <1>5, <1>6, <1>7 DEF Typed

\* What the failure of a write does to its handler.
LEMMA WriteFailsMoves ==
    ASSUME Typed, NEW r \in Requests, NEW w \in WriteOp, WriteFails(r, w)
    PROVE  /\ w \in req[r].todo
           /\ \/ Ends(r)
              \/ /\ Becomes(r, "rejected", req'[r].todo) /\ SameRequest(r)
                 /\ req'[r].todo \subseteq req[r].todo \cup {"tokenBlack"}
                 /\ req[r].kind = "gen" => req'[r].todo \subseteq req[r].todo
<1>0. TypeOK BY DEF Typed
<1>1. w \in req[r].todo BY DEF WriteFails
<1>2. CASE At(r, "rejected")
  BY <1>0, <1>1, <1>2, WrittenSlot DEF WriteFails, At, Becomes
<1>3. CASE ~At(r, "rejected")
  <2>1. Reject(r, req[r].todo \ {w}) BY <1>3 DEF WriteFails
  <2>2. req[r].todo \ {w} \in SUBSET WriteOp BY <1>0, FieldTypes
  <2> QED BY <1>0, <1>1, <2>1, <2>2, RejectSlot DEF Becomes, Catch
<1> QED BY <1>2, <1>3

LEMMA WriteFailsTyped ==
    ASSUME Typed, NEW r \in Requests, NEW w \in WriteOp, WriteFails(r, w) PROVE Typed'
<1>0. TypeOK /\ Shape /\ Known BY DEF Typed
<1>1. /\ w \in req[r].todo
      /\ \/ Ends(r)
         \/ /\ Becomes(r, "rejected", req'[r].todo) /\ SameRequest(r)
            /\ req'[r].todo \subseteq req[r].todo \cup {"tokenBlack"}
            /\ req[r].kind = "gen" => req'[r].todo \subseteq req[r].todo
  BY WriteFailsMoves
<1>2. req' \in [Requests -> Request] /\ OthersWait(r)
  BY <1>1 DEF Ends, Becomes
<1>3. /\ req[r].session \in Sessions
      /\ req[r].kind = "gen" => req[r].who \in Users
      /\ req[r].pc = "genWrite" => req[r].who \in Users
  BY <1>0, <1>1, WritingPlace DEF Shape, ShapeOf, GenPc
<1>4. TypeOK'
  BY <1>0, <1>2, <1>3 DEF WriteFails, TypeOK, stores, At
<1>5. Shape'
  BY <1>0, <1>1, <1>3
     DEF WriteFails, Shape, ShapeOf, Ends, Becomes, OthersWait, SameRequest, GenPc,
         GenWrites
<1>6. Known'
  BY <1>0, <1>1
     DEF WriteFails, Known, Ends, Becomes, OthersWait, SameRequest, stores, At
<1> QED BY <1>4, <1>5, <1>6 DEF Typed

\* A handler whose query fails ends, or writes the black list of verifyToken.
LEMMA QueryFailsMoves ==
    ASSUME Typed, NEW r \in Requests, QueryFails(r)
    PROVE  /\ Quiet
           /\ \/ Ends(r)
              \/ /\ req[r].kind # "gen" /\ req[r].pc # "idle"
                 /\ Becomes(r, "rejected", {"tokenBlack"}) /\ SameRequest(r)
<1>0. TypeOK BY DEF Typed
<1>1. Quiet /\ Reject(r, {}) /\ req[r].pc # "idle"
  BY DEF QueryFails, Quiet
<1>2. Catch(r) # {} => Catch(r) = {"tokenBlack"} /\ req[r].kind # "gen"
  BY DEF Catch
<1> QED BY <1>0, <1>1, <1>2, RejectNone

LEMMA QueryFailsTyped ==
    ASSUME Typed, NEW r \in Requests, QueryFails(r) PROVE Typed'
<1>1. CASE Ends(r)
  BY <1>1, QueryFailsMoves, EndTyped
<1>2. CASE ~Ends(r)
  BY <1>2, QueryFailsMoves, GoesOnTyped DEF GoesOn, Becomes, GenWrites
<1> QED BY <1>1, <1>2

LEMMA CrashTyped == ASSUME Typed, Crash PROVE Typed'
<1>1. TypeOK'
  BY IdleTyped DEF Typed, TypeOK, Crash, history
<1>2. Shape'
  BY DEF Typed, Crash, Shape, ShapeOf, Idle, GenPc, history
<1>3. Known'
  BY DEF Typed, Crash, Known, Idle, history, At
<1> QED BY <1>1, <1>2, <1>3 DEF Typed

LEMMA TickTyped == ASSUME Typed, Tick PROVE Typed'
<1>1. TypeOK'
  BY DEF Typed, TypeOK, Tick, stores, history
<1>2. Shape' /\ Known'
  BY DEF Typed, Tick, Shape, ShapeOf, Known, stores, history, At
<1> QED BY <1>1, <1>2 DEF Typed

LEMMA StutterTyped == ASSUME Typed, UNCHANGED vars PROVE Typed'
BY DEF Typed, TypeOK, Shape, ShapeOf, Known, vars, stores, history, At

LEMMA NextTyped == ASSUME Typed, [Next]_vars PROVE Typed'
BY GenTyped, CheckTyped, LogoutTyped, WriteTyped, WriteFailsTyped, QueryFailsTyped,
   CrashTyped, TickTyped, StutterTyped DEF Next, WriteStep

LEMMA AlwaysTyped == Spec => []Typed
BY InitTyped, NextTyped, PTL DEF Spec

\* The stores and the handlers of SessionService are well typed.
THEOREM SessionsTypeCorrect == Spec => []TypeOK
<1>1. Typed => TypeOK BY DEF Typed
<1> QED BY AlwaysTyped, <1>1, PTL

----------------------------------------------------------------------------
(* Logout *)

\* The part of Barred about one handler.
BarredOne(r) ==
    /\ At(r, "leave") /\ "black" \notin req[r].todo => req[r].session \in blackSess
    /\ "ended" \in req[r].late => /\ req[r].session \in blackSess
                                  /\ req[r].pc \in {"checkBlack", "rejected"}

LEMMA BarredOthers ==
    ASSUME Barred, NEW r \in Requests, OthersWait(r),
           blackSess \subseteq blackSess', ended' \subseteq blackSess', BarredOne(r)'
    PROVE  Barred'
BY DEF Barred, BarredOne, OthersWait, At

LEMMA EndsBarred ==
    ASSUME Barred, NEW r \in Requests, Ends(r),
           blackSess' = blackSess, ended' \subseteq blackSess
    PROVE  Barred'
<1>1. OthersWait(r) /\ BarredOne(r)'
  BY DEF Ends, Becomes, BarredOne, At
<1> QED BY <1>1, BarredOthers

\* A check that begins after the logout goes no further than the black list.
LEMMA CheckBarred ==
    ASSUME Typed, Barred, NEW r \in Requests, CheckStep(r) PROVE Barred'
<1>0. blackSess' = blackSess /\ ended' = ended /\ ended \subseteq blackSess
  BY CheckMoves DEF Quiet, CheckStore, stores, history, Barred
<1>1. CASE \E s \in Sessions : Begun(r, s)
  <2>1. PICK s \in Sessions : Begun(r, s) BY <1>1
  <2>2. "ended" \in Over(s) => s \in ended BY DEF Over
  <2>3. BarredOne(r)' /\ OthersWait(r)
    BY <1>0, <2>1, <2>2 DEF Begun, Becomes, BarredOne, At
  <2> QED BY <1>0, <2>3, BarredOthers
<1>2. CASE Ends(r)
  BY <1>0, <1>2, EndsBarred
<1>3. CASE GoesOn(r) /\ CheckRule(r)
  <2>1. BarredOne(r)' /\ OthersWait(r)
    BY <1>0, <1>3 DEF GoesOn, CheckRule, CheckPc, Becomes, SameRequest, BarredOne,
                      Barred, At
  <2> QED BY <1>0, <2>1, BarredOthers
<1> QED BY <1>1, <1>2, <1>3, CheckMoves

\* The steps of gen leave the black list alone.
LEMMA GenBarred ==
    ASSUME Typed, Barred, NEW r \in Requests, GenStep(r) PROVE Barred'
<1>0. TypeOK /\ Shape /\ ended \subseteq blackSess /\ BarredOne(r)
  BY DEF Typed, Barred, BarredOne, At
<1>1. ASSUME NEW u \in Users, NEW s \in Sessions, GenBegin(r, u, s) PROVE Barred'
  <2>1. Becomes(r, "genRead", {}) /\ req'[r].late = {}
    BY <1>0, <1>1, GenBeginSlot
  <2>2. BarredOne(r)' /\ OthersWait(r)
    BY <2>1 DEF Becomes, BarredOne, At
  <2> QED BY <1>0, <1>1, <2>2, BarredOthers DEF GenBegin, stores
<1>2. CASE GenRead(r) \/ GenBlacklist(r)
  <2>0. req[r].who \in Users /\ At(r, req[r].pc) /\ req[r].pc \in GenPc
    BY <1>0, <1>2 DEF GenRead, GenBlacklist, Shape, ShapeOf, At, GenPc
  <2>1. SameRequest(r) /\ OthersWait(r) /\ req'[r].pc \in {"genBlack", "genWrite"}
    <3>1. CASE GenRead(r)
      BY <1>0, <2>0, <3>1, GenReadSlot DEF Becomes
    <3>2. CASE GenBlacklist(r)
      BY <1>0, <3>2, AwaitSlot DEF GenBlacklist, Pc, GenWrites, WriteOp, Becomes
    <3> QED BY <1>2, <3>1, <3>2
  <2>2. BarredOne(r)'
    BY <1>0, <2>0, <2>1 DEF SameRequest, BarredOne, GenPc, At
  <2>3. blackSess' = blackSess /\ ended' = ended
    BY <1>2 DEF GenRead, GenBlacklist, stores, history
  <2> QED BY <1>0, <2>1, <2>2, <2>3, BarredOthers
<1>3. CASE GenReturn(r)
  <2>1. Ends(r) BY <1>0, <1>3, ReturnSlot DEF GenReturn
  <2> QED BY <1>0, <1>3, <2>1, EndsBarred DEF GenReturn, stores
<1> QED BY <1>1, <1>2, <1>3 DEF GenStep

\* Logout returns after the write to the black list.
LEMMA LogoutBarred ==
    ASSUME Typed, Barred, NEW r \in Requests, LogoutStep(r) PROVE Barred'
<1>0. TypeOK /\ Shape /\ ended \subseteq blackSess /\ BarredOne(r)
  BY DEF Typed, Barred, BarredOne, At
<1>1. CASE LogoutBegin(r)
  <2>1. SameRequest(r) /\ Becomes(r, "leave", DeleteWrites)
    BY <1>0, <1>1, AwaitSlot DEF LogoutBegin, Pc, DeleteWrites, WriteOp
  <2>2. BarredOne(r)' /\ OthersWait(r)
    BY <1>0, <1>1, <2>1 DEF LogoutBegin, SameRequest, Becomes, BarredOne, DeleteWrites, At
  <2> QED BY <1>0, <1>1, <2>2, BarredOthers DEF LogoutBegin, stores
<1>2. CASE LogoutReturn(r)
  <2>1. Ends(r) BY <1>0, <1>2, ReturnSlot DEF LogoutReturn
  <2>2. ended' \subseteq blackSess /\ blackSess' = blackSess
    BY <1>0, <1>2 DEF LogoutReturn, BarredOne, stores
  <2> QED BY <2>1, <2>2, EndsBarred
<1> QED BY <1>1, <1>2 DEF LogoutStep

\* A write only adds to the black list.
LEMMA WriteBarred ==
    ASSUME Typed, Barred, NEW r \in Requests, NEW w \in WriteOp,
           Write(r, w) \/ WriteFails(r, w)
    PROVE  Barred'
<1>0. TypeOK /\ ended \subseteq blackSess /\ BarredOne(r)
  BY DEF Typed, Barred, BarredOne, At
<1>1. CASE Write(r, w)
  <2>1. \/ Ends(r)
        \/ Becomes(r, req[r].pc, req[r].todo \ {w}) /\ SameRequest(r)
    BY <1>0, <1>1, WrittenSlot DEF Write
  <2>2. /\ blackSess \subseteq blackSess' /\ ended' = ended
        /\ w = "black" => req[r].session \in blackSess'
    BY <1>1 DEF Write, Apply, history
  <2>3. BarredOne(r)' /\ OthersWait(r)
    BY <1>0, <2>1, <2>2 DEF Ends, Becomes, SameRequest, BarredOne, At
  <2> QED BY <1>0, <2>2, <2>3, BarredOthers
<1>2. CASE WriteFails(r, w)
  <2>1. \/ Ends(r)
        \/ Becomes(r, "rejected", req'[r].todo) /\ SameRequest(r)
    BY <1>2, WriteFailsMoves
  <2>2. blackSess' = blackSess /\ ended' = ended
    BY <1>2 DEF WriteFails, stores
  <2>3. BarredOne(r)' /\ OthersWait(r)
    BY <1>0, <2>1, <2>2 DEF Ends, Becomes, SameRequest, BarredOne, At
  <2> QED BY <1>0, <2>2, <2>3, BarredOthers
<1> QED BY <1>1, <1>2

\* No step takes a late check past the black list.
LEMMA NextBarred == ASSUME Typed, Barred, [Next]_vars PROVE Barred'
<1>1. ASSUME NEW r \in Requests, QueryFails(r) PROVE Barred'
  <2>1. blackSess' = blackSess /\ ended' = ended /\ ended \subseteq blackSess
    BY <1>1, QueryFailsMoves DEF Quiet, stores, history, Barred
  <2>2. CASE Ends(r)
    BY <2>1, <2>2, EndsBarred
  <2>3. CASE Becomes(r, "rejected", {"tokenBlack"}) /\ SameRequest(r)
    <3>1. BarredOne(r)' /\ OthersWait(r)
      BY <2>1, <2>3 DEF Becomes, SameRequest, BarredOne, Barred, At
    <3> QED BY <2>1, <3>1, BarredOthers
  <2> QED BY <1>1, <2>2, <2>3, QueryFailsMoves
<1>2. CASE Crash
  BY <1>2 DEF Barred, Crash, Idle, history, At
<1>3. CASE Tick
  BY <1>3 DEF Barred, Tick, stores, history, At
<1>4. CASE UNCHANGED vars
  BY <1>4 DEF Barred, vars, stores, history, At
<1> QED BY <1>1, <1>2, <1>3, <1>4, GenBarred, CheckBarred, LogoutBarred, WriteBarred
        DEF Next, WriteStep

\* Once its logout is confirmed a session is not accepted by a check that
\* begins later, whatever the checks that overlapped the logout have done
\* to the cache, and across restarts.
THEOREM SessionsEndedStaysEnded == Spec => []EndedStaysEnded
<1>1. Init => Barred
  BY DEF Init, Barred, Idle, At
<1>2. Typed /\ Barred /\ [Next]_vars => Barred' BY NextBarred
<1>3. Barred => EndedStaysEnded BY DEF Barred, EndedStaysEnded, At
<1> QED BY <1>1, <1>2, <1>3, AlwaysTyped, PTL DEF Spec

----------------------------------------------------------------------------
(* The black list *)

\* Of a session that was handed out only the mark of deletion changes.
LEMMA IssuedStay ==
    ASSUME Typed, [Next]_vars
    PROVE  /\ now \in Nat /\ now' \in Nat /\ now <= now'
           /\ leaving \subseteq leaving' /\ issued \subseteq issued'
           /\ \A s \in issued : /\ docs'[s].user = docs[s].user
                                /\ docs'[s].expiresAt = docs[s].expiresAt
<1>0. TypeOK /\ TypeOK' BY NextTyped DEF Typed
<1>1. ASSUME NEW r \in Requests, NEW w \in WriteOp, Write(r, w)
      PROVE  \A s \in issued : /\ docs'[s].user = docs[s].user
                               /\ docs'[s].expiresAt = docs[s].expiresAt
  <2>1. CASE w = "create"
    <3>1. req[r].session \notin issued
      BY <1>1, <2>1, WritingPlace DEF Write, GenWrites
    <3> QED BY <1>0, <1>1, <2>1, <3>1 DEF Write, Apply, TypeOK
  <2>2. CASE w = "delete"
    BY <1>0, <1>1, <2>2 DEF Write, Apply, TypeOK, Doc
  <2>3. CASE w # "create" /\ w # "delete"
    BY <1>1, <2>3 DEF Write, Apply
  <2> QED BY <2>1, <2>2, <2>3
<1>2. ASSUME ~\E r \in Requests, w \in WriteOp : Write(r, w)
      PROVE  docs' = docs
  BY <1>2 DEF Next, GenStep, GenBegin, GenRead, GenBlacklist, GenReturn, CheckStep,
              HttpCheck, SocketCheck, CheckBlack, CheckCache, CheckLoad, CheckStore,
              Refuse, Answer, LogoutStep, LogoutBegin, LogoutReturn, WriteStep,
              WriteFails, QueryFails, Crash, Tick, vars, stores
<1>3. now <= now'
  <2>1. CASE Tick
    BY <1>0, <2>1 DEF TypeOK, Tick
  <2>2. CASE ~Tick
    <3>1. now' = now
      BY <2>2 DEF Next, GenStep, GenBegin, GenRead, GenBlacklist, GenReturn, CheckStep,
                  HttpCheck, SocketCheck, CheckBlack, CheckCache, CheckLoad, CheckStore,
                  Refuse, Answer, LogoutStep, LogoutBegin, LogoutReturn, WriteStep, Write,
                  WriteFails, QueryFails, Crash, vars
    <3> QED BY <1>0, <3>1 DEF TypeOK
  <2> QED BY <2>1, <2>2
<1>4. leaving \subseteq leaving' /\ issued \subseteq issued'
  BY DEF Next, GenStep, GenBegin, GenRead, GenBlacklist, GenReturn, CheckStep,
         HttpCheck, SocketCheck, CheckBlack, CheckCache, CheckLoad, CheckStore,
         Refuse, Answer, LogoutStep, LogoutBegin, LogoutReturn, WriteStep, Write,
         WriteFails, QueryFails, Crash, Tick, vars, history
<1> QED BY <1>0, <1>1, <1>2, <1>3, <1>4 DEF TypeOK

\* A cause lasts.
LEMMA CauseStays ==
    ASSUME Typed, [Next]_vars, NEW s \in issued, Cause(s) PROVE Cause(s)'
<1>1. docs[s].expiresAt \in Nat
  BY DEF Typed, TypeOK, Doc
<1> QED BY <1>1, IssuedStay DEF Cause, IsExpired

\* The part of Causes about one handler.
CausesOne(r) ==
    req[r].todo \cap {"black", "delete"} # {} => Cause(req[r].session)

\* Handlers that are about to blacklist or delete do so with sessions that
\* were handed out.
LEMMA CausesIssued ==
    ASSUME Typed, Causes, NEW r \in Requests, req[r].todo \cap {"black", "delete"} # {}
    PROVE  Cause(req[r].session) /\ req[r].session \in issued /\ req[r].kind # "gen"
BY DEF Typed, Shape, ShapeOf, Causes, GenWrites

LEMMA CausesOthers ==
    ASSUME Typed, Causes, [Next]_vars, NEW r \in Requests, OthersWait(r), CausesOne(r)',
           \A s \in blackSess' \ blackSess : Cause(s)',
           \A s \in Sessions : docs'[s].deleted /\ ~docs[s].deleted =>
                                  s \in issued /\ Cause(s)'
    PROVE  Causes'
<1>0. issued \subseteq issued' /\ blackSess \subseteq issued
  BY IssuedStay DEF Typed, Known
<1>1. \A s \in issued : Cause(s) => Cause(s)'
  BY CauseStays
<1>2. \A s \in blackSess' : Cause(s)'
  BY <1>0, <1>1 DEF Causes
<1>3. \A s \in Sessions : docs'[s].deleted => s \in issued' /\ Cause(s)'
  BY <1>0, <1>1 DEF Causes
<1>4. \A q \in Requests : CausesOne(q)'
  <2>1. ASSUME NEW q \in Requests \ {r} PROVE CausesOne(q)'
    <3>1. req'[q] = req[q] BY DEF OthersWait
    <3>2. CASE req[q].todo \cap {"black", "delete"} # {}
      <4>1. Cause(req[q].session)' BY <1>1, <3>2, CausesIssued, CauseStays, <3>1 DEF Cause, IsExpired
      <4> QED BY <3>1, <4>1 DEF CausesOne
    <3>3. CASE req[q].todo \cap {"black", "delete"} = {}
      BY <3>1, <3>3 DEF CausesOne
    <3> QED BY <3>2, <3>3
  <2> QED BY <2>1
<1> QED BY <1>2, <1>3, <1>4 DEF Causes, CausesOne

\* A step that touches neither the black list nor the documents.
LEMMA CausesQuiet ==
    ASSUME Typed, Causes, [Next]_vars, NEW r \in Requests, OthersWait(r),
           docs' = docs, blackSess' = blackSess, CausesOne(r)'
    PROVE  Causes'
BY CausesOthers

\* verifySession blacklists a session it does not find; it finds all that
\* were handed out and not deleted.
LEMMA CheckCauses ==
    ASSUME Typed, Causes, [Next]_vars, NEW r \in Requests, CheckStep(r) PROVE Causes'
<1>0. docs' = docs /\ blackSess' = blackSess /\ UNCHANGED <<now, leaving>>
  BY CheckMoves DEF Quiet, CheckStore, stores, history
<1>1. CASE \E s \in Sessions : Begun(r, s)
  BY <1>0, <1>1, CausesQuiet DEF Begun, Becomes, CausesOne
<1>2. CASE Ends(r)
  BY <1>0, <1>2, CausesQuiet DEF Ends, Becomes, CausesOne
<1>3. CASE GoesOn(r) /\ CheckRule(r) /\ req[r].session \in issued
  <2> DEFINE s == req[r].session
  <2>1. req'[r].todo \cap {"black", "delete"} # {} => Cause(s)
    BY <1>3 DEF CheckRule, Found, Cause, Causes, Typed, TypeOK, Known
  <2>2. CausesOne(r)' /\ OthersWait(r)
    BY <1>0, <1>3, <2>1 DEF GoesOn, SameRequest, Becomes, CausesOne, Cause, IsExpired
  <2> QED BY <1>0, <2>2, CausesQuiet
<1> QED BY <1>1, <1>2, <1>3, CheckMoves

LEMMA GenCauses ==
    ASSUME Typed, Causes, [Next]_vars, NEW r \in Requests, GenStep(r) PROVE Causes'
<1>0. TypeOK /\ Shape /\ docs' = docs /\ blackSess' = blackSess
  BY DEF Typed, GenStep, GenBegin, GenRead, GenBlacklist, GenReturn, stores
<1>1. ASSUME NEW u \in Users, NEW s \in Sessions, GenBegin(r, u, s) PROVE Causes'
  BY <1>0, <1>1, GenBeginSlot, CausesQuiet DEF Becomes, CausesOne
<1>2. CASE GenRead(r)
  <2>1. req[r].who \in Users /\ req[r].todo = {}
    BY <1>0, <1>2 DEF GenRead, Shape, ShapeOf, At, GenPc
  <2> QED BY <1>0, <1>2, <2>1, GenReadSlot, CausesQuiet DEF Becomes, CausesOne, GenWrites
<1>3. CASE GenBlacklist(r)
  <2>1. Becomes(r, "genWrite", GenWrites)
    BY <1>0, <1>3, AwaitSlot DEF GenBlacklist, Pc, GenWrites, WriteOp
  <2> QED BY <1>0, <2>1, CausesQuiet DEF Becomes, CausesOne, GenWrites
<1>4. CASE GenReturn(r)
  BY <1>0, <1>4, ReturnSlot, CausesQuiet DEF GenReturn, Ends, Becomes, CausesOne
<1> QED BY <1>1, <1>2, <1>3, <1>4 DEF GenStep

\* A session that its owner leaves may be blacklisted.
LEMMA LogoutCauses ==
    ASSUME Typed, Causes, [Next]_vars, NEW r \in Requests, LogoutStep(r) PROVE Causes'
<1>0. TypeOK /\ docs' = docs /\ blackSess' = blackSess
  BY DEF Typed, LogoutStep, LogoutBegin, LogoutReturn, stores
<1>1. CASE LogoutBegin(r)
  <2>1. SameRequest(r) /\ Becomes(r, "leave", DeleteWrites)
    BY <1>0, <1>1, AwaitSlot DEF LogoutBegin, Pc, DeleteWrites, WriteOp
  <2>2. CausesOne(r)' /\ OthersWait(r)
    BY <1>1, <2>1 DEF LogoutBegin, SameRequest, Becomes, CausesOne, Cause
  <2> QED BY <1>0, <2>2, CausesQuiet
<1>2. CASE LogoutReturn(r)
  BY <1>0, <1>2, ReturnSlot, CausesQuiet DEF LogoutReturn, Ends, Becomes, CausesOne
<1> QED BY <1>1, <1>2 DEF LogoutStep

LEMMA WriteCauses ==
    ASSUME Typed, Causes, [Next]_vars, NEW r \in Requests, NEW w \in WriteOp, Write(r, w)
    PROVE  Causes'
<1>0. TypeOK /\ w \in req[r].todo /\ Apply(r, w) /\ Written(r, w)
  BY DEF Typed, Write
<1>1. \/ Ends(r)
      \/ Becomes(r, req[r].pc, req[r].todo \ {w}) /\ SameRequest(r)
  BY <1>0, WrittenSlot
<1>2. \A s \in issued : Cause(s) => Cause(s)'
  BY CauseStays
<1>3. w \in {"black", "delete"} => req[r].session \in issued /\ Cause(req[r].session)
  BY <1>0, CausesIssued
<1>4. CausesOne(r)' /\ OthersWait(r)
  <2>1. CASE Ends(r)
    BY <2>1 DEF Ends, Becomes, CausesOne
  <2>2. CASE Becomes(r, req[r].pc, req[r].todo \ {w}) /\ SameRequest(r)
    <3>1. req'[r].todo \cap {"black", "delete"} # {} =>
             req[r].session \in issued /\ Cause(req[r].session)
      BY <2>2, CausesIssued DEF Becomes
    <3>2. \A s \in issued : s = req[r].session /\ Cause(s) => CausesOne(r)'
      BY <1>2, <2>2 DEF SameRequest, CausesOne, Cause, IsExpired
    <3> QED BY <2>2, <3>1, <3>2 DEF Becomes, CausesOne
  <2> QED BY <1>1, <2>1, <2>2
<1>5. \A s \in blackSess' \ blackSess : w = "black" /\ s = req[r].session
  BY <1>0 DEF Apply
<1>6. \A s \in Sessions : docs'[s].deleted /\ ~docs[s].deleted =>
                             w = "delete" /\ s = req[r].session
  BY <1>0 DEF Apply, TypeOK, Doc
<1> QED BY <1>2, <1>3, <1>4, <1>5, <1>6, CausesOthers

LEMMA WriteFailsCauses ==
    ASSUME Typed, Causes, [Next]_vars, NEW r \in Requests, NEW w \in WriteOp,
           WriteFails(r, w)
    PROVE  Causes'
<1>0. docs' = docs /\ blackSess' = blackSess /\ UNCHANGED <<now, leaving>>
  BY DEF WriteFails, stores
<1>1. \/ Ends(r)
      \/ /\ Becomes(r, "rejected", req'[r].todo) /\ SameRequest(r)
         /\ req'[r].todo \subseteq req[r].todo \cup {"tokenBlack"}
  BY WriteFailsMoves
<1>2. req'[r].todo \cap {"black", "delete"} # {} =>
         Cause(req[r].session) /\ req'[r].session = req[r].session
  BY <1>1, CausesIssued DEF Ends, Becomes, SameRequest
<1>3. CausesOne(r)' /\ OthersWait(r)
  BY <1>0, <1>1, <1>2 DEF Ends, Becomes, CausesOne, Cause, IsExpired
<1> QED BY <1>0, <1>3, CausesQuiet

\* Every step keeps the causes.
LEMMA NextCauses == ASSUME Typed, Causes, [Next]_vars PROVE Causes'
<1>1. ASSUME NEW r \in Requests, QueryFails(r) PROVE Causes'
  <2>1. docs' = docs /\ blackSess' = blackSess
    BY <1>1, QueryFailsMoves DEF Quiet, stores
  <2>2. CausesOne(r)' /\ OthersWait(r)
    BY <1>1, QueryFailsMoves DEF Ends, Becomes, CausesOne
  <2> QED BY <2>1, <2>2, CausesQuiet
<1>2. CASE Crash
  BY <1>2 DEF Causes, Cause, IsExpired, Crash, Idle, history
<1>3. CASE Tick
  <2>1. /\ UNCHANGED <<docs, blackSess, req, issued, leaving>>
        /\ \A s \in issued : Cause(s) => Cause(s)'
        /\ blackSess \subseteq issued
    BY <1>3, CauseStays DEF Tick, stores, history, Typed, Known
  <2>2. ASSUME NEW r \in Requests PROVE CausesOne(r)'
    BY <2>1, CausesIssued DEF CausesOne, Cause, IsExpired
  <2>3. /\ \A s \in blackSess' : Cause(s)'
        /\ \A s \in Sessions : docs'[s].deleted => s \in issued' /\ Cause(s)'
    BY <2>1 DEF Causes
  <2> QED BY <2>2, <2>3 DEF Causes, CausesOne
<1>4. CASE UNCHANGED vars
  BY <1>4 DEF Causes, Cause, IsExpired, vars, stores, history
<1> QED BY <1>1, <1>2, <1>3, <1>4, GenCauses, CheckCauses, LogoutCauses, WriteCauses,
           WriteFailsCauses DEF Next, WriteStep

\* A session is blacklisted for good only when its owner left it or its
\* date has passed, never because verifySession missed its document.
THEOREM SessionsBlacklistedForCause == Spec => []BlacklistedForCause
<1>1. Init => Causes
  BY DEF Init, Causes, NoDoc, Idle
<1>2. Typed /\ Causes /\ [Next]_vars => Causes' BY NextCauses
<1>3. Causes => BlacklistedForCause BY DEF Causes, Cause, BlacklistedForCause
<1> QED BY <1>1, <1>2, <1>3, AlwaysTyped, PTL DEF Spec

----------------------------------------------------------------------------
(* The dates *)

\* The part of Dated about one handler.
DatedOne(r) ==
    /\ ~At(r, "idle") => req[r].began <= now /\ now <= req[r].began + Latency
    /\ req[r].pc \in GenPc =>
          /\ req[r].held = req[r].began + RefreshDays
          /\ cache[req[r].session] <= req[r].held + Latency
    /\ At(r, "checkStore") =>
          req[r].held + req[r].began <= docs[req[r].session].expiresAt
    /\ "expired" \in req[r].late =>
          /\ now > docs[req[r].session].expiresAt + Latency
          /\ req[r].kind # "gen"
          /\ req[r].pc \notin {"idle", "checkStore", "accepted"}

\* What a step may do to the cache.
CacheDated(r) ==
    /\ \A s \in Sessions \ born' : cache'[s] = 0
    /\ \A s \in issued' : cache'[s] <= docs'[s].expiresAt + Latency
    /\ \A q \in Requests \ {r} :
          req[q].pc \in GenPc => cache'[req[q].session] <= req[q].held + Latency

\* A handler that waits, and is not gen, has a session that was handed out.
LEMMA WaitsIssued ==
    ASSUME Typed, NEW q \in Requests, req[q].kind # "gen", req[q].pc # "idle"
    PROVE  req[q].session \in issued
BY DEF Typed, Shape, ShapeOf

LEMMA DatedOthers ==
    ASSUME Typed, Dated, [Next]_vars, NEW r \in Requests, OthersWait(r), now' = now,
           DatedOne(r)', CacheDated(r)
    PROVE  Dated'
<1>1. ASSUME NEW q \in Requests \ {r} PROVE DatedOne(q)'
  <2>1. req'[q] = req[q] /\ DatedOne(q)
    BY DEF OthersWait, Dated, DatedOne
  <2>2. req[q].kind # "gen" /\ req[q].pc # "idle" =>
           docs'[req[q].session].expiresAt = docs[req[q].session].expiresAt
    BY WaitsIssued, IssuedStay
  <2>3. /\ req[q].pc = "checkStore" => req[q].kind # "gen" /\ req[q].pc # "idle"
        /\ "expired" \in req[q].late => req[q].kind # "gen"
    BY <2>1 DEF Typed, Shape, ShapeOf, GenPc, DatedOne
  <2>4. CASE req[q].pc = "idle"
    BY <2>1, <2>4 DEF DatedOne, GenPc, At
  <2>5. CASE req[q].pc # "idle"
    BY <2>1, <2>2, <2>3, <2>5 DEF DatedOne, CacheDated, At
  <2> QED BY <2>4, <2>5
<1> QED BY <1>1 DEF Dated, DatedOne, CacheDated

\* A step that leaves the cache alone and hands nothing out.
LEMMA DatedQuiet ==
    ASSUME Typed, Dated, [Next]_vars, NEW r \in Requests, OthersWait(r), now' = now,
           cache' = cache, born \subseteq born', issued' = issued, DatedOne(r)'
    PROVE  Dated'
<1>1. CacheDated(r)
  BY IssuedStay DEF CacheDated, Dated
<1> QED BY <1>1, DatedOthers

LEMMA EndsDated ==
    ASSUME Typed, Dated, [Next]_vars, NEW r \in Requests, Ends(r), now' = now,
           cache' = cache, born' = born, issued' = issued
    PROVE  Dated'
<1>1. OthersWait(r) /\ DatedOne(r)'
  BY DEF Ends, Becomes, DatedOne, GenPc, At
<1> QED BY <1>1, DatedQuiet

\* A handler other than gen that goes on, to a place the dates permit.
LEMMA GoesOnDated ==
    ASSUME Typed, Dated, [Next]_vars, NEW r \in Requests, now' = now,
           cache' = cache, born' = born, issued' = issued,
           OthersWait(r), SameRequest(r), req[r].kind # "gen", req[r].pc # "idle",
           req'[r].pc \notin GenPc \cup {"idle", "checkStore"},
           req'[r].pc = "accepted" => Live(cache[req[r].session])
    PROVE  Dated'
<1> DEFINE s == req[r].session
<1>1. /\ s \in issued /\ s \in Sessions
      /\ docs'[s].expiresAt = docs[s].expiresAt
      /\ docs[s].expiresAt \in Nat /\ cache[s] \in Nat /\ now \in Nat
  BY WaitsIssued, IssuedStay DEF Typed, TypeOK, Doc
<1>2. DatedOne(r) /\ cache[s] <= docs[s].expiresAt + Latency
  BY <1>1 DEF Dated, DatedOne
<1>3. "expired" \in req[r].late => ~Live(cache[s])
  BY <1>1, <1>2, SessionsAssumption DEF DatedOne, Live
<1>4. DatedOne(r)'
  BY <1>1, <1>2, <1>3 DEF DatedOne, SameRequest, At
<1> QED BY <1>4, DatedQuiet

\* The steps of gen keep the dates it has chosen.
LEMMA GenDated ==
    ASSUME Typed, Dated, [Next]_vars, NEW r \in Requests, GenStep(r) PROVE Dated'
<1>0. TypeOK /\ Shape /\ Known /\ now \in Nat /\ DatedOne(r)
  BY DEF Typed, TypeOK, Dated, DatedOne
<1>1. ASSUME NEW u \in Users, NEW s \in Sessions, GenBegin(r, u, s) PROVE Dated'
  <2>1. /\ Becomes(r, "genRead", {}) /\ req'[r].session = s /\ req'[r].late = {}
        /\ req'[r].held = now + RefreshDays /\ req'[r].began = now
    BY <1>0, <1>1, GenBeginSlot
  <2>2. /\ now' = now /\ cache' = cache /\ born \subseteq born' /\ issued' = issued
        /\ cache[s] = 0
    BY <1>1 DEF GenBegin, stores, Dated
  <2>3. DatedOne(r)'
    BY <1>0, <2>1, <2>2, SessionsAssumption DEF DatedOne, Becomes, At
  <2> QED BY <2>1, <2>2, <2>3, DatedQuiet DEF Becomes
<1>2. CASE GenRead(r) \/ GenBlacklist(r)
  <2>0. /\ req[r].who \in Users /\ req[r].pc \in {"genRead", "genBlack"}
        /\ req[r].kind = "gen"
    BY <1>0, <1>2 DEF GenRead, GenBlacklist, Shape, ShapeOf, At, GenPc
  <2>1. /\ SameRequest(r) /\ OthersWait(r) /\ req'[r].pc \in {"genBlack", "genWrite"}
        /\ req'[r].held = req[r].held
    <3>1. CASE GenRead(r)
      BY <1>0, <2>0, <3>1, GenReadSlot DEF Becomes
    <3>2. CASE GenBlacklist(r)
      BY <1>0, <3>2, AwaitSlot DEF GenBlacklist, Pc, GenWrites, WriteOp, Becomes
    <3> QED BY <1>2, <3>1, <3>2
  <2>2. now' = now /\ cache' = cache /\ born' = born /\ issued' = issued
    BY <1>2 DEF GenRead, GenBlacklist, stores, history
  <2>3. DatedOne(r)'
    BY <1>0, <2>0, <2>1, <2>2 DEF DatedOne, SameRequest, GenPc, At
  <2> QED BY <2>1, <2>2, <2>3, DatedQuiet
<1>3. CASE GenReturn(r)
  <2> DEFINE s == req[r].session
  <2>1. Ends(r) BY <1>0, <1>3, ReturnSlot DEF GenReturn
  <2>2. OthersWait(r) /\ DatedOne(r)'
    BY <2>1 DEF Ends, Becomes, DatedOne, GenPc, At
  <2>3. cache[s] <= docs[s].expiresAt + Latency
    BY <1>0, <1>3 DEF GenReturn, AllWritten, Known, DatedOne, GenPc, At
  <2>4. /\ now' = now /\ cache' = cache /\ docs' = docs /\ born' = born
        /\ issued' = issued \cup {s}
    BY <1>3 DEF GenReturn, stores
  <2>5. CacheDated(r)
    BY <2>3, <2>4 DEF CacheDated, Dated
  <2> QED BY <2>2, <2>4, <2>5, DatedOthers
<1> QED BY <1>1, <1>2, <1>3 DEF GenStep

\* verifySession trusts the cache, whose entry ends with the session, and
\* a document only until its date.
LEMMA CheckDated ==
    ASSUME Typed, Dated, [Next]_vars, NEW r \in Requests, CheckStep(r) PROVE Dated'
<1>0. /\ TypeOK /\ Shape /\ now \in Nat /\ DatedOne(r)
      /\ now' = now /\ born' = born /\ issued' = issued
  BY CheckMoves DEF Quiet, CheckStore, history, Typed, TypeOK, Dated, DatedOne
<1>1. CASE Quiet /\ \E s \in Sessions : Begun(r, s)
  <2>1. PICK s \in Sessions : Begun(r, s) BY <1>1
  <2>2. docs[s].expiresAt \in Nat /\ UNCHANGED <<cache, docs>>
    BY <1>0, <1>1 DEF TypeOK, Doc, Quiet, stores
  <2>3. "expired" \in Over(s) => now > docs[s].expiresAt + Latency
    BY DEF Over
  <2>4. DatedOne(r)' /\ OthersWait(r)
    BY <1>0, <2>1, <2>2, <2>3, SessionsAssumption
       DEF DatedOne, Begun, Becomes, GenPc, At
  <2> QED BY <1>0, <2>2, <2>4, DatedQuiet
<1>2. CASE Quiet /\ Ends(r)
  BY <1>0, <1>2, EndsDated DEF Quiet, stores
<1>3. CASE /\ req[r].kind # "gen" /\ req[r].pc # "idle" /\ req[r].session \in issued
           /\ GoesOn(r) /\ CheckRule(r)
  <2> DEFINE s == req[r].session
  <2>1. /\ req[r].began \in Nat /\ req[r].held \in Nat
        /\ s \in Sessions /\ docs[s].expiresAt \in Nat
        /\ docs'[s].expiresAt = docs[s].expiresAt
        /\ req[r].began <= now /\ now <= req[r].began + Latency
    BY <1>0, <1>3, FieldTypes, IssuedStay DEF TypeOK, Doc, DatedOne, At
  <2>2. SameRequest(r) /\ OthersWait(r)
    BY <1>3 DEF GoesOn, Becomes
  <2>3. CASE CheckStore(r)
    <3>1. /\ cache' = [cache EXCEPT ![s] = now + req[r].held]
          /\ req[r].pc = "checkStore" /\ req'[r].pc = "accepted"
          /\ docs' = docs
      BY <1>0, <2>3, GotoSlot DEF CheckStore, Pc, Becomes, At
    <3>2. now + req[r].held <= docs[s].expiresAt + Latency
      BY <1>0, <2>1, <3>1, SessionsAssumption DEF DatedOne, At
    <3>3. CacheDated(r)
      <4>1. s \in born /\ \A q \in Requests : req[q].pc \in GenPc => req[q].session # s
        BY <1>3 DEF Typed, Known, Shape, ShapeOf
      <4>2. s \in DOMAIN cache BY <2>1, <1>0 DEF TypeOK
      <4>3. cache'[s] = now + req[r].held /\ \A t \in Sessions \ {s} : cache'[t] = cache[t]
        BY <1>0, <3>1, <4>2 DEF TypeOK
      <4>4. \A q \in Requests : req[q].pc \in GenPc => req[q].session \in Sessions
        BY <1>0 DEF Shape, ShapeOf, GenPc
      <4> QED BY <1>0, <3>1, <3>2, <4>1, <4>3, <4>4 DEF CacheDated, Dated, TypeOK
    <3>4. DatedOne(r)'
      BY <1>0, <2>1, <2>2, <3>1 DEF DatedOne, SameRequest, GenPc, At
    <3> QED BY <1>0, <2>2, <3>3, <3>4, DatedOthers
  <2>4. CASE ~CheckStore(r) /\ Quiet
    <3>1. ~At(r, "checkStore") /\ UNCHANGED <<cache, docs>>
      BY <1>3, <2>4 DEF CheckStep, HttpCheck, SocketCheck, CheckBlack, CheckCache, CheckLoad,
                        Refuse, Answer, At, Quiet, stores
    <3>2. CASE req'[r].pc = "checkStore"
      <4>1. ~IsExpired(s) /\ req'[r].held = docs[s].expiresAt - now
        BY <1>3, <3>2 DEF CheckRule
      <4>2. DatedOne(r)'
        BY <1>0, <1>3, <2>1, <2>2, <3>1, <3>2, <4>1, SessionsAssumption
           DEF DatedOne, SameRequest, IsExpired, GenPc, At
      <4> QED BY <1>0, <2>2, <3>1, <4>2, DatedQuiet
    <3>3. CASE req'[r].pc # "checkStore"
      BY <1>0, <1>3, <2>2, <3>1, <3>3, GoesOnDated
         DEF GoesOn, CheckRule, CheckPc, GenPc
    <3> QED BY <3>2, <3>3
  <2> QED BY <1>3, <2>3, <2>4, CheckMoves
<1> QED BY <1>1, <1>2, <1>3, CheckMoves

\* delete only takes from the cache.
LEMMA LogoutDated ==
    ASSUME Typed, Dated, [Next]_vars, NEW r \in Requests, LogoutStep(r) PROVE Dated'
<1>0. /\ TypeOK /\ Shape
      /\ now' = now /\ cache' = cache /\ born' = born /\ issued' = issued
  BY DEF Typed, LogoutStep, LogoutBegin, LogoutReturn, stores
<1>1. CASE LogoutBegin(r)
  <2>1. /\ SameRequest(r) /\ OthersWait(r) /\ req'[r].pc = "leave"
        /\ req[r].pc = "accepted" /\ req[r].kind # "gen"
    BY <1>0, <1>1, AwaitSlot DEF LogoutBegin, Pc, DeleteWrites, WriteOp, Becomes, At
  <2> QED BY <1>0, <2>1, GoesOnDated DEF GenPc
<1>2. CASE LogoutReturn(r)
  BY <1>0, <1>2, ReturnSlot, EndsDated DEF LogoutReturn
<1> QED BY <1>1, <1>2 DEF LogoutStep

\* gen's entry ends with the access token, which ends before the session.
LEMMA WriteDated ==
    ASSUME Typed, Dated, [Next]_vars, AccessDays <= RefreshDays,
           NEW r \in Requests, NEW w \in WriteOp, Write(r, w)
    PROVE  Dated'
<1> DEFINE s == req[r].session
<1>0. /\ TypeOK /\ Known /\ DatedOne(r)
      /\ w \in req[r].todo /\ Apply(r, w) /\ Written(r, w)
      /\ now' = now /\ born' = born /\ issued' = issued
  BY DEF Typed, Write, history, Dated, DatedOne
<1>1. /\ now \in Nat /\ req[r].began \in Nat /\ req[r].held \in Nat
      /\ s \in Sessions /\ cache \in [Sessions -> Nat]
      /\ \A t \in issued : docs[t].expiresAt \in Nat
                           /\ docs'[t].expiresAt = docs[t].expiresAt
  BY <1>0, WritingPlace, FieldTypes, IssuedStay DEF TypeOK, Doc
<1>2. \/ Ends(r)
      \/ /\ OthersWait(r) /\ SameRequest(r) /\ req'[r].pc = req[r].pc
         /\ req'[r].held = req[r].held
  BY <1>0, WrittenSlot DEF Becomes
<1>3. \/ cache' = cache
      \/ w = "forget" /\ cache' = [cache EXCEPT ![s] = 0]
      \/ w = "remember" /\ cache' = [cache EXCEPT ![s] = now + AccessDays]
  BY <1>0 DEF Apply
<1>4. req[r].pc \in GenPc => now + AccessDays <= req[r].held + Latency
  BY <1>0, <1>1, SessionsAssumption DEF DatedOne, GenPc, At
<1>5. /\ req[r].pc \in GenPc => cache'[s] <= req[r].held + Latency
      /\ \A t \in Sessions \ {s} : cache'[t] = cache[t]
  BY <1>0, <1>1, <1>3, <1>4, SessionsAssumption DEF DatedOne
<1>6. DatedOne(r)' /\ OthersWait(r)
  <2>1. CASE Ends(r)
    BY <2>1 DEF Ends, Becomes, DatedOne, GenPc, At
  <2>2. CASE /\ OthersWait(r) /\ SameRequest(r) /\ req'[r].pc = req[r].pc
             /\ req'[r].held = req[r].held
    <3>1. /\ "expired" \in req[r].late => s \in issued
          /\ req[r].pc # "checkStore"
      BY <1>0, WritingPlace DEF DatedOne
    <3> QED BY <1>0, <1>1, <1>5, <2>2, <3>1 DEF DatedOne, SameRequest, At
  <2> QED BY <1>2, <2>1, <2>2
<1>7. CacheDated(r)
  <2>1. s \in born /\ (w = "remember" => s \notin issued)
    BY <1>0, WritingPlace DEF Known, GenWrites
  <2>2. ASSUME NEW q \in Requests \ {r}, req[q].pc \in GenPc
        PROVE  cache'[req[q].session] <= req[q].held + Latency
    <3>1. /\ req[q].session \in Sessions /\ req[q].session # s
          /\ DatedOne(q)
      BY <1>0, <2>2, WritingPlace DEF Typed, Shape, ShapeOf, Known, GenPc, Dated, DatedOne
    <3> QED BY <1>5, <2>2, <3>1 DEF DatedOne
  <2>3. ASSUME NEW t \in issued PROVE cache'[t] <= docs'[t].expiresAt + Latency
    <3>1. /\ t \in Sessions /\ cache[t] <= docs[t].expiresAt + Latency
          /\ cache'[t] = cache[t] \/ cache'[t] = 0
      BY <1>0, <1>1, <1>3, <2>1 DEF Dated, TypeOK
    <3> QED BY <1>1, <3>1, SessionsAssumption
  <2>4. \A t \in Sessions \ born : cache'[t] = 0
    BY <1>5, <2>1 DEF Dated
  <2> QED BY <1>0, <2>2, <2>3, <2>4 DEF CacheDated
<1> QED BY <1>0, <1>6, <1>7, DatedOthers

LEMMA WriteFailsDated ==
    ASSUME Typed, Dated, [Next]_vars,
           NEW r \in Requests, NEW w \in WriteOp, WriteFails(r, w)
    PROVE  Dated'
<1>0. now' = now /\ cache' = cache /\ born' = born /\ issued' = issued
  BY DEF WriteFails, stores
<1>1. /\ \/ Ends(r)
         \/ OthersWait(r) /\ SameRequest(r) /\ req'[r].pc = "rejected"
      /\ req[r].pc # "idle"
  BY WriteFailsMoves, WritingPlace DEF Becomes
<1>2. CASE Ends(r)
  BY <1>0, <1>2, EndsDated
<1>3. CASE /\ OthersWait(r) /\ SameRequest(r) /\ req'[r].pc = "rejected"
           /\ req[r].kind # "gen"
  BY <1>0, <1>1, <1>3, GoesOnDated DEF GenPc
<1>4. CASE /\ OthersWait(r) /\ SameRequest(r) /\ req'[r].pc = "rejected"
           /\ req[r].kind = "gen"
  <2>1. DatedOne(r)'
    BY <1>0, <1>1, <1>4 DEF Dated, DatedOne, SameRequest, GenPc, At
  <2> QED BY <1>0, <1>4, <2>1, DatedQuiet
<1> QED BY <1>1, <1>2, <1>3, <1>4

\* Every step keeps the dates, under the settings the property asks for.
LEMMA NextDated ==
    ASSUME Typed, Dated, [Next]_vars, AccessDays <= RefreshDays PROVE Dated'
<1>1. ASSUME NEW r \in Requests, QueryFails(r) PROVE Dated'
  <2>1. now' = now /\ cache' = cache /\ born' = born /\ issued' = issued
    BY <1>1, QueryFailsMoves DEF Quiet, stores, history
  <2>2. CASE Ends(r)
    BY <2>1, <2>2, EndsDated
  <2>3. CASE ~Ends(r)
    <3>1. /\ OthersWait(r) /\ SameRequest(r) /\ req'[r].pc = "rejected"
          /\ req[r].kind # "gen" /\ req[r].pc # "idle"
      BY <1>1, <2>3, QueryFailsMoves DEF Becomes
    <3> QED BY <2>1, <3>1, GoesOnDated DEF GenPc
  <2> QED BY <2>2, <2>3
<1>2. CASE Crash
  <2>1. /\ UNCHANGED <<now, docs, born, issued>>
        /\ \A r \in Requests : req'[r].pc = "idle" /\ req'[r].late = {}
        /\ \A s \in Sessions : cache'[s] = 0 \/ cache'[s] = cache[s]
    BY <1>2 DEF Crash, Idle, history
  <2>2. /\ \A s \in issued : s \in Sessions /\ docs[s].expiresAt \in Nat
    BY DEF Typed, TypeOK, Doc
  <2> QED BY <2>1, <2>2, SessionsAssumption DEF Dated, GenPc, At
<1>3. CASE Tick
  <2>1. /\ now' = now + 1 /\ now \in Nat /\ UNCHANGED <<docs, cache, born, issued, req>>
        /\ \A r \in Requests : ~At(r, "idle") => now < req[r].began + Latency
    BY <1>3 DEF Tick, stores, history, Typed, TypeOK
  <2>2. ASSUME NEW r \in Requests PROVE DatedOne(r)'
    <3>1. DatedOne(r) /\ req'[r] = req[r]
      BY <2>1 DEF Dated, DatedOne
    <3>2. req[r].began \in Nat
      BY FieldTypes DEF Typed
    <3>3. "expired" \in req[r].late => docs[req[r].session].expiresAt \in Nat
      BY <3>1, WaitsIssued DEF DatedOne, Typed, TypeOK, Doc
    <3> QED BY <2>1, <3>1, <3>2, <3>3, SessionsAssumption DEF DatedOne, At
  <2> QED BY <2>1, <2>2 DEF Dated, DatedOne
<1>4. CASE UNCHANGED vars
  BY <1>4 DEF Dated, vars, stores, history, At
<1> QED BY <1>1, <1>2, <1>3, <1>4, GenDated, CheckDated, LogoutDated, WriteDated,
           WriteFailsDated DEF Next, WriteStep

\* No check that begins when the session is over accepts it, whichever of
\* the cache and the document answers, if access tokens do not outlive
\* refresh tokens.
THEOREM SessionsExpiredIsRefused == Spec => []ExpiredIsRefused
<1> DEFINE DatedIf == AccessDays <= RefreshDays => Dated
<1>1. Init => DatedIf
  BY DEF Init, Dated, Idle, GenPc, At
<1>2. Typed /\ DatedIf /\ [Next]_vars => DatedIf' BY NextDated
<1>3. DatedIf => ExpiredIsRefused BY DEF Dated, ExpiredIsRefused, At
<1> HIDE DEF DatedIf
<1> QED BY <1>1, <1>2, <1>3, AlwaysTyped, PTL DEF Spec

----------------------------------------------------------------------------
(* One current token *)

\* The part of Replaced about one handler.
ReplacedOne(r) ==
    /\ req[r].kind = "gen" /\ At(r, "rejected") => req[r].who \in failedGens
    /\ req[r].pc \in GenPc => req[r].held <= now + RefreshDays
    /\ \A u \in Users \ failedGens :
          req[r].who = u =>
              /\ At(r, "genBlack") => req[r].old = token[u].session
              /\ At(r, "genWrite") => Current(u) = {}
              /\ At(r, "genWrite") /\ "token" \notin req[r].todo =>
                    /\ token[u].session = req[r].session
                    /\ token[u].gone > req[r].held

\* The handler has the lock of its user for itself.
Alone(r) == \A q \in Requests \ {r} :
               ~(req[q].pc \in GenPc /\ req[q].who = req[r].who)

\* A token once blacklisted does not become current again.
LEMMA CurrentShrinks ==
    ASSUME Typed, [Next]_vars, NEW u \in Users
    PROVE  \A s \in issued : s \in Current(u)' => s \in Current(u)
<1>1. ASSUME NEW s \in Sessions, blackTok'[s] = 0 PROVE blackTok[s] = 0
  <2>1. CASE \E r \in Requests : GenBlacklist(r)
    BY <1>1, <2>1, SessionsAssumption DEF GenBlacklist, Typed, TypeOK
  <2>2. CASE ~\E r \in Requests : GenBlacklist(r)
    <3>1. ASSUME NEW r \in Requests, NEW w \in WriteOp, Write(r, w)
          PROVE  blackTok' = blackTok
      BY <3>1 DEF Write, Apply
    <3>2. ASSUME ~\E r \in Requests, w \in WriteOp : Write(r, w)
          PROVE  blackTok' = blackTok
      BY <2>2, <3>2
         DEF Next, GenStep, GenBegin, GenRead, GenReturn, CheckStep, HttpCheck,
             SocketCheck, CheckBlack, CheckCache, CheckLoad, CheckStore, Refuse,
             Answer, LogoutStep, LogoutBegin, LogoutReturn, WriteStep,
             WriteFails, QueryFails, Crash, Tick, vars, stores
    <3> QED BY <1>1, <3>1, <3>2
  <2> QED BY <2>1, <2>2
<1>2. \A s \in issued : s \in Sessions /\ docs[s].expiresAt \in Nat
  BY DEF Typed, TypeOK, Doc
<1> QED BY <1>1, <1>2, IssuedStay DEF Current, IsExpired

\* What a handler does to the tokens concerns the other handlers only if
\* they are logins of the same user.
LEMMA ReplacedOthers ==
    ASSUME Typed, Replaced, [Next]_vars, NEW r \in Requests, OthersWait(r),
           issued' = issued, failedGens \subseteq failedGens', ReplacedOne(r)',
           req'[r].pc \in GenPc => Alone(r)',
           \A u \in Users \ failedGens' :
              \/ token'[u] = token[u]
              \/ /\ Current(u) = {}
                 /\ \A q \in Requests \ {r} : ~(req[q].pc \in GenPc /\ req[q].who = u)
    PROVE  Replaced'
<1>0. now \in Nat /\ now' \in Nat /\ now <= now' /\ RefreshDays \in Nat
  BY IssuedStay, SessionsAssumption
<1>1. ASSUME NEW u \in Users \ failedGens'
      PROVE  /\ \A s \in Current(u)' : s \in Current(u) /\ s \in issued
             /\ \A s \in Current(u)' : /\ token'[u].session = s
                                       /\ token'[u].gone > docs'[s].expiresAt
  <2>1. \A s \in Current(u)' : s \in Current(u) /\ s \in issued
    BY CurrentShrinks DEF Current
  <2>2. \A s \in Current(u) : token[u].session = s /\ token[u].gone > docs[s].expiresAt
    BY DEF Replaced
  <2> QED BY <2>1, <2>2, IssuedStay
<1>2. ASSUME NEW q \in Requests \ {r} PROVE ReplacedOne(q)'
  <2>1. req'[q] = req[q] /\ ReplacedOne(q)
    BY DEF OthersWait, Replaced, ReplacedOne
  <2>2. req[q].held \in Nat BY FieldTypes DEF Typed
  <2>3. /\ req[q].kind = "gen" /\ At(q, "rejected") => req[q].who \in failedGens'
        /\ req[q].pc \in GenPc => req[q].held <= now' + RefreshDays
    BY <1>0, <2>1, <2>2 DEF ReplacedOne
  <2>4. ASSUME NEW u \in Users \ failedGens', req[q].who = u
        PROVE  /\ At(q, "genBlack")' => req'[q].old = token'[u].session
               /\ At(q, "genWrite")' => Current(u)' = {}
               /\ At(q, "genWrite")' /\ "token" \notin req'[q].todo =>
                     /\ token'[u].session = req'[q].session
                     /\ token'[u].gone > req'[q].held
    <3>1. CASE req[q].pc \in GenPc
      <4>1. token'[u] = token[u]
        BY <2>4, <3>1
      <4>2. Current(u) = {} => Current(u)' = {}
        BY <1>1
      <4> QED BY <2>1, <2>4, <4>1, <4>2 DEF ReplacedOne, At
    <3>2. CASE req[q].pc \notin GenPc
      BY <2>1, <3>2 DEF GenPc, At
    <3> QED BY <3>1, <3>2
  <2> QED BY <2>1, <2>3, <2>4 DEF ReplacedOne, At
<1>3. \A p, q \in Requests :
         req'[p].pc \in GenPc /\ req'[q].pc \in GenPc /\ req'[p].who = req'[q].who => p = q
  BY DEF Replaced, OthersWait, Alone
<1> QED BY <1>1, <1>2, <1>3 DEF Replaced, ReplacedOne, At

\* A step of a handler that leaves gen, or is not gen, and leaves the
\* tokens alone.
LEMMA ReplacedQuiet ==
    ASSUME Typed, Replaced, [Next]_vars, NEW r \in Requests, OthersWait(r),
           token' = token, issued' = issued, failedGens \subseteq failedGens',
           req'[r].pc \notin GenPc,
           ~(req'[r].kind = "gen" /\ req'[r].pc = "rejected")
    PROVE  Replaced'
<1>1. ReplacedOne(r)'
  BY DEF ReplacedOne, GenPc, At
<1> QED BY <1>1, ReplacedOthers

LEMMA EndsReplaced ==
    ASSUME Typed, Replaced, [Next]_vars, NEW r \in Requests, Ends(r),
           token' = token, issued' = issued, failedGens \subseteq failedGens'
    PROVE  Replaced'
BY ReplacedQuiet DEF Ends, Becomes, GenPc

\* gen begins with the lock of the user, and hands its token out when the
\* one before is blacklisted or gone.
LEMMA GenReplaced ==
    ASSUME Typed, Replaced, [Next]_vars, NEW r \in Requests, GenStep(r) PROVE Replaced'
<1>0. /\ TypeOK /\ Shape /\ now \in Nat /\ ReplacedOne(r)
      /\ now' = now /\ token' = token /\ failedGens' = failedGens
  BY DEF Typed, TypeOK, Replaced, ReplacedOne, GenStep, GenBegin, GenRead, GenBlacklist,
         GenReturn, stores, history
<1>1. ASSUME NEW u \in Users, NEW s \in Sessions, GenBegin(r, u, s) PROVE Replaced'
  <2>1. /\ Becomes(r, "genRead", {}) /\ req'[r].kind = "gen" /\ req'[r].who = u
        /\ req'[r].held = now + RefreshDays
    BY <1>0, <1>1, GenBeginSlot
  <2>2. ReplacedOne(r)'
    BY <1>0, <2>1, SessionsAssumption DEF ReplacedOne, Becomes, At
  <2>3. Alone(r)'
    BY <1>1, <2>1 DEF GenBegin, LockFree, Alone, Becomes, OthersWait, GenPc
  <2> QED BY <1>0, <1>1, <2>1, <2>2, <2>3, ReplacedOthers DEF GenBegin, Becomes
<1>2. CASE GenRead(r) \/ GenBlacklist(r)
  <2>0. /\ req[r].who \in Users /\ req[r].pc \in {"genRead", "genBlack"}
        /\ req[r].kind = "gen" /\ issued' = issued
    BY <1>0, <1>2 DEF GenRead, GenBlacklist, Shape, ShapeOf, At, GenPc, history
  <2>1. /\ SameRequest(r) /\ OthersWait(r) /\ req'[r].held = req[r].held
        /\ req'[r].pc \in {"genBlack", "genWrite"}
        /\ req'[r].pc = "genWrite" => req'[r].todo = GenWrites
        /\ req'[r].pc = "genBlack" => req'[r].old = token[req[r].who].session
    <3>1. CASE GenRead(r)
      BY <1>0, <2>0, <3>1, GenReadSlot DEF Becomes
    <3>2. CASE GenBlacklist(r)
      BY <1>0, <3>2, AwaitSlot DEF GenBlacklist, Pc, GenWrites, WriteOp, Becomes
    <3> QED BY <1>2, <3>1, <3>2
  <2>2. Alone(r)'
    BY <2>0, <2>1 DEF Replaced, Alone, OthersWait, SameRequest, GenPc
  <2>3. ASSUME NEW u \in Users \ failedGens, req[r].who = u, req'[r].pc = "genWrite"
        PROVE  Current(u)' = {}
    <3>1. \A s \in Current(u)' : s \in Current(u) /\ s \in issued /\ s \in Sessions
      BY <2>0, CurrentShrinks DEF Current, Typed, TypeOK
    <3>2. ASSUME NEW s \in Current(u)' PROVE FALSE
      <4>1. /\ s \in issued /\ s \in Sessions /\ token[u].session = s
            /\ token[u].gone > docs[s].expiresAt /\ ~IsExpired(s)
        BY <3>1, <3>2 DEF Replaced, Current
      <4>2. CASE GenRead(r)
        <5>1. ~Live(token[u].gone)
          BY <1>0, <2>0, <2>3, <4>2, GenReadSlot DEF Becomes
        <5>2. token[u].gone \in Nat /\ docs[s].expiresAt \in Nat
          BY <1>0, <4>1 DEF TypeOK, Doc
        <5> QED BY <1>0, <4>1, <5>1, <5>2 DEF Live, IsExpired
      <4>3. CASE GenBlacklist(r)
        <5>1. req[r].old = s
          BY <1>0, <2>3, <4>1, <4>3 DEF GenBlacklist, ReplacedOne
        <5>2. blackTok'[s] # 0
          BY <1>0, <4>1, <4>3, <5>1, SessionsAssumption DEF GenBlacklist, TypeOK
        <5> QED BY <3>2, <5>2 DEF Current
      <4> QED BY <1>2, <4>2, <4>3
    <3> QED BY <3>2
  <2>4. ReplacedOne(r)'
    BY <1>0, <2>0, <2>1, <2>3 DEF ReplacedOne, SameRequest, GenPc, GenWrites, At
  <2> QED BY <1>0, <2>0, <2>1, <2>2, <2>4, ReplacedOthers
<1>3. CASE GenReturn(r)
  <2> DEFINE s == req[r].session
             u == req[r].who
  <2>1. Ends(r) BY <1>0, <1>3, ReturnSlot DEF GenReturn
  <2>2. /\ u \in Users /\ At(r, "genWrite") /\ req[r].todo = {}
        /\ docs[s].user = u /\ docs[s].expiresAt = req[r].held
        /\ docs' = docs /\ blackTok' = blackTok
        /\ issued' = issued \cup {s}
    BY <1>3 DEF GenReturn, AllWritten, stores, Typed, Known, Shape, ShapeOf, GenPc, At
  <2>3. ASSUME NEW v \in Users, NEW t \in Current(v)'
        PROVE  \/ t \in Current(v)
               \/ t = s /\ v = u
    <3>1. t \in issued => t \in Current(v) BY CurrentShrinks
    <3>2. docs[t].user = v /\ t \in issued \cup {s}
      BY <2>2 DEF Current
    <3> QED BY <2>2, <3>1, <3>2
  <2>4. ASSUME NEW v \in Users \ failedGens', NEW t \in Current(v)'
        PROVE  token'[v].session = t /\ token'[v].gone > docs'[t].expiresAt
    <3>1. CASE t \in Current(v)
      BY <1>0, <2>2, <3>1 DEF Replaced
    <3>2. CASE t = s /\ v = u
      BY <1>0, <2>2, <3>2 DEF ReplacedOne
    <3> QED BY <2>3, <3>1, <3>2
  <2>5. ASSUME NEW q \in Requests \ {r}, NEW v \in Users \ failedGens',
               req[q].who = v, At(q, "genWrite")
        PROVE  Current(v)' = {}
    <3>1. v # u
      BY <2>2, <2>5 DEF Replaced, GenPc, At
    <3>2. Current(v) = {}
      BY <1>0, <2>5 DEF Replaced
    <3> QED BY <2>3, <3>1, <3>2
  <2>6. ASSUME NEW q \in Requests PROVE ReplacedOne(q)'
    <3>1. CASE q = r
      BY <2>1, <3>1 DEF Ends, Becomes, ReplacedOne, GenPc, At
    <3>2. CASE q # r
      <4>1. req'[q] = req[q] /\ ReplacedOne(q)
        BY <2>1, <3>2 DEF Ends, Becomes, OthersWait, Replaced, ReplacedOne
      <4> QED BY <1>0, <2>5, <3>2, <4>1 DEF ReplacedOne, At
    <3> QED BY <3>1, <3>2
  <2>7. \A p, q \in Requests :
           req'[p].pc \in GenPc /\ req'[q].pc \in GenPc /\ req'[p].who = req'[q].who => p = q
    BY <2>1 DEF Ends, Becomes, OthersWait, Replaced, GenPc
  <2> QED BY <2>4, <2>6, <2>7 DEF Replaced, ReplacedOne, At
<1> QED BY <1>1, <1>2, <1>3 DEF GenStep

\* Checks do not touch the tokens of users.
LEMMA CheckReplaced ==
    ASSUME Typed, Replaced, [Next]_vars, NEW r \in Requests, CheckStep(r) PROVE Replaced'
<1>0. token' = token /\ issued' = issued /\ failedGens' = failedGens
  BY CheckMoves DEF Quiet, CheckStore, stores, history
<1>1. /\ OthersWait(r) /\ req'[r].pc \notin GenPc
      /\ ~(req'[r].kind = "gen" /\ req'[r].pc = "rejected")
  BY CheckMoves DEF Begun, Ends, GoesOn, Becomes, SameRequest, GenPc, CheckPc
<1> QED BY <1>0, <1>1, ReplacedQuiet

LEMMA LogoutReplaced ==
    ASSUME Typed, Replaced, [Next]_vars, NEW r \in Requests, LogoutStep(r) PROVE Replaced'
<1>0. TypeOK /\ token' = token /\ issued' = issued /\ failedGens' = failedGens
  BY DEF Typed, LogoutStep, LogoutBegin, LogoutReturn, stores
<1>1. CASE LogoutBegin(r)
  <2>1. OthersWait(r) /\ req'[r].pc = "leave"
    BY <1>0, <1>1, AwaitSlot DEF LogoutBegin, Pc, DeleteWrites, WriteOp, Becomes
  <2> QED BY <1>0, <2>1, ReplacedQuiet DEF GenPc
<1>2. CASE LogoutReturn(r)
  BY <1>0, <1>2, ReturnSlot, EndsReplaced DEF LogoutReturn
<1> QED BY <1>1, <1>2 DEF LogoutStep

\* The token a gen writes is the first of its user, the others being
\* blacklisted, and outlives its session.
LEMMA WriteReplaced ==
    ASSUME Typed, Replaced, [Next]_vars, RefreshDays < TokenDays,
           NEW r \in Requests, NEW w \in WriteOp, Write(r, w)
    PROVE  Replaced'
<1> DEFINE u == req[r].who
<1>0. /\ TypeOK /\ ReplacedOne(r)
      /\ w \in req[r].todo /\ Apply(r, w) /\ Written(r, w)
      /\ now' = now /\ issued' = issued /\ failedGens' = failedGens
  BY DEF Typed, Write, history, Replaced, ReplacedOne
<1>1. /\ now \in Nat /\ req[r].held \in Nat /\ TokenDays \in Nat /\ RefreshDays \in Nat
      /\ w = "token" => req[r].kind = "gen" /\ u \in Users
      /\ req[r].pc \in {"genWrite", "refusing", "leave", "rejected"}
      /\ req[r].pc = "genWrite" => req[r].kind = "gen"
  BY <1>0, WritingPlace, FieldTypes, SessionsAssumption, DaysAreNaturals
     DEF TypeOK, GenWrites
<1>2. \/ Ends(r) /\ At(r, "rejected")
      \/ /\ OthersWait(r) /\ SameRequest(r) /\ req'[r].pc = req[r].pc
         /\ req'[r].held = req[r].held /\ req'[r].todo = req[r].todo \ {w}
  BY <1>0, WrittenSlot DEF Becomes
<1>3. OthersWait(r) BY <1>2 DEF Ends, Becomes
<1>4. \/ w # "token" /\ token' = token
      \/ /\ w = "token" /\ u \in Users
         /\ token' = [token EXCEPT ![u] = [session |-> req[r].session,
                                           gone |-> now + TokenDays]]
  BY <1>0, <1>1 DEF Apply
<1>5. ASSUME NEW v \in Users \ failedGens, token'[v] # token[v]
      PROVE  /\ v = u /\ w = "token" /\ req[r].pc = "genWrite"
             /\ Current(v) = {}
             /\ \A q \in Requests \ {r} : ~(req[q].pc \in GenPc /\ req[q].who = v)
  <2>1. v = u /\ w = "token"
    BY <1>0, <1>4, <1>5 DEF TypeOK
  <2>2. req[r].pc = "genWrite"
    BY <1>0, <1>1, <2>1 DEF Typed, Shape, ShapeOf, GenPc, ReplacedOne, At
  <2> QED BY <1>0, <2>1, <2>2 DEF Replaced, GenPc, At
<1>6. ReplacedOne(r)'
  <2>1. CASE Ends(r)
    BY <2>1 DEF Ends, Becomes, ReplacedOne, GenPc, At
  <2>2. CASE /\ OthersWait(r) /\ SameRequest(r) /\ req'[r].pc = req[r].pc
             /\ req'[r].held = req[r].held /\ req'[r].todo = req[r].todo \ {w}
    <3>1. ASSUME NEW v \in Users \ failedGens, u = v, req[r].pc = "genWrite"
          PROVE  /\ Current(v)' = {}
                 /\ "token" \notin req'[r].todo =>
                       /\ token'[v].session = req[r].session
                       /\ token'[v].gone > req[r].held
      <4>1. Current(v)' = {}
        BY <1>0, <3>1, CurrentShrinks DEF ReplacedOne, Current, At
      <4>2. CASE w = "token"
        <5>1. token'[v] = [session |-> req[r].session, gone |-> now + TokenDays]
          BY <1>0, <1>4, <3>1, <4>2 DEF TypeOK
        <5>2. req[r].held <= now + RefreshDays
          BY <1>0, <3>1 DEF ReplacedOne, GenPc
        <5> QED BY <1>1, <4>1, <5>1, <5>2
      <4>3. CASE w # "token"
        BY <1>0, <1>4, <2>2, <3>1, <4>1, <4>3 DEF ReplacedOne, At
      <4> QED BY <4>2, <4>3
    <3>2. req[r].pc # "genBlack" BY <1>1
    <3> QED BY <1>0, <2>2, <3>1, <3>2 DEF ReplacedOne, SameRequest, At
  <2> QED BY <1>2, <2>1, <2>2
<1>7. req'[r].pc \in GenPc => Alone(r)'
  BY <1>2, <1>3 DEF Ends, Becomes, SameRequest, Replaced, Alone, OthersWait, GenPc
<1> QED BY <1>0, <1>3, <1>5, <1>6, <1>7, ReplacedOthers

LEMMA WriteFailsReplaced ==
    ASSUME Typed, Replaced, [Next]_vars,
           NEW r \in Requests, NEW w \in WriteOp, WriteFails(r, w)
    PROVE  Replaced'
<1>0. /\ token' = token /\ issued' = issued /\ failedGens \subseteq failedGens'
      /\ At(r, "genWrite") => req[r].who \in failedGens'
  BY DEF WriteFails, stores
<1>1. /\ \/ Ends(r)
         \/ OthersWait(r) /\ SameRequest(r) /\ req'[r].pc = "rejected"
      /\ req[r].kind = "gen" => req[r].pc \in {"genWrite", "rejected"}
  BY WriteFailsMoves, WritingPlace DEF Becomes, Typed, Shape, ShapeOf, GenPc
<1>2. CASE Ends(r)
  BY <1>0, <1>2, EndsReplaced
<1>3. CASE OthersWait(r) /\ SameRequest(r) /\ req'[r].pc = "rejected"
  <2>1. ReplacedOne(r)'
    BY <1>0, <1>1, <1>3 DEF Replaced, ReplacedOne, SameRequest, GenPc, At
  <2> QED BY <1>0, <1>3, <2>1, ReplacedOthers DEF GenPc
<1> QED BY <1>1, <1>2, <1>3

\* Every step keeps the tokens of a user in order.
LEMMA NextReplaced ==
    ASSUME Typed, Replaced, [Next]_vars, RefreshDays < TokenDays PROVE Replaced'
<1>1. ASSUME NEW r \in Requests, QueryFails(r) PROVE Replaced'
  <2>1. token' = token /\ issued' = issued /\ failedGens' = failedGens
    BY <1>1, QueryFailsMoves DEF Quiet, stores, history
  <2>2. /\ OthersWait(r) /\ req'[r].pc \notin GenPc
        /\ ~(req'[r].kind = "gen" /\ req'[r].pc = "rejected")
    BY <1>1, QueryFailsMoves DEF Ends, Becomes, SameRequest, GenPc
  <2> QED BY <2>1, <2>2, ReplacedQuiet
<1>2. ASSUME UNCHANGED <<docs, token, blackTok, issued, failedGens>>, now <= now',
             \A r \in Requests : req'[r] = req[r] \/ req'[r] = Idle
      PROVE  Replaced'
  <2>0. now \in Nat /\ now' \in Nat /\ RefreshDays \in Nat
    BY IssuedStay, SessionsAssumption
  <2>1. \A u \in Users : \A s \in Current(u)' : s \in Current(u)
    BY <1>2, CurrentShrinks DEF Current
  <2>2. ASSUME NEW r \in Requests PROVE ReplacedOne(r)'
    <3>1. CASE req'[r] = Idle
      BY <3>1 DEF Idle, ReplacedOne, GenPc, At
    <3>2. CASE req'[r] = req[r]
      <4>1. ReplacedOne(r) /\ req[r].held \in Nat
        BY FieldTypes DEF Typed, Replaced, ReplacedOne
      <4> QED BY <1>2, <2>0, <2>1, <3>2, <4>1 DEF ReplacedOne, At
    <3> QED BY <1>2, <3>1, <3>2
  <2>3. \A p, q \in Requests :
           req'[p].pc \in GenPc /\ req'[q].pc \in GenPc /\ req'[p].who = req'[q].who => p = q
    BY <1>2 DEF Replaced, Idle, GenPc
  <2> QED BY <1>2, <2>1, <2>2, <2>3 DEF Replaced, ReplacedOne, At
<1>3. CASE Crash
  BY <1>2, <1>3, IssuedStay DEF Crash, history
<1>4. CASE Tick \/ UNCHANGED vars
  BY <1>2, <1>4, IssuedStay DEF Tick, vars, stores, history
<1> QED BY <1>1, <1>3, <1>4, GenReplaced, CheckReplaced, LogoutReplaced, WriteReplaced,
           WriteFailsReplaced DEF Next, WriteStep

\* At most one token of a user is neither blacklisted nor past its date, as
\* long as none of the user's logins failed half way: the lock of login
\* keeps the token a gen reads the one it replaces.
THEOREM SessionsOneCurrentToken == Spec => []OneCurrentToken
<1> DEFINE ReplacedIf == RefreshDays < TokenDays => Replaced
<1>1. Init => ReplacedIf
  BY DEF Init, Replaced, Current, Idle, GenPc, At
<1>2. Typed /\ ReplacedIf /\ [Next]_vars => ReplacedIf' BY NextReplaced
<1>3. ReplacedIf => OneCurrentToken BY DEF Replaced, OneCurrentToken
<1> HIDE DEF ReplacedIf
<1> QED BY <1>1, <1>2, <1>3, AlwaysTyped, PTL DEF Spec

----------------------------------------------------------------------------
(* The life of a session *)

\* A request that logs out has said so.
Leavers == \A r \in Requests : At(r, "leave") => req[r].session \in leaving

LEMMA LeaversOthers ==
    ASSUME Leavers, NEW r \in Requests, OthersWait(r), leaving \subseteq leaving',
           At(r, "leave")' => req'[r].session \in leaving'
    PROVE  Leavers'
BY DEF Leavers, OthersWait, At

LEMMA NextLeavers == ASSUME Typed, Leavers, [Next]_vars PROVE Leavers'
<1>0. TypeOK /\ Shape /\ leaving \subseteq leaving'
  BY IssuedStay DEF Typed
<1>1. ASSUME NEW r \in Requests, GenStep(r) PROVE Leavers'
  <2>1. ASSUME NEW u \in Users, NEW s \in Sessions, GenBegin(r, u, s) PROVE Leavers'
    BY <1>0, <2>1, GenBeginSlot, LeaversOthers DEF Becomes, At
  <2>2. CASE GenRead(r)
    <3>1. req[r].who \in Users
      BY <1>0, <2>2 DEF GenRead, Shape, ShapeOf, At, GenPc
    <3> QED BY <1>0, <2>2, <3>1, GenReadSlot, LeaversOthers DEF Becomes, At
  <2>3. CASE GenBlacklist(r)
    <3>1. Becomes(r, "genWrite", GenWrites)
      BY <1>0, <2>3, AwaitSlot DEF GenBlacklist, Pc, GenWrites, WriteOp
    <3> QED BY <1>0, <3>1, LeaversOthers DEF Becomes, At
  <2>4. CASE GenReturn(r)
    BY <1>0, <2>4, ReturnSlot, LeaversOthers DEF GenReturn, Ends, Becomes, At
  <2> QED BY <1>1, <2>1, <2>2, <2>3, <2>4 DEF GenStep
<1>2. ASSUME NEW r \in Requests, CheckStep(r) PROVE Leavers'
  BY <1>0, <1>2, CheckMoves, LeaversOthers
     DEF Begun, Ends, GoesOn, CheckRule, Becomes, At
<1>3. ASSUME NEW r \in Requests, LogoutStep(r) PROVE Leavers'
  <2>1. CASE LogoutBegin(r)
    <3>1. SameRequest(r) /\ Becomes(r, "leave", DeleteWrites)
      BY <1>0, <2>1, AwaitSlot DEF LogoutBegin, Pc, DeleteWrites, WriteOp
    <3> QED BY <1>0, <2>1, <3>1, LeaversOthers DEF LogoutBegin, SameRequest, Becomes
  <2>2. CASE LogoutReturn(r)
    BY <1>0, <2>2, ReturnSlot, LeaversOthers DEF LogoutReturn, Ends, Becomes, At
  <2> QED BY <1>3, <2>1, <2>2 DEF LogoutStep
<1>4. ASSUME NEW r \in Requests, NEW w \in WriteOp, Write(r, w) PROVE Leavers'
  <2>1. \/ Ends(r)
        \/ Becomes(r, req[r].pc, req[r].todo \ {w}) /\ SameRequest(r)
    BY <1>0, <1>4, WrittenSlot DEF Write
  <2> QED BY <1>0, <2>1, LeaversOthers DEF Leavers, Ends, Becomes, SameRequest, At
<1>5. ASSUME NEW r \in Requests, NEW w \in WriteOp, WriteFails(r, w) PROVE Leavers'
  BY <1>0, <1>5, WriteFailsMoves, LeaversOthers DEF Ends, Becomes, At
<1>6. ASSUME NEW r \in Requests, QueryFails(r) PROVE Leavers'
  BY <1>0, <1>6, QueryFailsMoves, LeaversOthers DEF Ends, Becomes, At
<1>7. CASE Crash
  BY <1>7 DEF Crash, Leavers, Idle, At
<1>8. CASE Tick \/ UNCHANGED vars
  BY <1>8 DEF Tick, Leavers, vars, history, At
<1> QED BY <1>1, <1>2, <1>3, <1>4, <1>5, <1>6, <1>7, <1>8 DEF Next, WriteStep

\* What the step of one request means for those who ask and are in.
LEMMA AskedNext ==
    ASSUME NEW r \in Requests, OthersWait(r)
    PROVE  /\ ~Asking(r)' => Asked' = Asked \ {<<req[r].session, r>>}
           /\ ~Asking(r) /\ ~Asking(r)' => Asked' = Asked
           /\ Asking(r) /\ Asking(r)' /\ req'[r].session = req[r].session => Asked' = Asked
           /\ ~Asking(r) /\ Asking(r)' => Asked' = Asked \cup {<<req'[r].session, r>>}
<1>1. \A q \in Requests \ {r} : (Asking(q)' <=> Asking(q)) /\ req'[q].session = req[q].session
  BY DEF OthersWait, Asking, InTime
<1> QED BY <1>1 DEF Asked

LEMMA AdmittedNext ==
    ASSUME NEW r \in Requests, OthersWait(r)
    PROVE  /\ ~IsIn(r)' => Admitted' = Admitted \ {<<req[r].session, r>>}
           /\ ~IsIn(r) /\ ~IsIn(r)' => Admitted' = Admitted
           /\ IsIn(r) /\ IsIn(r)' /\ req'[r].session = req[r].session => Admitted' = Admitted
           /\ ~IsIn(r) /\ IsIn(r)' => Admitted' = Admitted \cup {<<req'[r].session, r>>}
<1>1. \A q \in Requests \ {r} : (IsIn(q)' <=> IsIn(q)) /\ req'[q].session = req[q].session
  BY DEF OthersWait, IsIn
<1> QED BY <1>1 DEF Admitted

LEMMA DatesPass == ASSUME Typed, [Next]_vars PROVE Life!Pass
<1>1. /\ now \in Nat /\ now' \in Nat /\ now <= now' /\ issued \subseteq issued'
      /\ \A s \in issued : docs'[s].expiresAt = docs[s].expiresAt
  BY IssuedStay
<1>2. \A s \in issued' : docs'[s].expiresAt \in Nat /\ Latency \in Nat
  BY NextTyped, SessionsAssumption DEF Typed, TypeOK, Doc
<1>3. Expired \subseteq Expired'
  BY <1>1, <1>2 DEF Expired, IsExpired
<1>4. Stale \subseteq Stale'
  BY <1>1, <1>2 DEF Stale
<1>5. Stale' \subseteq Expired' /\ Expired' \subseteq issued'
  BY <1>1, <1>2 DEF Stale, Expired, IsExpired
<1> QED BY <1>3, <1>4, <1>5 DEF Life!Pass

LEMMA DatesStay ==
    ASSUME Typed, [Next]_vars, UNCHANGED <<now, issued>>
    PROVE  UNCHANGED <<Expired, Stale>>
<1>1. \A s \in issued : docs'[s].expiresAt = docs[s].expiresAt
  BY IssuedStay
<1> QED BY <1>1 DEF Expired, Stale, IsExpired

\* A request goes on, is refused or ends, and says nothing new of sessions.
LEMMA LifeDismisses ==
    ASSUME Typed, [Next]_vars, NEW r \in Requests, OthersWait(r),
           Asking(r)' => Asking(r) /\ req'[r].session = req[r].session,
           IsIn(r)' => IsIn(r) /\ req'[r].session = req[r].session,
           UNCHANGED <<now, issued, leaving, ended, blackSess>>
    PROVE  Life!Next
<1>1. Asked' \subseteq Asked
  BY AskedNext
<1>2. Admitted' \subseteq Admitted
  BY AdmittedNext
<1>3. UNCHANGED <<Expired, Stale>>
  BY DatesStay
<1>4. Life!Dismiss
  BY <1>1, <1>2, <1>3 DEF Life!Dismiss, Life!dates
<1> QED BY <1>4 DEF Life!Next

LEMMA EndsLives ==
    ASSUME Typed, [Next]_vars, NEW r \in Requests,
           Ends(r) \/ (Becomes(r, "rejected", req'[r].todo) /\ SameRequest(r)),
           UNCHANGED <<now, issued, leaving, ended, blackSess>>
    PROVE  Life!Next
BY LifeDismisses DEF Ends, Becomes, Asking, IsIn

LEMMA GenLives ==
    ASSUME Typed, [Next]_vars, NEW r \in Requests, GenStep(r) PROVE Life!Next
<1>0. TypeOK /\ Shape BY DEF Typed
<1>1. ASSUME NEW u \in Users, NEW s \in Sessions, GenBegin(r, u, s) PROVE Life!Next
  BY <1>0, <1>1, GenBeginSlot, LifeDismisses
     DEF GenBegin, stores, Becomes, Asking, IsIn
<1>2. CASE GenRead(r)
  <2>1. req[r].who \in Users
    BY <1>0, <1>2 DEF GenRead, Shape, ShapeOf, At, GenPc
  <2> QED BY <1>0, <1>2, <2>1, GenReadSlot, LifeDismisses
             DEF GenRead, stores, history, Becomes, Asking, IsIn
<1>3. CASE GenBlacklist(r)
  <2>1. Becomes(r, "genWrite", GenWrites)
    BY <1>0, <1>3, AwaitSlot DEF GenBlacklist, Pc, GenWrites, WriteOp
  <2> QED BY <1>3, <2>1, LifeDismisses DEF GenBlacklist, history, Becomes, Asking, IsIn
<1>4. CASE GenReturn(r)
  <2>1. PICK s \in Sessions : s = req[r].session /\ s \notin issued
    BY <1>0, <1>4 DEF GenReturn, Shape, ShapeOf, At, GenPc, TypeOK
  <2>2. Ends(r) /\ OthersWait(r)
    BY <1>0, <1>4, ReturnSlot DEF GenReturn, Ends, Becomes
  <2>3. ~Asking(r) /\ ~Asking(r)' /\ ~IsIn(r) /\ ~IsIn(r)'
    BY <1>4, <2>2 DEF GenReturn, Ends, Becomes, Asking, IsIn, At
  <2>4. Asked' = Asked /\ Admitted' = Admitted
    BY <2>2, <2>3, AskedNext, AdmittedNext
  <2>5. Life!Give(s)
    BY <1>4, <2>1, <2>4, DatesPass DEF GenReturn, stores, Life!Give
  <2> QED BY <2>5 DEF Life!Next
<1> QED BY <1>1, <1>2, <1>3, <1>4 DEF GenStep

\* A check that has asked in time goes on or is admitted; one that has not is
\* never admitted.
LEMMA CheckGoesOn ==
    ASSUME Typed, [Next]_vars, (EndedStaysEnded /\ ExpiredIsRefused)',
           NEW r \in Requests, OthersWait(r), SameRequest(r),
           req[r].pc \in {"checkBlack", "checkCache", "checkLoad", "checkStore"},
           req'[r].pc \in {"checkCache", "checkLoad", "checkStore",
                           "accepted", "refusing", "rejected"},
           UNCHANGED <<now, issued, leaving, ended, blackSess>>
    PROVE  Life!Next
<1>1. InTime(r)' <=> InTime(r)
  BY DEF InTime, SameRequest
<1>2. CASE req'[r].pc # "accepted"
  BY <1>1, <1>2, LifeDismisses DEF Asking, IsIn, SameRequest
<1>3. CASE req'[r].pc = "accepted"
  <2>1. InTime(r)'
    BY <1>3 DEF EndedStaysEnded, ExpiredIsRefused, InTime, At
  <2>2. Asking(r) /\ ~Asking(r)' /\ ~IsIn(r) /\ IsIn(r)'
    BY <1>1, <1>3, <2>1 DEF Asking, IsIn
  <2>3. PICK s \in Sessions : s = req[r].session
    BY DEF Typed, Shape, ShapeOf
  <2>4. /\ <<s, r>> \in Asked
        /\ Asked' = Asked \ {<<s, r>>}
        /\ Admitted' = Admitted \cup {<<s, r>>}
    BY <2>2, <2>3, AskedNext, AdmittedNext DEF SameRequest, Asked
  <2>5. Life!Admit(s, r)
    BY <2>4, DatesStay DEF Life!Admit, Life!dates
  <2> QED BY <2>5 DEF Life!Next
<1> QED BY <1>2, <1>3

LEMMA BegunLives ==
    ASSUME Typed, [Next]_vars, NEW r \in Requests, NEW s \in Sessions,
           At(r, "idle"), Begun(r, s),
           UNCHANGED <<now, issued, leaving, ended, blackSess>>
    PROVE  Life!Next
<1>0. OthersWait(r) /\ ~Asking(r) /\ ~IsIn(r) /\ ~IsIn(r)'
  BY DEF Begun, Becomes, Asking, IsIn, At
<1>1. CASE ~Asking(r)'
  BY <1>0, <1>1, LifeDismisses
<1>2. CASE Asking(r)'
  <2>1. s \in issued /\ req'[r].session = s /\ InTime(r)' /\ req'[r].late = Over(s)
    BY <1>2 DEF Begun, Asking
  <2>2. s \notin ended /\ s \notin Stale
    BY <2>1 DEF InTime, Over, Stale
  <2>3. Asked' = Asked \cup {<<s, r>>} /\ Admitted' = Admitted
    BY <1>0, <1>2, <2>1, AskedNext, AdmittedNext
  <2>4. Life!Ask(s, r)
    BY <2>1, <2>2, <2>3, DatesStay DEF Life!Ask, Life!dates
  <2> QED BY <2>4 DEF Life!Next
<1> QED BY <1>1, <1>2

LEMMA CheckLives ==
    ASSUME Typed, [Next]_vars, (EndedStaysEnded /\ ExpiredIsRefused)',
           NEW r \in Requests, CheckStep(r)
    PROVE  Life!Next
<1> USE DEF stores, history
<1>0. TypeOK /\ Shape BY DEF Typed
<1>1. ASSUME NEW s \in Sessions, HttpCheck(r, s) \/ SocketCheck(r, s) PROVE Life!Next
  BY <1>0, <1>1, HttpCheckSlot, SocketCheckSlot, BegunLives DEF HttpCheck, SocketCheck
<1>2. CASE CheckBlack(r)
  <2>1. CASE Reject(r, {})
    BY <1>0, <1>2, <2>1, RejectNone, EndsLives DEF CheckBlack, Becomes
  <2>2. CASE Goto(r, "checkCache")
    BY <1>0, <1>2, <2>2, GotoSlot, CheckGoesOn DEF CheckBlack, Pc, Becomes, At
  <2> QED BY <1>2, <2>1, <2>2 DEF CheckBlack
<1>3. CASE CheckCache(r)
  <2>1. CASE Goto(r, "accepted")
    BY <1>0, <1>3, <2>1, GotoSlot, CheckGoesOn DEF CheckCache, Pc, Becomes, At
  <2>2. CASE Goto(r, "checkLoad")
    BY <1>0, <1>3, <2>2, GotoSlot, CheckGoesOn DEF CheckCache, Pc, Becomes, At
  <2> QED BY <1>3, <2>1, <2>2 DEF CheckCache
<1>4. CASE CheckLoad(r)
  <2>1. req[r].session \in Sessions
    BY <1>0, <1>4 DEF CheckLoad, Shape, ShapeOf, At
  <2>2. /\ SameRequest(r) /\ OthersWait(r)
        /\ req'[r].pc \in {"refusing", "checkStore"}
    BY <1>0, <1>4, <2>1, CheckLoadSlot DEF Becomes
  <2> QED BY <1>4, <2>2, CheckGoesOn DEF CheckLoad, At
<1>5. CASE CheckStore(r)
  BY <1>0, <1>5, GotoSlot, CheckGoesOn DEF CheckStore, Pc, Becomes, At
<1>6. CASE Refuse(r)
  BY <1>0, <1>6, RejectNone, EndsLives DEF Refuse, Becomes
<1>7. CASE Answer(r)
  BY <1>0, <1>7, ReturnSlot, EndsLives DEF Answer
<1> QED BY <1>1, <1>2, <1>3, <1>4, <1>5, <1>6, <1>7 DEF CheckStep

LEMMA LogoutLives ==
    ASSUME Typed, [Next]_vars, Barred, Leavers, NEW r \in Requests, LogoutStep(r)
    PROVE  Life!Next
<1>0. TypeOK /\ Shape BY DEF Typed
<1>1. PICK s \in Sessions : s = req[r].session
  BY <1>0 DEF LogoutStep, LogoutBegin, LogoutReturn, Shape, ShapeOf, At
<1>2. CASE LogoutBegin(r)
  <2>1. SameRequest(r) /\ Becomes(r, "leave", DeleteWrites)
    BY <1>0, <1>2, AwaitSlot DEF LogoutBegin, Pc, DeleteWrites, WriteOp
  <2>2. OthersWait(r) /\ ~Asking(r) /\ ~Asking(r)' /\ IsIn(r) /\ IsIn(r)'
    BY <1>2, <2>1 DEF LogoutBegin, Becomes, Asking, IsIn, At
  <2>3. <<s, r>> \in Admitted /\ Admitted' = Admitted /\ Asked' = Asked
    BY <1>1, <2>1, <2>2, AskedNext, AdmittedNext DEF SameRequest, Admitted
  <2>4. Life!Leave(s, r)
    BY <1>1, <1>2, <2>3, DatesStay DEF LogoutBegin, stores, Life!Leave, Life!dates
  <2> QED BY <2>4 DEF Life!Next
<1>3. CASE LogoutReturn(r)
  <2>1. Ends(r) /\ OthersWait(r)
    BY <1>0, <1>3, ReturnSlot DEF LogoutReturn, Ends, Becomes
  <2>2. ~Asking(r) /\ ~Asking(r)' /\ IsIn(r) /\ ~IsIn(r)'
    BY <1>3, <2>1 DEF LogoutReturn, Ends, Becomes, Asking, IsIn, At
  <2>3. <<s, r>> \in Admitted /\ Admitted' = Admitted \ {<<s, r>>} /\ Asked' = Asked
    BY <1>1, <2>1, <2>2, AskedNext, AdmittedNext DEF Admitted
  <2>4. s \in leaving /\ s \in blackSess
    BY <1>1, <1>3 DEF LogoutReturn, Leavers, Barred
  <2>5. Life!Close(s, r)
    BY <1>1, <1>3, <2>3, <2>4, DatesStay DEF LogoutReturn, stores, Life!Close, Life!dates
  <2> QED BY <2>5 DEF Life!Next
<1> QED BY <1>2, <1>3 DEF LogoutStep

LEMMA WriteLives ==
    ASSUME Typed, [Next]_vars, Causes, NEW r \in Requests, NEW w \in WriteOp, Write(r, w)
    PROVE  Life!Next
<1>0. TypeOK /\ w \in req[r].todo /\ Apply(r, w) /\ UNCHANGED <<now, history>>
  BY DEF Typed, Write
<1>1. \/ Ends(r) /\ At(r, "rejected")
      \/ Becomes(r, req[r].pc, req[r].todo \ {w}) /\ SameRequest(r)
  BY <1>0, WrittenSlot DEF Write
<1>2. OthersWait(r) /\ (Asking(r)' <=> Asking(r)) /\ (IsIn(r)' <=> IsIn(r))
  BY <1>1 DEF Ends, Becomes, SameRequest, Asking, InTime, IsIn, At
<1>3. Asking(r) \/ IsIn(r) => req'[r].session = req[r].session
  BY <1>1 DEF SameRequest, Asking, IsIn, At
<1>4. CASE w # "black"
  BY <1>0, <1>2, <1>3, <1>4, LifeDismisses DEF Apply, history
<1>5. CASE w = "black"
  <2>1. PICK s \in Sessions : s = req[r].session
    BY <1>0, WritingPlace
  <2>2. s \in leaving \cup Expired
    BY <1>0, <1>5, <2>1, CausesIssued DEF Cause, Expired
  <2>3. blackSess' = blackSess \cup {s}
    BY <1>0, <1>5, <2>1 DEF Apply
  <2>4. Asked' = Asked /\ Admitted' = Admitted
    BY <1>2, <1>3, AskedNext, AdmittedNext
  <2>5. Life!Ban(s)
    BY <1>0, <2>2, <2>3, <2>4, DatesStay DEF history, Life!Ban, Life!dates
  <2> QED BY <2>5 DEF Life!Next
<1> QED BY <1>4, <1>5

LEMMA NextLives ==
    ASSUME Typed, Barred, Causes, Leavers, (EndedStaysEnded /\ ExpiredIsRefused)',
           [Next]_vars
    PROVE  [Life!Next]_(Life!vars)
<1>1. ASSUME NEW r \in Requests, NEW w \in WriteOp, WriteFails(r, w) PROVE Life!Next
  BY <1>1, WriteFailsMoves, EndsLives DEF WriteFails, stores
<1>2. ASSUME NEW r \in Requests, QueryFails(r) PROVE Life!Next
  BY <1>2, QueryFailsMoves, EndsLives DEF Quiet, stores, history, Becomes
<1>3. CASE Crash
  <2>1. Asked' = {} /\ Admitted' = {}
    BY <1>3 DEF Crash, Asked, Admitted, Asking, IsIn, Idle
  <2>2. Life!Dismiss
    BY <1>3, <2>1, DatesStay DEF Crash, history, Life!Dismiss, Life!dates
  <2> QED BY <2>2 DEF Life!Next
<1>4. CASE Tick
  <2>1. Asked' = Asked /\ Admitted' = Admitted
    BY <1>4 DEF Tick, Asked, Admitted, Asking, InTime, IsIn
  <2>2. Life!Expire
    BY <1>4, <2>1, DatesPass DEF Tick, stores, history, Life!Expire
  <2> QED BY <2>2 DEF Life!Next
<1>5. CASE UNCHANGED vars
  <2>1. Asked' = Asked /\ Admitted' = Admitted /\ Expired' = Expired /\ Stale' = Stale
    BY <1>5 DEF vars, stores, history, Asked, Admitted, Asking, InTime, IsIn, Expired,
                Stale, IsExpired
  <2> QED BY <1>5, <2>1 DEF vars, stores, history, Life!vars, Life!dates
<1> QED BY <1>1, <1>2, <1>3, <1>4, <1>5, GenLives, CheckLives, LogoutLives, WriteLives
        DEF Next, WriteStep

\* The handlers, the stores and the clock take a session through the life
\* that module SessionLife describes, whatever overlaps, fails or restarts.
THEOREM SessionsImplementSessionLife == Spec => SessionLifeSpec
<1>1. Init => Life!Init
  BY DEF Init, Life!Init, Asked, Admitted, Asking, IsIn, Expired, Stale, Idle
<1>2. Init => Barred /\ Causes /\ Leavers
  BY DEF Init, Barred, Causes, Leavers, NoDoc, Idle, At
<1>3. Typed /\ Barred /\ Causes /\ Leavers /\ [Next]_vars => (Barred /\ Causes /\ Leavers)'
  BY NextBarred, NextCauses, NextLeavers
<1>4. /\ Typed /\ Barred /\ Causes /\ Leavers /\ [Next]_vars
      /\ (EndedStaysEnded /\ ExpiredIsRefused)'
      => [Life!Next]_(Life!vars)
  BY NextLives
<1> QED BY <1>1, <1>2, <1>3, <1>4, AlwaysTyped, SessionsEndedStaysEnded,
           SessionsExpiredIsRefused, PTL DEF Spec, SessionLifeSpec, Life!Spec
=============================================================================
