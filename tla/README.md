# pizza-back in TLA+

A verification project for the NestJS back end of a pizza delivery service: TLA+ modules of its
order life cycle, its dispatcher and route search, the shippers' sockets, its sessions, the throttled
logins with their distributed lock, the verification of emails and the start of the servers; the TLC runs
that check them on small instances, and TLAPS proofs of what holds on instances of every size. Paths below are relative to
the repository's `src/` directory.

## 1. The system

One Node process (several may run, sharing MongoDB, Redis and RabbitMQ). Node runs a handler from
one `await` to the next without interruption; between two awaits any other handler may run. That,
crashes, failing queries and redelivered messages are where the interesting behaviours come from.

| Component | State | Operations | Interacts with | Hard about it | What makes it correct |
|---|---|---|---|---|---|
| Orders, `services/cart.service.ts` | collection `carts` (status, shipperId, deliveryCoord) | createCart, acceptOrder, completeOrder (no route calls it yet), handleUpdateLocationShipper, queries | publishes NEW_ORDER_NOTIFY, emits ORDER_DELIVERING and SHIPPER_UPDATE_LOCATION; the dispatcher writes the same documents | every check is a query of its own, every write unconditional | limits overshot by no more than the concurrency; an order held only by a shipper who took it; a coordinate of a shipper concerned |
| Dispatcher, `services/delivery.service.ts` and the consumer in `services/queue.service.ts` | durable queue NEW_ORDER_NOTIFY, jobs under way, `shipperLocationsMap`, shippers' `status` | consume, wait for locations, choose the nearest, route, assign, count, mark, ack | reads and writes orders and users, emits ORDER_DECIDE_SHIPPER, calls the Overpass API | at-least-once delivery, swallowed errors, two seconds between load and write | no published order forgotten, handed out once in a life of the process, every message acknowledged |
| Routing, `handleCreateLocation`, `buildGraph`, `dijkstra` | local to a call | build the graph, search, walk back, measure | Overpass API | ties, zero lengths, gaps, an early exit that never happens | the path is a shortest way |
| Sessions, `services/session.service.ts`, strategies and guard | session documents, two caches with TTL, black lists in Redis | gen, delete, verifySession, verifyToken | auth, gateways | TTLs against expiry dates, writes of a `Promise.all` applied in any order, refilled caches | a session ended stays ended; a new token replaces the old one |
| Login and lock, `services/auth.service.ts`, `services/cache.service.ts` | `login_retry:` and `resend_otp:` counters, Redlock keys and their timers | login, resendVerifyEmail, withLock | Redis, clock, settings | a lease outlived by its holder, a timer that stops silently, a counter written back whole | attempts counted one at a time, a limit that locks out, locks that are freed |
| Registration and codes, `services/auth.service.ts`, mail consumer | users, `verify:` codes, queue SEND_VERIFY_EMAIL | register, verifyOtp, resendVerifyEmail, consumeSendVerifyEmail | queue, mail service | mails reordered or repeated, a code replaced while it is checked, failures between the writes | the code stored last works until the user is verified, and is mailed |
| Shipper gateway and cron, `gateways/shipper.gateway.ts`, `services/cron.service.ts` | map of sockets, socket rooms, both in memory | connection, disconnection, ORDER_DELIVERING, location reports | CartService, EventEmitter | a connection awaits a query before it joins, an accept announces before it saves | who delivers an order hears of it, nobody else does |
| Settings, `services/setting.service.ts` | the settings collection | create if missing, get, update | logins and resends read it | check-then-create by hooks and calls | the documents stay few |
| Seeding, `services/seed.service.ts` | stores, categories, customizations, menus | onModuleInit, four lists in order | Settings' hook, run side by side | several servers start at once, die half-way, start again | the data is there, complete, and refers back |
| Users, menu, store, pizza, client gateway, infrastructure | read-only or not registered in `app.module.ts` | single queries | | | |

## 2. Modules

```
Collections <- Carts <- Dispatch        Lock <- Attempts -> Throttle (abstract)
               | ^----- Rooms           Sessions -> SessionLife (abstract)
               `-> OrderLife (abstract) Routing     Verification
                                        Seeding, Settings <- Startup
```

Each of Carts, Dispatch, Rooms, Routing, Sessions, Attempts, Verification and Startup has a module
`MC_...` with its instances for TLC and a module `..._proofs` with its theorems.

**Collections** holds what outlives a handler: `carts`, `userStatus` (the status of the shippers'
documents) and `queue`. A query or a `findOneAndUpdate` is one atomic step; operators named for the
queries (`CartsOf`, `DeliveringOrders`, ...) return what they match. A filter on `state` matches
every document, since the schema's field is `status`: this is why `CartsOf(u)` is what createCart
counts. Items, prices, paths and distances are left out, no guard reads them; a coordinate is
abstracted to whose place it is, which is what the properties are about.

**Carts** is CartService. A handler is a sequence of steps, one for each query it awaits. `req[r]` is
the handler being served in slot `r`: where it is suspended (`pc`) and what it holds in its local
variables (`who`, `order`). The steps carry the names of the code:

| Handler | Steps |
|---|---|
| createCart | `CreateCheck` (limit), `CreateNotFound`, `CreateInsert`, `CreatePublish` |
| acceptOrder | `AcceptCheck`, `AcceptLoad` (with the event, which is emitted before the save), `AcceptRefused`, `AcceptSave` |
| completeOrder | `CompleteLoad`, `CompleteMark`, `CompleteSave` |
| handleUpdateLocationShipper | `MoveLoad`, `MoveSave` |

A request refused by its first query changes nothing and is left out; `RequestFails` is a query that
fails at any later await, `Crash` the end of the process. DeliveryService is the environment: it may
assign any order to any shipper, mark any shipper and take any message, at any time. `announced` and
`assigned` are history variables (the events emitted, the assignments made with the status they
found); the code has no such state and no guard reads them.

**OrderLife** is what these handlers promise of an order, each promise in one step: it is placed once
(`Place`), promised by a shipper only while it is CREATED (`Promise`), the promise is kept once or not at
all (`Keep`, `Withdraw`), it is DONE only after it was on its way (`Finish`), it may be given to anyone at
any time (`Give`), and only those who promised or were given it report where it is (`Report`).
`OrderLifeSpec` says that Carts implements it: the orders are the collection, a promise is a request of
acceptOrder between its announcement and its save, who has to do with an order is read off `announced` and
`assigned`. A promise kept late, after the order was given away or delivered by another, is allowed, since
this is what the code does.

**Dispatch** adds the dispatcher in detail, on the same collections and in the same process as the
handlers of Carts: the consumer, the job of each message (`jobs[o]`), the in-memory location map, the
acknowledgement, and redelivery after a crash. The consumer has no prefetch limit, so jobs run
concurrently. A job that fails ends in `ack`, because requestShipperLocations catches everything:
the `nack` of the consumer is only for a message that is not JSON, and nobody sends one. Geometry is
left out: any shipper may be the nearest. `CartsSpec` says that it implements module Carts.

**Rooms** is ShipperGateway on the same collections and handlers. A connection is a slot of `socket`:
`Connect` (the middleware has let it in, so it is in the gateway's map), `FindCurrentOrder` (the query
of handleConnection), `JoinRooms`, `Disconnect`. `AcceptAndJoin` is acceptOrder's step that emits
ORDER_DELIVERING together with the listener that joins the sockets, which runs inside `emit`;
`MoveFromSocket` is a location reported through a socket. Without a current order handleConnection
throws at its log line and its promise is rejected; nobody handles that and Node ends the process
(`ConnectionFails`, a crash of all slots). `before` is history.

**Routing** follows one call of handleCreateLocation: the answer of the map service (any nodes, any
of the ways, any lengths), the graph, the turns of dijkstra's loop, the walk back along `prev`, the
total distance. The relaxation of all neighbours is one step, since nothing can come in between. The
order in which Object.keys yields equally close nodes is left open. `TurnsLeft` counts the nodes in
pq, those not on the path yet and the loops to leave; `NoTurnInVain` says that each turn takes one off.

**Sessions** is SessionService with its callers. A session is a MongoDB document (`docs`), a cache
entry (`cache`), and its token in three Redis keys or sets: `token` (the user's latest),
`blackTok` (`blacklist-token:`, read by the HTTP strategy) and `blackAccess` (read by verifyToken);
`blackSess` is the set of session ids that verifySession refuses. Slots are as in Carts; `todo` is
the part of a `Promise.all` that has not taken effect yet, in any order, and `held` the date or TTL a
handler has computed.

| Handler | Steps |
|---|---|
| gen (login, register) | `GenBegin`, `GenRead` (the token to replace), `GenBlacklist`, the writes, `GenReturn` |
| delete (logout) | a check, `LogoutBegin`, the writes (`DeleteWrites`), `LogoutReturn` |
| verifySession, from the HTTP strategy or verifyToken | `HttpCheck` or `SocketCheck`, `CheckBlack`, `CheckCache`, `CheckLoad`, `CheckStore` or the writes and `Refuse`, `Answer` |

A logout blacklists the session and not the token: delete would (`session.service.ts:191`), but the token it
is handed is `request.token` (`current-token.decorator.ts:7`), which nothing sets. The token of an ended
session therefore passes verifyToken's look at `blackAccess`, a `SocketCheck` of it does begin, and over
the socket as over HTTP only `blackSess` refuses it.

`Write` applies one write; `WriteFails` rejects the `Promise.all`, and the other writes go on in a
handler that has thrown (`rejected`), whose lock is released. `QueryFails` is a query that rejects;
verifyToken answers every error by blacklisting the token (`Catch`). `SocketCheck` starts at
verifyToken: the gateway's middleware looks `blackTok` up before, reports what it finds to `next`, and
goes on either way. The lock of login is taken to exclude while it is held (what that rests on is shown
by Attempts); register has no lock, and its gen is taken to be over before the first login of
the new user, who must verify his address first. `Crash` clears the cache or not, as it is in memory
or in Redis by configuration; Redis and MongoDB survive. Time is in days, the unit of the settings:
`Tick` waits for requests that are older than `Latency`, and a TTL is kept as the day it ends, with
the factor of 1000 that line 150 makes of the token's (`TokenDays`). `born`, `issued`, `leaving`,
`ended`, `failedGens` and the field `late` of a request (what was over when the check began) are
history.

**SessionLife** is what is promised of a session, however it is stored: given once (`Give`), asked for
(`Ask`) only before its logout was confirmed and, but for the time a request takes, before its date;
entered (`Admit`) only by who asked in time; left and closed (`Leave`, `Close`) only by who is in, and
closed only once it is banned; banned for good (`Ban`) only by a logout or its date. `SessionLifeSpec`
says that Sessions implements it: a session is given when gen returns, who has asked is a check under way
that was not late when it began, who is in is a request that was accepted or logs out, the banned sessions
are `blackSess`, and the dates are those of the documents; the date counts only when
`AccessDays <= RefreshDays`. All black lists, cache entries, deletions and rejected writes are
stuttering steps there, or a `Ban`. That who asks in time is admitted is not promised.

**Lock** is `withLock` of CacheDomain: `Acquire` sets the key to the handler's value and starts the
timer (`renewed`), `ExtendFails` is the extension that fails and stops it, for whatever reason,
`Lapse` the end of the ttl of a key nobody renews, `Release` the `finally`: the interval is cleared
first, and the deletion, whose error is only logged, may not happen. Extensions that succeed change
nothing here.

**Attempts** is login and resendVerifyEmail from the lock on, under a clock.

| Code | Steps |
|---|---|
| `withLock(...)` | `Begin`, `Enter`, `CannotEnter` (Redlock gives up), `Leave` |
| read the counter, compare `lockedUntil` with the clock | `Read` |
| compare the password, or store and mail a code | `AttemptCounts`, `PasswordRight` |
| write the counter back, or delete it | `Count`, `Clear` |
| `sessionService.gen` (in detail in Sessions) | `OpenSession` |

The counter is a value read and written whole (`retry`), kept with the moment it lapses (`gone`), which
is counted from the write while `lockedUntil` is counted from the read. `Fail` is a query that fails in
the callback, `Crash` the end of a process, whose lock stays until it lapses. `streak` and `lost` are
history: the attempts since the counter was last 0, and those that a failure left uncounted.

**Throttle** is what this promises: one step counts an attempt, locks the key out or clears it, none
does anything while it is locked out. `ThrottleSpec` maps the stored counter, its expiry and a lock-out
that is not over onto it. After a failed extension (`disturbed`) nothing is promised: the handler that
lost its lock goes on, and overwrites what others count, a lock-out even.

**Verification** is register, verifyOtp, resendVerifyEmail and the consumer of SEND_VERIFY_EMAIL.

| Handler | Steps |
|---|---|
| register | `Register` (nobody has the email), `Create` (unless the unique index refuses), `Store`, `Publish` |
| resendVerifyEmail | `Resend`, `Store`, `Publish`; its lock and counter are in Attempts |
| verifyOtp | `Verify` (the code is the stored one), `Find`, `Mark`, `Forget` |
| consumeSendVerifyEmail | `Deliver`, `Send` or `SendFails` (nack with requeue), `Ack` |

Mails are sent in any order and again after a crash, so the queue and the inbox are sets. A code may be
drawn twice. `latest` and `dropped` are history: the last code stored that has not expired, and the
mails a handler failed to publish.

**Seeding**, **Settings** and **Startup** are what a server does before it listens. NestJS runs the
hooks of SeedService and SettingsService side by side; `Startup` starts processes, lets any of them die
and start again, and serves calls of get and updateSetting once one is up. In Seeding a process looks a
name up (`Check`), creates it (`Create`), and for a menu finds its category and customizations
(`FindCategory`, `FindCustomization`), creates it (`CreateMenu`) and pushes it onto the list of each
customization as it was loaded before (`Link`). Documents of one name are numbered, and findOne
returns the first. Settings keeps the documents in natural order and each actor's place in
find-then-create (`Find`, `CreateDefault`, `Update`). `abandoned` and `overlapped` are history: the links
that processes had still to make when they died, and whether two processes ever held loaded lists at the same
time. `BackReferencesComplete` rules out every other way of losing a link: a start that dies takes with it
only its own unfinished links, and what restarts and later menus write back loses none. Once two
processes have overlapped there, it promises nothing, as the code then overwrites one's link by the other's
list (`seed.service.ts:102`).

## 3. Runs

| Run | Instance | Shows |
|---|---|---|
| carts_orders | 3 orders, 1 customer, 2 shippers, 2 slots, limit 1, 1 assignment by the dispatcher, 1 crash | Carts implements OrderLife (`OrderLifeSpec`); `LimitOvershootBounded`: concurrent creates exceed the limit by less than the number of slots; `DeliveriesBounded`, `HeldOrdersAnnounced`, `CoordOfAnInvolvedShipper` |
| dispatch | 1 order, 2 shippers, 1 slot, 1 crash | `NoOrderForgotten`, `AssignmentsBounded`; Dispatch implements Carts (`CartsSpec`); `EveryMessageAcked` |
| rooms | 2 orders, 2 shippers, 1 slot, 2 sockets, 2 orders announced or assigned, 1 crash | `RoomsOfInvolvedShippers`, `DeliveriesHeard` |
| routing | 4 nodes, 4 ways of which any subset, lengths 0, 1, 3 | `PathIsShortest` against the enumeration of all simple paths, `SettledNodesKeepTheirDistance`, `NoTurnInVain`, `RouteEnds` |
| sessions | 2 sessions of 1 user, 2 slots, access 1 day, refresh 2 days, latency 1 day | Sessions implements SessionLife (`SessionLifeSpec`); `EndedStaysEnded`, `ExpiredIsRefused`, `BlacklistedForCause`, `OneCurrentToken` |
| attempts | 1 key, 2 slots, limit 2, time-out 2, latency 1, clock to 4, 1 failed extension, 1 lost count | Attempts implements Throttle (`ThrottleSpec`); `ExclusiveWhileRenewed`, `StreakBounded`, `LocksFreed` |
| verification | 1 email, 2 codes, 2 slots, 1 crash | `CodeUsableUntilVerified`, `StoredCodeIsMailed`, `EveryMailSent` |
| startup | 2 processes, 3 starts, 1 call, 1 store, 1 category, 1 customization, 2 menus | `DuplicatesBounded`, `BackReferencesSound`, `SeededMenusComplete`, `BackReferencesComplete`, `SettingsBounded` |
| carts_refused, carts_accepted, dispatch_acked, rooms_idle | 1 to 3 orders, 1 or 2 slots | violated: see section 6 |

Bounds. Two slots are enough for every pair of handlers to interleave in every way, and for a limit of 1
to be overshot; two shippers are enough for an order to change hands. The ids of a collection are
finite, the starts and the clock are bounded, so a run may come to an end the system does not have:
the runs say CHECK_DEADLOCK FALSE for this, and routing because a call ends. `MaxAssigns`, `MaxTaken`
(constraints), `MaxCrashes`, `MaxFaults`, `MaxLost` and `MaxStarts` bound the environment. The run
carts_orders uses the VIEW `WhatCartServiceReads`, rooms the VIEW `WhatIsRead`: the queue and the
shippers' status are written by these handlers and never read, and no property there mentions them. The
proofs of section 5 need none of these bounds.

attempts has one key: handlers of different keys share nothing. The key is a login's, since a resend
does what a login with a wrong password does. Four ticks are enough for a lock-out, its end and the
next round to begin, and a latency of 1 puts a tick between any two steps of a handler. In verification
two codes make a resend replace a code while another handler checks or mails it; accounts and codes of
different emails share nothing. In startup two processes overlap and the third start is the one that
finds a half-linked catalogue; the constraint `HookFirst` does a process's settings hook before
its seeding, since the two touch no common data.

The run sessions counts days by its VIEW: two states with the same days left are one, so the clock
(`MaxDay`) ends no behaviour before everything in it has expired. Two slots let a check overlap a
logout, another check or a gen of the same session, and two logins overlap; two sessions are what a
replacement needs. The constraint `ChecksRunAlone` keeps the rest small: once there are two sessions,
checks and logouts do not overlap with anything, while logins still do. The proofs have no such
constraint.

The type invariant of each module is checked along. Every property has a mutant of a mapped
definition (a limit off by one, a dropped check, an early acknowledgement, a swapped comparison ...)
under which TLC finds it violated.

## 4. Fairness

Only `EveryMessageAcked`, `RouteEnds`, `LocksFreed` and `EveryMailSent` need it.

- `WF(Consume(o))`: RabbitMQ hands a ready message to a connected consumer; the consumer connects in
  `onModuleInit`, and the queue has no other one.
- `WF(~JobAt(o, "route") /\ JobStep(o))`: Node resumes a handler once its query is answered or
  rejected, and its timer of two seconds fires. The request to the Overpass API is excepted: axios
  has no timeout there, so nothing in the code makes it end, and `EveryMessageAcked` says so
  (`\/ []JobAt(o, "route")`).
- Crashes are bounded: a process that crashes for ever does no work.
- No fairness is assumed of customers, shippers or CartService.
- Routing: `WF` of the steps after the answer; they run without an await.
- Attempts: `WF(Step(r))`: what a handler awaits (Redis, MongoDB, bcrypt) is answered or fails, and
  Redlock gives up after its last retry. `WF(Lapse(k))`: Redis removes a key whose ttl is over. Nothing
  is assumed of the timer.
- Verification: `WF(Deliver(m))`: the broker delivers to a connected consumer. `SF(Send(m))`: a mail
  that is requeued and tried again and again is once sent. This is an assumption about SES and the
  template file that loadTemplate reads (`mail.service.ts:27`); `EveryMailSent` then says that requeueing, redelivery and crashes lose none.

## 5. What is proved

For every set of orders, customers, shippers and slots and all bounds (assumptions
`CollectionsAssumption`, `CartsAssumption`, `DispatchAssumption`, and their like in the other modules: the
sets that are counted are finite, `Null` is no id, the limits are naturals, the seed data refers to
names it has, a handler does not last as long as a lock-out):

- `TypeCorrect`, from `Typed`: the type invariant and what each `pc` says of `who` and `order`,
  without which a save could write a value of the wrong kind.
- `HeldOrdersAreAnnounced` and `CoordsAreOfInvolvedShippers`. The invariant adds `Known`: a request
  past its check remembers something that was true and that history keeps true (the announcement was
  made; the mover was the shipper of the order). It is needed because the saves rest on it and not on
  the document they write.
- `LimitOvershootIsBounded`, `DeliveriesAreBounded`: counting arguments. A request past its check is
  counted with the documents it is going to write; the check is the only step that increases the
  count and is only taken below the bound. The part of the induction that is not immediate is what
  each step does to the cardinalities.
- `CartsImplementOrderLife`: every step of Carts is a step of the abstract life or a stutter. It rests on
  `Typed` and `Known`: a save keeps the promise its own check made, whatever the order has become, and
  `Known` says that the mover of a report has to do with the order still.
- `DispatchImplementsCarts`: every step of Dispatch is a step of Carts or leaves its variables alone,
  so `DispatchKeepsTheBounds` and `DispatchImplementsOrderLife` follow without a new proof.
- `OrdersAreNotForgotten`: from `DInv`, which says what the place of a job implies (past the
  assignment the order has a shipper, an acknowledged job has a result).
- `AssignmentsAreBounded`: from `Budget`: the assignments made, plus one for a message still to be
  handled, are at most the crashes plus one.
- Routing, for every road map with natural lengths: `RoutingTypeCorrect`; `SettledNodesAreFinal`,
  `SearchIsCertified` from `SearchInv` (nodes in pq are no closer than nodes taken from it, roads from
  nodes taken are relaxed, every distance is explained by `prev`); `DistancesAreShortest`: a function
  that is 0 at the start and that no road exceeds, such as the true distance, is nowhere below the
  distances found; `PathHasNoLoop`: there is a rank, the order in which nodes left pq, that falls
  along `prev`. `PathsAreShortest` from `PathInv`: the path is what `prev` has
  before it, back from the customer, and a node with a `prev` has a distance. Along any way from the store,
  the distance found of a node is no more than the way so far; along the path it is exactly that. These are
  inductions over the length of a way, each done for the one statement it is about, from
  `InductionOnNat`: a set of naturals with 0 and the successors of its members has all of them. It
  follows from what the library says of finite sets (`LeastElement`).
  `TurnsAreBounded`: `TurnsLeft` is a natural number that every turn decreases. This is what can be
  proved of `RouteEnds`: fairness is left to add.

- Sessions, for any sessions, users, slots, settings, latency and any length of time. All rest on
  `Typed` (`SessionsTypeCorrect`), which adds to the types what the place of a handler says of its
  variables (`Shape`) and of the session it has (`Known`): ids are given once, a session handed out
  has its document, and a gen that has written it wrote its own user and date. The lemmas `...Slot`
  reduce a step to the fields of the slot it changes; `CheckMoves` gives the outcomes of a check once
  for all invariants.
  - `SessionsEndedStaysEnded` from `Barred`: what logout confirmed is on the black list, and a check
    that began later is before its look at the black list or has been rejected. The cache is not
    mentioned: nothing that is written back to it matters.
  - `SessionsBlacklistedForCause` from `Causes`: also marks of deletion and the writes under way have
    a cause, and causes last.
  - `SessionsExpiredIsRefused` from `Dated`: an entry of the cache ends at most a latency after the
    document's date, because gen's entry ends with the access setting and verifySession's with the
    date it loaded. It needs `AccessDays <= RefreshDays`, which the theorem states as a premise: nothing
    in the code forces it on the settings.
  - `SessionsImplementSessionLife` from `Typed`, `Barred`, `Causes` and `Leavers` (who is past the beginning
    of a logout has left its mark in `leaving`). That a check which is answered yes had asked in time is
    `EndedStaysEnded` and `ExpiredIsRefused` of the state the step leads to. When days pass, sessions expire and nothing
    else: the date of a document never changes.
  - `SessionsOneCurrentToken` from `Replaced`: a current token is the one in `user:...:access_token`,
    and stays there past its date (`RefreshDays < TokenDays`, the factor of 1000); in a gen past
    its read there is none, and no other gen of the user runs.

- Rooms: `RoomsImplementCarts`: a step of the gateway leaves the variables of Carts alone or is a crash,
  so that what is proved of Carts holds (`RoomsKeepTheBounds`). `RoomsAreOfInvolvedShippers`
  and `DeliveriesAreHeard` from `RInv`: a room is of an order its socket's shipper was given, what handleConnection found he was
  given too, and a socket is in the room of everything announced to its shipper since it came. The
  last part is what makes the two orders of accept and connection both right: the announcement comes
  before the save, and the map has the socket before the query.
- Attempts: `LockExcludes` from `AllHeld`: until an extension fails, who is in the callback of a key
  has its lock and its timer runs. `AttemptsImplementThrottle` adds `Fresh`: what a handler read is what
  is stored, or was until its key lapsed. This is why Throttle's `Counted` may jump ahead: a count
  forgotten while the attempt was under way is written back. `Latency < Timeout` (an assumption) keeps
  a lock-out from being over when it is written. `StreaksAreBounded` from `SInv`, which counts across
  failed extensions: a handler that goes on without its lock is one of the extensions that failed, and
  that failure is spent when the handler has written or given up. What the stored counter does not show of a streak are the
  attempts still to be counted, those lost, and a round of `Limit` for each failure spent.
- Verification: `CodesStayUsable` from `Usable`: a request that is to forget a code has its account
  verified, and no account stops being verified. `StoredCodesAreMailed` from `Somewhere`: no step
  takes a mail away from where it is without putting it into the next place.
- Startup: all from `StartupInv`. `SeedInv` says of each process that the names it has gone past are
  there and what it remembers is in the catalogue, and of the catalogue that every menu has what the
  data gives it: the lists before the menus are done when the first one is created. It yields
  `BackReferencesAreSound` and `SeededMenusAreComplete`. `BackReferencesAreComplete` adds `LinksInv`: until two
  processes overlap, only one holds lists, the lists it holds are those stored, and a menu missing in
  the list of one of its customizations is about to be pushed there or was when its process died. `DuplicatesAreBounded` and
  `SettingsAreBounded` are one counting argument (lemma `RaceStep`): those who looked and found nothing, plus what they
  have made, never exceed those who can look, for nobody joins them once there is one.

Every invariant and every action property a run checks is proved, and so are the four refinements.
`Certificate` and `NoLoopInPath` of Routing are only proved: in a run they say nothing that
`PathIsShortest` and `NoTurnInVain` would not find. Only model-checked are the liveness properties,
`EveryMessageAcked`, `RouteEnds`, `LocksFreed` and `EveryMailSent`: fairness and ENABLED are out of the
prover's reach. The violations of section 6 are TLC's counterexamples.

## 6. Where the code departs from what it says

| Run | The code says | It does |
|---|---|---|
| carts_refused | at most 3 *unfinished* orders (`cart.service.ts:58`) | filters on `state`, so finished orders count too |
| carts_accepted | only a CREATED order can be accepted (`cart.service.ts:158`) | the save is unconditional |
| dispatch_acked | 'Failed to send order:' and requeue (`queue.service.ts:87-88`) | errors are swallowed and the message is acknowledged |
| rooms_idle | `if (!isNil(currentOrder))` (`shipper.gateway.ts:51`) | line 48 reads its `_id` before, so a shipper without an order ends the process |

What does hold in these places is stated by the passing properties: the overshoot of both limits is
bounded, an order that has no shipper is in the queue, in work, or failed, and a shipper with an order
hears of what he delivers.

Met on the way, and shown by no run of its own:

- 'finish the current order first' (`cart.service.ts:149`): two concurrent accepts both pass; how many
  can is `DeliveriesBounded`.
- Pending shipments with shipperId=null and status=CREATED (`cart.controller.ts:115`): the query returns
  the caller's own orders, in any status.
- 'km to store' (`delivery.service.ts:286`): after a redelivery the way starts at the place of the shipper
  who was assigned first.
- `menus: []`, to be linked once the menus are seeded (`seed/store.seed.ts:6`): nothing links them, so
  MenuService.getMenu finds no store of a menu.
- 'Logout and revoke the token' (`auth.controller.ts:93`): logout puts the token on no black list, for nothing
  sets `request.token`, which it passes on to delete (`auth.service.ts:178`). What makes the token useless
  all the same is that its session is refused (`EndedStaysEnded`).
- Too many requests answered with 429 (`auth.controller.ts:61`): the exception thrown is a 400.
- The retry settings of Redlock are read from `redis_lock.*`, and the configuration has `redisLock`: a
  waiting handler gives up as Redlock does without them (`CannotEnter`, at any time).
- When a race has created a second settings document, an update may go to it and reach no reader: all of
  them take the first.

## 7. Not modelled, and limits of the model

- `sendToQueue` is taken to reach the broker: the channel has no confirms, so a crash may lose a
  message that `CreatePublish` or `Publish` has published. `NoOrderForgotten` and `EveryMailSent` speak of
  messages in the queue. A crash between the insert and the publish is in the model: such an order is
  never dispatched, by the design of the code, and no property claims otherwise.
- Coordinates, distances in metres, prices and items; the choice of the nearest shipper by haversine.
- Several processes: slots are the same for one or more processes; the location map, the rooms and a
  crash are those of one. Startup has several.
- Sessions: the refresh cache and the set of a user's sessions, which no route reads;
  storeUserAccessToken, which nothing calls; a TTL of 0 in the millisecond of a session's date; a lock
  of login that its lease ends while gen is under way. A token counts as replaced once it has been
  blacklisted; the entry lasts the access setting, and what a replaced token may do after that is
  not claimed.
- An order accepted while the dispatcher waits is assigned all the same, and its new shipper told of a
  new order: in the model, and no property claims otherwise.
- The status ENOUGH of a shipper is written from a count that may be old; the query meant to read it
  filters on a field that does not exist, so nothing depends on it.
- `MarkShipper` (`delivery.service.ts:323-332`) and `CompleteMark` (`cart.service.ts:188-193`) are one write
  of the shipper's status. The code finds the user and saves the whole document, so that it may also
  write an old `isVerified` or status back. Shippers are seeded verified and no property reads a status, so
  nothing that is claimed depends on it.
- The gateway: messages to the rooms of a token or of a shipper, and what the cron job asks the rooms,
  change no state. What handleConnection still does to a socket that has closed meanwhile reaches nobody.
- withLockNoRetry and createEmptySet, and the queries of UserService that nothing calls.
- Menu, store and pizza catalogue: single read-only queries. The client gateway is not registered in
  `app.module.ts`. Infrastructure (configuration, decorators, pipes, filters, swagger): no state.

## 8. Plan

What is left, in this order:

1. Attempts composed with Sessions: a gen that has outlived the lock of its login, and what
   `OneCurrentToken` is worth then.
2. An abstract life of an account and its code that Verification implements, as there is for orders,
   sessions and attempts.
3. Properties for the hazards that have none yet: an order inserted and not published
   (`cart.service.ts:115`), a replaced token past its entry in the black list (`session.service.ts:69`), a
   session ended by a query that failed (`session.service.ts:313`). In each the code does what it must not,
   and no line says otherwise: they wait for a statement of what is meant.
