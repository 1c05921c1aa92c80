------------------------------ MODULE Startup -------------------------------
(***************************************************************************)
(* The start of the servers: NestJS runs the onModuleInit of SeedService   *)
(* and of SettingsService side by side, and listens when both are done.    *)
(* Several servers may start on one database, die and start again.  The    *)
(* hook of QueuesService is in modules Dispatch and Verification.          *)
(***************************************************************************)
EXTENDS Seeding, Settings

CONSTANT MaxStarts          \* bound on the starts of all processes

ASSUME StartupAssumption == MaxStarts \in Nat /\ Hooks = Processes

VARIABLE starts

vars == <<seedVars, settingVars, starts>>

Serving(p) == Seeded(p) /\ Is(p, "idle")

Init == SeedInit /\ SettingsInit /\ starts = 0

Start(p) ==
    /\ starts < MaxStarts
    /\ seed[p].stage = 0
    /\ StartSeeding(p)
    /\ StartActor(p, FALSE)
    /\ starts' = starts + 1

\* Nothing of a process that dies goes on; a call is lost with any process.
Die(p) ==
    /\ seed[p].stage # 0
    /\ StopSeeding(p)
    /\ actor' = [actor EXCEPT ![p] = NoActor]
    /\ UNCHANGED <<settings, starts>>

Seeds(p) == SeedStep(p) /\ UNCHANGED <<settingVars, starts>>

UsesSettings(a) == SettingsStep(a) /\ UNCHANGED <<seedVars, starts>>

\* GET and PUT admin/settings, and every login and resend.
Call(a, puts) ==
    /\ a \in Calls
    /\ \E p \in Processes : Serving(p)
    /\ StartActor(a, puts)
    /\ UNCHANGED <<seedVars, starts>>

Next ==
    \/ \E p \in Processes : Start(p) \/ Die(p) \/ Seeds(p)
    \/ \E a \in Actors : UsesSettings(a)
    \/ \E a \in Calls, puts \in BOOLEAN : Call(a, puts)

Spec == Init /\ [][Next]_vars

\* Each state variable of the two services is of its type.
TypeOK == SeedTypeOK /\ SettingsTypeOK /\ starts \in Nat
=============================================================================
