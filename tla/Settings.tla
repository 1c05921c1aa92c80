------------------------------ MODULE Settings ------------------------------
(***************************************************************************)
(* SettingsService: one document is meant to hold the settings.  The hook  *)
(* of a starting process, get and updateSetting all look for the first     *)
(* document and create it with the defaults if there is none; nothing      *)
(* makes it unique.                                                        *)
(***************************************************************************)
EXTENDS FiniteSets, Naturals, Sequences

CONSTANTS
    Hooks,          \* the onModuleInit of each process
    Calls,          \* slots for get and updateSetting
    Policies,       \* what an administrator may set
    Default         \* the values of the code, those of the schema included

Actors == Hooks \cup Calls

ASSUME SettingsAssumption ==
    /\ IsFiniteSet(Actors)
    /\ Hooks \cap Calls = {}

VARIABLES
    settings,       \* the settings collection, in natural order
    actor           \* where each actor is, and the document it got

settingVars == <<settings, actor>>

Policy == Policies \cup {Default}

Actor == [pc : {"idle", "find", "create", "update"},
          puts : BOOLEAN,           \* updateSetting
          doc : Nat]

NoActor == [pc |-> "idle", puts |-> FALSE, doc |-> 0]

Is(a, pc) == actor[a].pc = pc

SettingsInit ==
    /\ settings = <<>>
    /\ actor = [a \in Actors |-> NoActor]

StartActor(a, puts) ==
    /\ Is(a, "idle")
    /\ actor' = [actor EXCEPT ![a] = [NoActor EXCEPT !.pc = "find", !.puts = puts]]
    /\ UNCHANGED settings

\* get returns, or updateSetting goes on, with the document nr.
Got(a, nr) ==
    actor' = [actor EXCEPT ![a] = IF @.puts
                                  THEN [@ EXCEPT !.pc = "update", !.doc = nr]
                                  ELSE NoActor]

\* Mutant: the hook creates the defaults without looking.
FindNothing(a) ==
    /\ Is(a, "find")
    /\ actor' = [actor EXCEPT ![a].pc = "create"]
    /\ UNCHANGED settings

Find(a) ==
    /\ Is(a, "find")
    /\ IF settings # <<>> THEN Got(a, 1)
                          ELSE actor' = [actor EXCEPT ![a].pc = "create"]
    /\ UNCHANGED settings

CreateDefault(a) ==
    /\ Is(a, "create")
    /\ settings' = Append(settings, Default)
    /\ Got(a, Len(settings) + 1)

Update(a, v) ==
    /\ Is(a, "update")
    /\ settings' = [settings EXCEPT ![actor[a].doc] = v]
    /\ actor' = [actor EXCEPT ![a] = NoActor]

\* A query fails: the hook logs it, a call throws.
SettingsFail(a) ==
    /\ ~Is(a, "idle")
    /\ actor' = [actor EXCEPT ![a] = NoActor]
    /\ UNCHANGED settings

SettingsStep(a) ==
    \/ Find(a) \/ CreateDefault(a) \/ SettingsFail(a)
    \/ \E v \in Policies : Update(a, v)

----------------------------------------------------------------------------
(* Properties *)

SettingsTypeOK ==
    /\ settings \in Seq(Policy)
    /\ actor \in [Actors -> Actor]

\* The documents that races create stay fewer than the actors that can race
\* for the first one; neither restarts nor failures add to them.
SettingsBounded == Len(settings) <= Cardinality(Actors)
=============================================================================
