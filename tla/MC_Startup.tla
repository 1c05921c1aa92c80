----------------------------- MODULE MC_Startup -----------------------------
(***************************************************************************)
(* Instances of Startup for TLC.                                           *)
(***************************************************************************)
EXTENDS Startup, TLC

CONSTANTS g1, k1

\* Every menu is of the one category and lists the one customization.
InG1 == [m \in Menus |-> g1]
WithK1 == [m \in Menus |-> {k1}]

\* SeedService and SettingsService share no data, so the order of their
\* steps makes no difference: the hook of the settings is done first.
HookFirst == \A p \in Processes : ~Is(p, "idle") => seed[p].stage <= 1

Symmetry == Permutations(Processes) \cup Permutations(Menus)
=============================================================================
