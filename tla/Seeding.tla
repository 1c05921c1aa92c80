------------------------------ MODULE Seeding -------------------------------
(***************************************************************************)
(* SeedService: what a process does to the catalogue when it starts.  It   *)
(* goes through the stores, the categories, the customizations and the     *)
(* menus of its data, looks each name up and creates what is not there; a  *)
(* new menu is then pushed into the customizations it lists.               *)
(*                                                                         *)
(* Documents of one name are numbered in the order of their creation, and  *)
(* findOne returns the first.  The order of the names inside a list is     *)
(* left open.  The stores have no step more: their menus, empty in the     *)
(* data, are never filled.                                                 *)
(***************************************************************************)
EXTENDS FiniteSets, Naturals

CONSTANTS
    Processes,      \* servers that start on the same database
    Stores, Categories, Customizations, Menus,      \* the names in the data
    CategoryOf,     \* the category_name of a menu
    Offers,         \* the customizations of a menu
    Null

Names == Stores \cup Categories \cup Customizations \cup Menus

\* What the data keeps to: a menu names a category and customizations that
\* are in their lists.
DataConsistent ==
    /\ CategoryOf \in [Menus -> Categories]
    /\ Offers \in [Menus -> SUBSET Customizations]

ASSUME SeedingAssumption ==
    /\ IsFiniteSet(Processes)
    /\ DataConsistent
    /\ Null \notin Names
    /\ Categories \cap (Stores \cup Customizations \cup Menus) = {}
    /\ Customizations \cap (Stores \cup Menus) = {}
    /\ Stores \cap Menus = {}

VARIABLES
    copies,         \* how many documents have a name
    menuDocs,       \* the menus collection
    back,           \* the field menus of the first document of a customization
    seed,           \* where each process is
    abandoned,      \* links a process that died had still to make
    overlapped      \* two processes held lists of customizations at once

catalogue == <<copies, menuDocs, back>>
linkHistory == <<abandoned, overlapped>>
seedVars == <<catalogue, seed, linkHistory>>

MenuId == Menus \X Nat
MenuDoc == [id : MenuId, category : Categories, lists : SUBSET Customizations]

Seed == [stage : 0 .. 5,            \* 0: not running, 5: finished
         pc : {"check", "create", "category", "find", "link"},
         todo : SUBSET Names,       \* what is left of the list
         name : Names \cup {Null},
         wanted : SUBSET Customizations,
         found : SUBSET Customizations,
         loaded : [Customizations -> SUBSET MenuId],
         doc : MenuId \cup {Null}]

Off == [stage |-> 0, pc |-> "check", todo |-> {}, name |-> Null, wanted |-> {},
        found |-> {}, loaded |-> [k \in Customizations |-> {}], doc |-> Null]

\* Mutant: the menus come before what they refer to.
MenusFirst(i) ==
    CASE i = 1 -> Stores
      [] i = 2 -> Menus
      [] i = 3 -> Categories \cup Customizations
      [] OTHER -> {}

ListOf(i) ==
    CASE i = 1 -> Stores
      [] i = 2 -> Categories
      [] i = 3 -> Customizations
      [] i = 4 -> Menus
      [] OTHER -> {}

Running(p) == seed[p].stage \in 1 .. 4
Seeded(p) == seed[p].stage = 5
Doing(p, pc) == Running(p) /\ seed[p].pc = pc

\* From the look-up of a menu's customizations to the last of its links.
HoldsLists(p) == Doing(p, "find") \/ Doing(p, "link")

\* The links p is still to make.
ToLink(p) == IF Doing(p, "link") THEN {seed[p].doc} \X seed[p].found ELSE {}

SeedInit ==
    /\ copies = [n \in Names |-> 0]
    /\ menuDocs = {}
    /\ back = [k \in Customizations |-> {}]
    /\ seed = [p \in Processes |-> Off]
    /\ abandoned = {}
    /\ overlapped = FALSE

StartSeeding(p) ==
    /\ seed' = [seed EXCEPT ![p] = [Off EXCEPT !.stage = 1, !.todo = ListOf(1)]]
    /\ UNCHANGED <<catalogue, linkHistory>>

NextList(p) ==
    /\ Doing(p, "check")
    /\ seed[p].todo = {}
    /\ LET i == seed[p].stage + 1
       IN  seed' = [seed EXCEPT ![p].stage = i, ![p].todo = ListOf(i)]
    /\ UNCHANGED <<catalogue, linkHistory>>

\* Done with the name n.
Past(p, n) ==
    seed' = [seed EXCEPT ![p].pc = "check", ![p].todo = @ \ {n}, ![p].name = Null,
                         ![p].found = {}, ![p].doc = Null,
                         ![p].loaded = [k \in Customizations |-> {}]]

\* Mutant: every start creates the documents again.
CheckNothing(p, n) ==
    /\ Doing(p, "check")
    /\ n \in seed[p].todo
    /\ seed' = [seed EXCEPT ![p].name = n,
                            ![p].pc = IF n \in Menus THEN "category" ELSE "create"]
    /\ UNCHANGED <<catalogue, linkHistory>>

Check(p, n) ==
    /\ Doing(p, "check")
    /\ n \in seed[p].todo
    /\ IF copies[n] > 0
       THEN Past(p, n)
       ELSE seed' = [seed EXCEPT ![p].name = n,
                                 ![p].pc = IF n \in Menus THEN "category"
                                                          ELSE "create"]
    /\ UNCHANGED <<catalogue, linkHistory>>

\* A store, a category or a customization.
Create(p) ==
    LET n == seed[p].name
    IN  /\ Doing(p, "create")
        /\ copies' = [copies EXCEPT ![n] = @ + 1]
        /\ Past(p, n)
        /\ UNCHANGED <<menuDocs, back, linkHistory>>

FindCategory(p) ==
    LET m == seed[p].name
    IN  /\ Doing(p, "category")
        /\ IF copies[CategoryOf[m]] > 0
           THEN /\ seed' = [seed EXCEPT ![p].pc = "find", ![p].wanted = Offers[m]]
                /\ overlapped' =
                      (overlapped \/ \E q \in Processes \ {p} : HoldsLists(q))
           ELSE Past(p, m) /\ UNCHANGED overlapped
        /\ UNCHANGED <<catalogue, abandoned>>

\* One that is not there is left out.
FindCustomization(p, k) ==
    /\ Doing(p, "find")
    /\ k \in seed[p].wanted
    /\ seed' = [seed EXCEPT ![p].wanted = @ \ {k},
                            ![p].found = IF copies[k] > 0 THEN @ \cup {k} ELSE @,
                            ![p].loaded[k] = back[k]]
    /\ UNCHANGED <<catalogue, linkHistory>>

\* Mutant: the new menu does not list its customizations.
BareMenu(m, id, F) == [id |-> id, category |-> CategoryOf[m], lists |-> {}]

\* Mutant: the category that was looked up is not stored.
MenuWithoutCategory(m, id, F) == [id |-> id, category |-> Null, lists |-> F]

NewMenu(m, id, F) == [id |-> id, category |-> CategoryOf[m], lists |-> F]

CreateMenu(p) ==
    LET m == seed[p].name
        id == <<m, copies[m] + 1>>
    IN  /\ Doing(p, "find")
        /\ seed[p].wanted = {}
        /\ menuDocs' = menuDocs \cup {NewMenu(m, id, seed[p].found)}
        /\ copies' = [copies EXCEPT ![m] = @ + 1]
        /\ seed' = [seed EXCEPT ![p].pc = "link", ![p].doc = id]
        /\ UNCHANGED <<back, linkHistory>>

\* Mutant: the menus a customization already had are not kept.
PushAlone(p, k) == {seed[p].doc}

\* Onto the copy loaded before the menu was created.
Push(p, k) == seed[p].loaded[k] \cup {seed[p].doc}

Link(p, k) ==
    /\ Doing(p, "link")
    /\ k \in seed[p].found
    /\ back' = [back EXCEPT ![k] = Push(p, k)]
    /\ seed' = [seed EXCEPT ![p].found = @ \ {k}]
    /\ UNCHANGED <<copies, menuDocs, linkHistory>>

Linked(p) ==
    /\ Doing(p, "link")
    /\ seed[p].found = {}
    /\ Past(p, seed[p].name)
    /\ UNCHANGED <<catalogue, linkHistory>>

SeedStep(p) ==
    \/ NextList(p)
    \/ \E n \in Names : Check(p, n)
    \/ Create(p)
    \/ FindCategory(p)
    \/ \E k \in Customizations : FindCustomization(p, k) \/ Link(p, k)
    \/ CreateMenu(p)
    \/ Linked(p)

\* The process dies, or a query fails and it does not come up.
StopSeeding(p) ==
    /\ seed' = [seed EXCEPT ![p] = Off]
    /\ abandoned' = abandoned \cup ToLink(p)
    /\ UNCHANGED <<catalogue, overlapped>>

----------------------------------------------------------------------------
(* Properties *)

SeedTypeOK ==
    /\ copies \in [Names -> Nat]
    /\ menuDocs \subseteq MenuDoc
    /\ back \in [Customizations -> SUBSET MenuId]
    /\ seed \in [Processes -> Seed]
    /\ abandoned \subseteq MenuId \X Customizations
    /\ overlapped \in BOOLEAN

\* Nothing makes the names unique: processes that start together may each
\* create a document, but never more than one each, however often they
\* start (the check-then-create of seedStores and its like).
DuplicatesBounded ==
    \A n \in Names : copies[n] <= Cardinality(Processes)

\* A customization only refers to menus that exist and list it.
BackReferencesSound ==
    \A k \in Customizations : \A id \in back[k] :
        \E d \in menuDocs : d.id = id /\ k \in d.lists

\* When a process has finished, every menu of the data is there with all
\* its customizations, whoever created it and whatever crashed meanwhile.
SeededMenusComplete ==
    \A p \in Processes : Seeded(p) =>
        \A m \in Menus : \E d \in menuDocs :
            d.id[1] = m /\ d.lists = Offers[m]

\* The customizations of a menu refer back to it when nothing is linking any
\* more.  A process that dies costs the links it had still to make, which no
\* later start makes up for since the menu is there, and never another one,
\* of that menu or an earlier or later one, although each link writes a
\* whole list back.  Only two processes that hold lists at the same time
\* overwrite each other's.
BackReferencesComplete ==
    ~overlapped /\ (\A p \in Processes : ~Doing(p, "link")) =>
        \A d \in menuDocs : \A k \in d.lists :
            d.id \in back[k] \/ <<d.id, k>> \in abandoned
=============================================================================
