--------------------------- MODULE Startup_proofs ---------------------------
(***************************************************************************)
(* Proofs about Startup: its types, what a finished seeding leaves behind, *)
(* the bounds on the documents that starts and calls racing each other     *)
(* create more than once, and when the links of the menus are whole.       *)
(***************************************************************************)
EXTENDS Startup, TLAPS, FiniteSetTheorems, SequenceTheorems

----------------------------------------------------------------------------
(* The invariant of the seeding *)

SoundRef(id, k) == \E d \in menuDocs : d.id = id /\ k \in d.lists

\* What a process has gone past is there; what it remembers is sound.
ProcessOK(p) ==
    /\ Running(p) => seed[p].todo \subseteq ListOf(seed[p].stage)
    /\ Running(p) /\ seed[p].pc # "check" => seed[p].name \in seed[p].todo
    /\ Running(p) /\ seed[p].pc # "check" => (seed[p].pc = "create" <=> seed[p].stage # 4)
    /\ \A i \in 1 .. 4 : \A n \in ListOf(i) :
          i < seed[p].stage \/ (i = seed[p].stage /\ n \notin seed[p].todo) =>
              copies[n] > 0
    /\ Running(p) /\ seed[p].pc \notin {"find", "link"} => seed[p].found = {}
    /\ Doing(p, "find") =>
          /\ seed[p].wanted \subseteq Offers[seed[p].name]
          /\ seed[p].found = Offers[seed[p].name] \ seed[p].wanted
    /\ \A k \in Customizations : \A id \in seed[p].loaded[k] : SoundRef(id, k)
    /\ Doing(p, "link") => copies[seed[p].name] > 0
    /\ Doing(p, "link") =>
          \A k \in seed[p].found : SoundRef(seed[p].doc, k)

\* Every menu is complete, for the lists before it were done.
CatalogueOK ==
    /\ \A d \in menuDocs : d.lists = Offers[d.id[1]]
    /\ \A m \in Menus : copies[m] > 0 => \E d \in menuDocs : d.id[1] = m
    /\ \A k \in Customizations : \A id \in back[k] : SoundRef(id, k)

SeedInv ==
    /\ SeedTypeOK
    /\ \A p \in Processes : ProcessOK(p)
    /\ CatalogueOK

LEMMA Lists ==
    /\ ListOf(1) = Stores /\ ListOf(2) = Categories
    /\ ListOf(3) = Customizations /\ ListOf(4) = Menus
    /\ \A i \in Nat : ListOf(i) \subseteq Names
    /\ \A i \in Nat, m \in Menus : m \in ListOf(i) => i = 4
BY SeedingAssumption DEF ListOf, Names

LEMMA OffTyped == Off \in Seed
BY DEF Off, Seed

LEMMA ListTyped ==
    ASSUME NEW s \in Seed, NEW i \in 0 .. 5, NEW T \in SUBSET Names
    PROVE  [s EXCEPT !.stage = i, !.todo = T] \in Seed
BY DEF Seed

LEMMA InitSeedInv == SeedInit => SeedInv
<1> SUFFICES ASSUME SeedInit PROVE SeedInv OBVIOUS
<1>1. SeedTypeOK
  BY OffTyped DEF SeedInit, SeedTypeOK
<1>2. ASSUME NEW p \in Processes PROVE ProcessOK(p)
  BY <1>2 DEF SeedInit, ProcessOK, Running, Doing, Off
<1>3. CatalogueOK
  BY DEF SeedInit, CatalogueOK, Names
<1> QED BY <1>1, <1>2, <1>3 DEF SeedInv

\* The catalogue only grows.
Onward ==
    /\ \A n \in Names : copies[n] > 0 => copies'[n] > 0
    /\ menuDocs \subseteq menuDocs'

LEMMA SoundStays ==
    ASSUME Onward, NEW id, NEW k, SoundRef(id, k) PROVE SoundRef(id, k)'
BY DEF Onward, SoundRef

LEMMA ProcessKept ==
    ASSUME Onward, NEW q, ProcessOK(q), seed'[q] = seed[q] PROVE ProcessOK(q)'
<1>1. ASSUME NEW i \in 1 .. 4, NEW n \in ListOf(i), copies[n] > 0 PROVE copies'[n] > 0
  BY <1>1, Lists DEF Onward
<1>2. Running(q) /\ seed[q].pc = "link" => seed[q].name \in ListOf(seed[q].stage)
  BY DEF ProcessOK
<1> QED BY <1>1, <1>2, SoundStays DEF ProcessOK, Running, Doing

\* A step of process p that leaves the catalogue alone.
LEMMA QuietSeedInv ==
    ASSUME SeedInv, NEW p \in Processes, UNCHANGED catalogue,
           abandoned' \subseteq MenuId \X Customizations, overlapped' \in BOOLEAN,
           NEW x \in Seed, seed' = [seed EXCEPT ![p] = x], ProcessOK(p)'
    PROVE  SeedInv'
<1>1. Onward
  BY DEF Onward, catalogue
<1>2. SeedTypeOK'
  BY DEF SeedInv, SeedTypeOK, catalogue
<1>3. ASSUME NEW q \in Processes PROVE ProcessOK(q)'
  <2>1. CASE q = p BY <2>1
  <2>2. CASE q # p
    <3>1. seed'[q] = seed[q] BY <2>2 DEF SeedInv, SeedTypeOK
    <3> QED BY <1>1, <3>1, ProcessKept DEF SeedInv
  <2> QED BY <2>1, <2>2
<1>4. CatalogueOK'
  BY DEF SeedInv, CatalogueOK, SoundRef, catalogue
<1> QED BY <1>2, <1>3, <1>4 DEF SeedInv

\* What Past makes of a process.
LEMMA PastFields ==
    ASSUME SeedTypeOK, NEW p \in Processes, NEW n, Past(p, n)
    PROVE  \E x \in Seed :
              /\ seed' = [seed EXCEPT ![p] = x]
              /\ x.stage = seed[p].stage /\ x.pc = "check"
              /\ x.todo = seed[p].todo \ {n} /\ x.found = {}
              /\ x.loaded = [k \in Customizations |-> {}]
<1> DEFINE x == [seed[p] EXCEPT !.pc = "check", !.todo = @ \ {n}, !.name = Null,
                                !.found = {}, !.doc = Null,
                                !.loaded = [k \in Customizations |-> {}]]
<1>1. seed[p] \in Seed
  BY DEF SeedTypeOK
<1>2. /\ x \in Seed
      /\ x.stage = seed[p].stage /\ x.pc = "check" /\ x.todo = seed[p].todo \ {n}
      /\ x.found = {} /\ x.loaded = [k \in Customizations |-> {}]
  BY <1>1 DEF Seed
<1>3. seed' = [seed EXCEPT ![p] = x]
  BY DEF Past, SeedTypeOK
<1> QED BY <1>2, <1>3

\* Past a name that is there.
LEMMA PastOK ==
    ASSUME SeedInv, NEW p \in Processes, NEW n \in Names, Running(p), Past(p, n),
           Onward, copies'[n] > 0
    PROVE  ProcessOK(p)'
<1>1. PICK x \in Seed :
         /\ seed' = [seed EXCEPT ![p] = x]
         /\ x.stage = seed[p].stage /\ x.pc = "check"
         /\ x.todo = seed[p].todo \ {n} /\ x.found = {}
         /\ x.loaded = [k \in Customizations |-> {}]
  BY PastFields DEF SeedInv
<1>2. seed'[p] = x /\ ProcessOK(p)
  BY <1>1 DEF SeedInv, SeedTypeOK
<1>3. x.todo \subseteq ListOf(x.stage)
  BY <1>1, <1>2 DEF ProcessOK
<1>4. ASSUME NEW i \in 1 .. 4, NEW m \in ListOf(i),
             i < x.stage \/ (i = x.stage /\ m \notin x.todo)
      PROVE  copies'[m] > 0
  BY <1>1, <1>2, <1>4, Lists DEF ProcessOK, Onward
<1> QED BY <1>1, <1>2, <1>3, <1>4 DEF ProcessOK, Running, Doing

LEMMA StartSeedInv ==
    ASSUME SeedInv, NEW p \in Processes, StartSeeding(p) PROVE SeedInv'
<1> DEFINE x == [Off EXCEPT !.stage = 1, !.todo = ListOf(1)]
<1>a. ListOf(1) \in SUBSET Names
  BY Lists DEF Names
<1>0. 1 \in 0 .. 5
  OBVIOUS
<1>b. x \in Seed
  BY <1>0, <1>a, OffTyped, ListTyped, Zenon
<1>1. x \in Seed /\ seed' = [seed EXCEPT ![p] = x]
  BY <1>b DEF StartSeeding
<1>2. seed'[p] = x
  BY <1>1 DEF SeedInv, SeedTypeOK
<1>3. ProcessOK(p)'
  BY <1>2 DEF ProcessOK, Off, Running, Doing
<1> QED BY <1>1, <1>3, QuietSeedInv DEF StartSeeding, SeedInv, SeedTypeOK, linkHistory

LEMMA StopSeedInv ==
    ASSUME SeedInv, NEW p \in Processes, StopSeeding(p) PROVE SeedInv'
<1>1. seed'[p] = Off
  BY DEF SeedInv, SeedTypeOK, StopSeeding
<1>2. ProcessOK(p)'
  BY <1>1 DEF ProcessOK, Off, Running, Doing
<1>3. ToLink(p) \subseteq MenuId \X Customizations
  <2>1. ASSUME NEW k \in seed[p].found, Doing(p, "link")
        PROVE  seed[p].doc \in MenuId /\ k \in Customizations
    <3>1. SoundRef(seed[p].doc, k)
      BY <2>1 DEF SeedInv, ProcessOK
    <3> QED BY <3>1 DEF SoundRef, SeedInv, SeedTypeOK, MenuDoc
  <2> QED BY <2>1 DEF ToLink
<1> QED BY <1>2, <1>3, OffTyped, QuietSeedInv DEF StopSeeding, SeedInv, SeedTypeOK

LEMMA NextListSeedInv ==
    ASSUME SeedInv, NEW p \in Processes, NextList(p) PROVE SeedInv'
<1> DEFINE i == seed[p].stage + 1
           x == [seed[p] EXCEPT !.stage = i, !.todo = ListOf(i)]
<1>1. seed[p] \in Seed /\ i \in 2 .. 5 /\ ProcessOK(p)
  BY DEF SeedInv, SeedTypeOK, NextList, Doing, Running
<1>2. ListOf(i) \in SUBSET Names
  BY <1>1, Lists
<1>0. i \in 0 .. 5
  BY <1>1
<1>a. x \in Seed
  BY <1>0, <1>1, <1>2, ListTyped, Zenon
<1>b. seed' = [seed EXCEPT ![p] = x]
  BY DEF NextList, SeedInv, SeedTypeOK
<1>3. x \in Seed /\ seed' = [seed EXCEPT ![p] = x]
  BY <1>a, <1>b
<1>4. seed'[p] = x /\ x.stage = i /\ x.todo = ListOf(i) /\ x.pc = "check"
      /\ x.loaded = seed[p].loaded /\ x.found = seed[p].found
  BY <1>1, <1>3 DEF SeedInv, SeedTypeOK, Seed, NextList, Doing
<1>5. ASSUME NEW j \in 1 .. 4, NEW n \in ListOf(j),
             j < x.stage \/ (j = x.stage /\ n \notin x.todo)
      PROVE  copies'[n] > 0
  <2>1. j < seed[p].stage \/ j = seed[p].stage
    BY <1>1, <1>4, <1>5 DEF Seed
  <2>2. n \notin seed[p].todo
    BY DEF NextList
  <2>3. copies[n] > 0
    BY <1>1, <2>1, <2>2 DEF ProcessOK
  <2> QED BY <2>3 DEF NextList, catalogue
<1>6. ASSUME NEW k \in Customizations, NEW id \in x.loaded[k] PROVE SoundRef(id, k)'
  BY <1>1, <1>4, <1>6 DEF ProcessOK, SoundRef, NextList, catalogue
<1>7. ProcessOK(p)'
  <2>1. x.found = {}
    BY <1>1, <1>4 DEF NextList, Doing, ProcessOK
  <2> QED BY <1>1, <1>4, <1>5, <1>6, <2>1 DEF ProcessOK, Running, Doing
<1> QED BY <1>3, <1>7, QuietSeedInv DEF NextList, SeedInv, SeedTypeOK, linkHistory

\* A step that leaves the catalogue alone and goes past a name that is there.
LEMMA PastSeedInv ==
    ASSUME SeedInv, NEW p \in Processes, NEW n \in Names, Running(p), Past(p, n),
           UNCHANGED <<catalogue, linkHistory>>, copies[n] > 0
    PROVE  SeedInv'
<1>1. Onward /\ copies'[n] > 0
  BY DEF Onward, catalogue
<1>2. PICK x \in Seed : seed' = [seed EXCEPT ![p] = x]
  BY PastFields DEF SeedInv
<1>3. ProcessOK(p)'
  BY <1>1, PastOK
<1> QED BY <1>2, <1>3, QuietSeedInv DEF SeedInv, SeedTypeOK, linkHistory

LEMMA CheckSeedInv ==
    ASSUME SeedInv, NEW p \in Processes, NEW n \in Names, Check(p, n) PROVE SeedInv'
<1>1. seed[p] \in Seed /\ ProcessOK(p) /\ Running(p) /\ n \in seed[p].todo
      /\ copies[n] \in Nat /\ seed[p].pc = "check"
  BY DEF SeedInv, SeedTypeOK, Check, Doing
<1>2. CASE copies[n] > 0
  BY <1>1, <1>2, PastSeedInv DEF Check
<1>3. CASE ~(copies[n] > 0)
  <2> DEFINE x == [seed[p] EXCEPT !.name = n,
                                  !.pc = IF n \in Menus THEN "category" ELSE "create"]
  <2>1. x \in Seed /\ seed' = [seed EXCEPT ![p] = x]
    BY <1>1, <1>3 DEF Check, Seed, SeedInv, SeedTypeOK
  <2>2. seed'[p] = x /\ x.stage = seed[p].stage /\ x.todo = seed[p].todo
        /\ x.loaded = seed[p].loaded /\ x.name = n /\ x.found = seed[p].found
        /\ x.pc = IF n \in Menus THEN "category" ELSE "create"
    BY <1>1, <2>1 DEF SeedInv, SeedTypeOK, Seed
  <2>3. n \in ListOf(seed[p].stage) /\ seed[p].stage \in 1 .. 4
    BY <1>1 DEF ProcessOK, Running
  <2>4. n \in Menus <=> seed[p].stage = 4
    BY <2>3, Lists
  <2>5. UNCHANGED catalogue
    BY DEF Check
  <2>6. ASSUME NEW k \in Customizations, NEW id \in x.loaded[k] PROVE SoundRef(id, k)'
    BY <1>1, <2>2, <2>5, <2>6 DEF ProcessOK, SoundRef, catalogue
  <2>7. ASSUME NEW j \in 1 .. 4, NEW m \in ListOf(j),
               j < x.stage \/ (j = x.stage /\ m \notin x.todo)
        PROVE  copies'[m] > 0
    BY <1>1, <2>2, <2>5, <2>7 DEF ProcessOK, catalogue
  <2>8. ProcessOK(p)'
    BY <1>1, <2>2, <2>3, <2>4, <2>6, <2>7 DEF ProcessOK, Running, Doing
  <2> QED BY <2>1, <2>5, <2>8, QuietSeedInv DEF Check, SeedInv, SeedTypeOK, linkHistory
<1> QED BY <1>2, <1>3

\* A step of process p that adds to the catalogue.
LEMMA StepSeedInv ==
    ASSUME SeedInv, NEW p \in Processes, Onward, UNCHANGED linkHistory,
           copies' \in [Names -> Nat], menuDocs' \subseteq MenuDoc,
           back' \in [Customizations -> SUBSET MenuId], CatalogueOK',
           NEW x \in Seed, seed' = [seed EXCEPT ![p] = x], ProcessOK(p)'
    PROVE  SeedInv'
<1>1. SeedTypeOK'
  BY DEF SeedInv, SeedTypeOK, linkHistory
<1>2. ASSUME NEW q \in Processes PROVE ProcessOK(q)'
  <2>1. CASE q = p BY <2>1
  <2>2. CASE q # p
    <3>1. seed'[q] = seed[q] BY <2>2 DEF SeedInv, SeedTypeOK
    <3> QED BY <3>1, ProcessKept DEF SeedInv
  <2> QED BY <2>1, <2>2
<1> QED BY <1>1, <1>2 DEF SeedInv

\* Where a process is that does something with a name.
LEMMA AtName ==
    ASSUME SeedInv, NEW p \in Processes, Running(p), seed[p].pc # "check"
    PROVE  /\ seed[p] \in Seed /\ ProcessOK(p)
           /\ seed[p].name \in Names /\ seed[p].name \in seed[p].todo
           /\ seed[p].stage \in 1 .. 4 /\ seed[p].name \in ListOf(seed[p].stage)
           /\ seed[p].pc = "create" <=> seed[p].name \notin Menus
           /\ seed[p].pc # "create" => seed[p].stage = 4
<1>1. seed[p] \in Seed /\ ProcessOK(p) /\ seed[p].stage \in 1 .. 4
  BY DEF SeedInv, SeedTypeOK, Running
<1>2. seed[p].name \in seed[p].todo /\ seed[p].name \in ListOf(seed[p].stage)
  BY <1>1 DEF ProcessOK
<1>3. seed[p].name \in Names
  BY <1>1, <1>2, Lists
<1>4. seed[p].pc = "create" <=> seed[p].stage # 4
  BY <1>1 DEF ProcessOK
<1> QED BY <1>1, <1>2, <1>3, <1>4, Lists

LEMMA CreateSeedInv ==
    ASSUME SeedInv, NEW p \in Processes, Create(p) PROVE SeedInv'
<1> DEFINE n == seed[p].name
<1>1. Running(p) /\ seed[p].pc = "create" /\ n \in Names \ Menus
  BY AtName DEF Create, Doing
<1>2. copies \in [Names -> Nat] /\ copies' = [copies EXCEPT ![n] = @ + 1]
      /\ UNCHANGED <<menuDocs, back, linkHistory>> /\ Past(p, n)
  BY DEF SeedInv, SeedTypeOK, Create
<1>3. Onward /\ copies'[n] > 0 /\ copies' \in [Names -> Nat]
  BY <1>1, <1>2 DEF Onward
<1>4. ProcessOK(p)'
  BY <1>1, <1>2, <1>3, PastOK
<1>5. CatalogueOK'
  <2>1. \A m \in Menus : copies'[m] = copies[m]
    BY <1>1, <1>2 DEF Names
  <2> QED BY <1>2, <2>1 DEF SeedInv, CatalogueOK, SoundRef
<1>6. PICK x \in Seed : seed' = [seed EXCEPT ![p] = x]
  BY <1>2, PastFields DEF SeedInv
<1> QED BY <1>2, <1>3, <1>4, <1>5, <1>6, StepSeedInv DEF SeedInv, SeedTypeOK, linkHistory

LEMMA FindCategorySeedInv ==
    ASSUME SeedInv, NEW p \in Processes, FindCategory(p) PROVE SeedInv'
<1> DEFINE m == seed[p].name
           x == [seed[p] EXCEPT !.pc = "find", !.wanted = Offers[m]]
<1>1. Running(p) /\ seed[p].pc = "category"
  BY DEF FindCategory, Doing
<1>2. seed[p] \in Seed /\ ProcessOK(p) /\ m \in Menus /\ seed[p].stage = 4
      /\ m \in seed[p].todo
  BY <1>1, AtName
<1>3. CategoryOf[m] \in ListOf(2) /\ Offers[m] \in SUBSET Customizations
  BY <1>2, Lists, SeedingAssumption DEF DataConsistent
<1>4. copies[CategoryOf[m]] > 0
  BY <1>2, <1>3 DEF ProcessOK
<1>5. x \in Seed
  BY <1>2, <1>3 DEF Seed
<1>6. seed' = [seed EXCEPT ![p] = x]
  BY <1>4 DEF FindCategory, SeedInv, SeedTypeOK
<1>7. seed'[p] = x /\ x.stage = 4 /\ x.pc = "find" /\ x.todo = seed[p].todo
      /\ x.name = m /\ x.wanted = Offers[m] /\ x.found = seed[p].found
      /\ x.loaded = seed[p].loaded
  BY <1>2, <1>6 DEF SeedInv, SeedTypeOK, Seed
<1>8. UNCHANGED <<catalogue, abandoned>> /\ overlapped' \in BOOLEAN
  BY <1>4 DEF FindCategory, SeedInv, SeedTypeOK
<1>9. ProcessOK(p)'
  BY <1>1, <1>2, <1>7, <1>8 DEF ProcessOK, Running, Doing, SoundRef, catalogue
<1> QED BY <1>5, <1>6, <1>8, <1>9, QuietSeedInv DEF SeedInv, SeedTypeOK, linkHistory

LEMMA FindCustomizationSeedInv ==
    ASSUME SeedInv, NEW p \in Processes, NEW k \in Customizations, FindCustomization(p, k)
    PROVE  SeedInv'
<1> DEFINE m == seed[p].name
           x == [seed[p] EXCEPT !.wanted = @ \ {k}, !.found = @ \cup {k},
                                !.loaded[k] = back[k]]
<1>1. Running(p) /\ seed[p].pc = "find" /\ k \in seed[p].wanted
  BY DEF FindCustomization, Doing
<1>2. seed[p] \in Seed /\ ProcessOK(p) /\ m \in Menus /\ seed[p].stage = 4
      /\ m \in seed[p].todo
  BY <1>1, AtName
<1>3. copies[k] > 0
  BY <1>2, Lists DEF ProcessOK
<1>4. back[k] \in SUBSET MenuId
  BY DEF SeedInv, SeedTypeOK
<1>5. x \in Seed
  BY <1>2, <1>4 DEF Seed
<1>6. seed' = [seed EXCEPT ![p] = x]
  BY <1>3 DEF FindCustomization, SeedInv, SeedTypeOK
<1>7. seed'[p] = x /\ x.stage = 4 /\ x.pc = "find" /\ x.todo = seed[p].todo
      /\ x.name = m /\ x.wanted = seed[p].wanted \ {k}
      /\ x.found = seed[p].found \cup {k}
      /\ x.loaded = [seed[p].loaded EXCEPT ![k] = back[k]]
  BY <1>1, <1>2, <1>6 DEF SeedInv, SeedTypeOK, Seed
<1>8. UNCHANGED <<catalogue, linkHistory>>
  BY DEF FindCustomization
<1>9. ASSUME NEW c \in Customizations, NEW id \in x.loaded[c] PROVE SoundRef(id, c)'
  <2>1. SoundRef(id, c)
    <3>1. CASE c = k
      BY <1>2, <1>7, <1>9, <3>1 DEF SeedInv, CatalogueOK, Seed
    <3>2. CASE c # k
      BY <1>2, <1>7, <1>9, <3>2 DEF ProcessOK, Seed
    <3> QED BY <3>1, <3>2
  <2> QED BY <1>8, <2>1 DEF SoundRef, catalogue
<1>10. x.wanted \subseteq Offers[m] /\ x.found = Offers[m] \ x.wanted
  BY <1>1, <1>2, <1>7 DEF ProcessOK, Doing
<1>11. ProcessOK(p)'
  BY <1>1, <1>2, <1>7, <1>8, <1>9, <1>10 DEF ProcessOK, Running, Doing, catalogue
<1> QED BY <1>5, <1>6, <1>8, <1>11, QuietSeedInv DEF SeedInv, SeedTypeOK, linkHistory

LEMMA CreateMenuSeedInv ==
    ASSUME SeedInv, NEW p \in Processes, CreateMenu(p) PROVE SeedInv'
<1> DEFINE m == seed[p].name
           id == <<m, copies[m] + 1>>
           d == NewMenu(m, id, seed[p].found)
           x == [seed[p] EXCEPT !.pc = "link", !.doc = id]
<1>1. Running(p) /\ seed[p].pc = "find" /\ seed[p].wanted = {}
  BY DEF CreateMenu, Doing
<1>2. seed[p] \in Seed /\ ProcessOK(p) /\ m \in Menus /\ seed[p].stage = 4
      /\ m \in seed[p].todo /\ m \in Names
  BY <1>1, AtName
<1>3. seed[p].found = Offers[m] /\ CategoryOf[m] \in Categories
      /\ Offers[m] \in SUBSET Customizations
  BY <1>1, <1>2, SeedingAssumption DEF ProcessOK, Doing, DataConsistent
<1>4. copies \in [Names -> Nat] /\ copies' = [copies EXCEPT ![m] = @ + 1]
      /\ menuDocs' = menuDocs \cup {d} /\ UNCHANGED <<back, linkHistory>>
      /\ menuDocs \subseteq MenuDoc
  BY DEF SeedInv, SeedTypeOK, CreateMenu
<1>5. id \in MenuId
  BY <1>2, <1>4 DEF MenuId
<1>6. d.id = id /\ d.lists = Offers[m] /\ d \in MenuDoc
  BY <1>3, <1>5 DEF NewMenu, MenuDoc
<1>7. Onward /\ copies' \in [Names -> Nat] /\ menuDocs' \subseteq MenuDoc
  BY <1>2, <1>4, <1>6 DEF Onward
<1>8. CatalogueOK'
  <2>1. \A e \in menuDocs' : e.lists = Offers[e.id[1]]
    BY <1>4, <1>6 DEF SeedInv, CatalogueOK
  <2>2. ASSUME NEW n \in Menus, copies'[n] > 0
        PROVE  \E e \in menuDocs' : e.id[1] = n
    <3>1. CASE n = m
      BY <1>4, <1>6, <3>1
    <3>2. CASE n # m
      BY <1>2, <1>4, <2>2, <3>2 DEF SeedInv, CatalogueOK, Names
    <3> QED BY <3>1, <3>2
  <2>3. \A k \in Customizations : \A i \in back'[k] : SoundRef(i, k)'
    BY <1>4, <1>7, SoundStays DEF SeedInv, CatalogueOK
  <2> QED BY <2>1, <2>2, <2>3 DEF CatalogueOK
<1>9. x \in Seed /\ seed' = [seed EXCEPT ![p] = x]
  BY <1>2, <1>5 DEF Seed, CreateMenu, SeedInv, SeedTypeOK
<1>10. seed'[p] = x /\ x.stage = 4 /\ x.pc = "link" /\ x.todo = seed[p].todo
      /\ x.name = m /\ x.found = seed[p].found /\ x.loaded = seed[p].loaded
      /\ x.doc = id
  BY <1>2, <1>9 DEF SeedInv, SeedTypeOK, Seed
<1>11. ProcessOK(p)'
  <2>1. ASSUME NEW j \in 1 .. 4, NEW n \in ListOf(j),
               j < x.stage \/ (j = x.stage /\ n \notin x.todo)
        PROVE  copies'[n] > 0
    BY <1>2, <1>7, <1>10, <2>1, Lists DEF ProcessOK, Onward
  <2>2. ASSUME NEW k \in x.found
        PROVE  \E e \in menuDocs' : e.id = id /\ k \in e.lists
    BY <1>3, <1>4, <1>6, <1>10, <2>2
  <2>3. ASSUME NEW k \in Customizations, NEW i \in x.loaded[k] PROVE SoundRef(i, k)'
    BY <1>2, <1>7, <1>10, <2>3, SoundStays DEF ProcessOK
  <2>4. copies'[m] > 0
    BY <1>2, <1>4
  <2>5. \A k \in seed'[p].found : SoundRef(seed[p].doc, k)'
    BY <1>10, <2>2 DEF SoundRef
  <2> QED BY <1>1, <1>2, <1>10, <2>1, <2>3, <2>4, <2>5 DEF ProcessOK, Running, Doing
<1> QED BY <1>4, <1>7, <1>8, <1>9, <1>11, StepSeedInv DEF SeedInv, SeedTypeOK, linkHistory

LEMMA LinkSeedInv ==
    ASSUME SeedInv, NEW p \in Processes, NEW k \in Customizations, Link(p, k)
    PROVE  SeedInv'
<1> DEFINE x == [seed[p] EXCEPT !.found = @ \ {k}]
<1>1. Running(p) /\ seed[p].pc = "link" /\ k \in seed[p].found
  BY DEF Link, Doing
<1>2. seed[p] \in Seed /\ ProcessOK(p) /\ seed[p].stage = 4
  BY <1>1, AtName
<1>3. SoundRef(seed[p].doc, k)
  BY <1>1, <1>2 DEF ProcessOK, Doing
<1>4. seed[p].doc \in MenuId
  BY <1>3 DEF SoundRef, SeedInv, SeedTypeOK, MenuDoc
<1>5. Push(p, k) \in SUBSET MenuId
  BY <1>2, <1>4 DEF Push, Seed
<1>6. back \in [Customizations -> SUBSET MenuId] /\ back' = [back EXCEPT ![k] = Push(p, k)]
      /\ UNCHANGED <<copies, menuDocs, linkHistory>>
  BY DEF SeedInv, SeedTypeOK, Link
<1>7. Onward
  BY <1>6 DEF Onward
<1>8. CatalogueOK'
  <2>1. ASSUME NEW c \in Customizations, NEW i \in back'[c] PROVE SoundRef(i, c)'
    <3>1. CASE c = k /\ i \in seed[p].loaded[k]
      BY <1>2, <1>7, <3>1, SoundStays DEF ProcessOK
    <3>2. CASE c = k /\ i = seed[p].doc
      BY <1>3, <1>7, <3>2, SoundStays
    <3>3. CASE c # k
      BY <1>6, <1>7, <2>1, <3>3, SoundStays DEF SeedInv, CatalogueOK
    <3> QED BY <1>6, <2>1, <3>1, <3>2, <3>3 DEF Push
  <2> QED BY <1>6, <2>1 DEF SeedInv, CatalogueOK
<1>9. x \in Seed /\ seed' = [seed EXCEPT ![p] = x]
  BY <1>2 DEF Seed, Link, SeedInv, SeedTypeOK
<1>10. seed'[p] = x /\ x.stage = 4 /\ x.pc = "link" /\ x.todo = seed[p].todo
      /\ x.name = seed[p].name /\ x.found = seed[p].found \ {k}
      /\ x.loaded = seed[p].loaded /\ x.doc = seed[p].doc
  BY <1>1, <1>2, <1>9 DEF SeedInv, SeedTypeOK, Seed
<1>11. \A i, c : SoundRef(i, c)' <=> SoundRef(i, c)
  BY <1>6 DEF SoundRef
<1>12. ProcessOK(p)'
  BY <1>1, <1>2, <1>6, <1>10, <1>11 DEF ProcessOK, Running, Doing
<1> QED BY <1>5, <1>6, <1>7, <1>8, <1>9, <1>12, StepSeedInv DEF SeedInv, SeedTypeOK, linkHistory

LEMMA LinkedSeedInv ==
    ASSUME SeedInv, NEW p \in Processes, Linked(p) PROVE SeedInv'
<1>1. Running(p) /\ seed[p].pc = "link" /\ Past(p, seed[p].name)
      /\ UNCHANGED <<catalogue, linkHistory>>
  BY DEF Linked, Doing
<1>2. copies[seed[p].name] > 0 /\ seed[p].name \in Names
  BY <1>1, AtName DEF ProcessOK, Doing
<1> QED BY <1>1, <1>2, PastSeedInv

LEMMA SeedStepSeedInv ==
    ASSUME SeedInv, NEW p \in Processes, SeedStep(p) PROVE SeedInv'
BY NextListSeedInv, CheckSeedInv, CreateSeedInv, FindCategorySeedInv,
   FindCustomizationSeedInv, CreateMenuSeedInv, LinkSeedInv, LinkedSeedInv DEF SeedStep

LEMMA IdleSeedInv ==
    ASSUME SeedInv, UNCHANGED seedVars PROVE SeedInv'
BY DEF SeedInv, SeedTypeOK, ProcessOK, CatalogueOK, SoundRef, Running, Doing, seedVars,
       catalogue, linkHistory

----------------------------------------------------------------------------
(* The types of the settings *)

LEMMA NoActorTyped == NoActor \in Actor
BY DEF NoActor, Actor

LEMMA GotTyped ==
    ASSUME SettingsTypeOK, NEW a \in Actors, NEW nr \in Nat, Got(a, nr)
    PROVE  actor' \in [Actors -> Actor]
BY NoActorTyped DEF SettingsTypeOK, Got, Actor

LEMMA SettingsTypeStep ==
    ASSUME SettingsTypeOK, NEW a \in Actors, SettingsStep(a) PROVE SettingsTypeOK'
<1>1. CASE Find(a)
  <2>1. settings' = settings
    BY <1>1 DEF Find
  <2>2. actor' \in [Actors -> Actor]
    <3>1. CASE settings # <<>>
      BY <1>1, <3>1, GotTyped DEF Find
    <3>2. CASE settings = <<>>
      BY <1>1, <3>2 DEF Find, SettingsTypeOK, Actor
    <3> QED BY <3>1, <3>2
  <2> QED BY <2>1, <2>2 DEF SettingsTypeOK
<1>2. CASE CreateDefault(a)
  <2>1. settings' \in Seq(Policy) /\ Len(settings) + 1 \in Nat
    BY <1>2 DEF CreateDefault, SettingsTypeOK, Policy
  <2>2. actor' \in [Actors -> Actor]
    BY <1>2, <2>1, GotTyped DEF CreateDefault
  <2> QED BY <2>1, <2>2 DEF SettingsTypeOK
<1>3. CASE SettingsFail(a)
  BY <1>3, NoActorTyped DEF SettingsFail, SettingsTypeOK
<1>4. ASSUME NEW v \in Policies, Update(a, v) PROVE SettingsTypeOK'
  <2>1. settings' \in Seq(Policy)
    <3>1. settings' = [settings EXCEPT ![actor[a].doc] = v] /\ v \in Policy
      BY <1>4 DEF Update, Policy
    <3>2. settings \in [1 .. Len(settings) -> Policy] /\ settings \in Seq(Policy)
      BY LenProperties DEF SettingsTypeOK
    <3>3. CASE actor[a].doc \in 1 .. Len(settings)
      BY <3>1, <3>2, <3>3, ExceptSeq
    <3>4. CASE actor[a].doc \notin 1 .. Len(settings)
      BY <3>1, <3>2, <3>4
    <3> QED BY <3>3, <3>4
  <2>2. actor' \in [Actors -> Actor]
    BY <1>4, NoActorTyped DEF Update, SettingsTypeOK
  <2> QED BY <2>1, <2>2 DEF SettingsTypeOK
<1> QED BY <1>1, <1>2, <1>3, <1>4 DEF SettingsStep

LEMMA StartActorTyped ==
    ASSUME SettingsTypeOK, NEW a \in Actors, NEW puts \in BOOLEAN, StartActor(a, puts)
    PROVE  SettingsTypeOK'
BY DEF SettingsTypeOK, StartActor, NoActor, Actor

----------------------------------------------------------------------------
(* Races to create *)

\* Those in A, out of P, are about to create one more of the c things there
\* are; nobody joins them once there is one.
LEMMA RaceStep ==
    ASSUME NEW P, IsFiniteSet(P), NEW A \in SUBSET P, NEW B \in SUBSET P,
           NEW c \in Nat, NEW d \in Nat, c + Cardinality(A) <= Cardinality(P),
           \/ c = 0 /\ d = 0
           \/ d = c /\ B \subseteq A
           \/ d = c + 1 /\ \E x \in A : B \subseteq A \ {x}
    PROVE  d + Cardinality(B) <= Cardinality(P)
<1>1. IsFiniteSet(A) /\ IsFiniteSet(B) /\ Cardinality(B) <= Cardinality(P)
      /\ Cardinality(A) \in Nat /\ Cardinality(B) \in Nat /\ Cardinality(P) \in Nat
  BY FS_Subset, FS_CardinalityType
<1>2. CASE c = 0 /\ d = 0
  BY <1>1, <1>2
<1>3. CASE d = c /\ B \subseteq A
  <2>1. Cardinality(B) <= Cardinality(A)
    BY <1>1, <1>3, FS_Subset
  <2> QED BY <1>1, <1>3, <2>1
<1>4. CASE d = c + 1 /\ \E x \in A : B \subseteq A \ {x}
  <2>1. PICK x \in A : B \subseteq A \ {x} BY <1>4
  <2>2. IsFiniteSet(A \ {x}) /\ Cardinality(A \ {x}) = Cardinality(A) - 1
    BY <1>1, FS_RemoveElement
  <2>3. Cardinality(B) <= Cardinality(A \ {x})
    BY <2>1, <2>2, FS_Subset
  <2> QED BY <1>1, <1>4, <2>2, <2>3
<1> QED BY <1>2, <1>3, <1>4

\* The processes that found no document of the name n and are not yet past it.
Creating(n) ==
    {p \in Processes : Running(p) /\ seed[p].pc \notin {"check", "link"}
                       /\ seed[p].name = n}

CopiesInv ==
    \A n \in Names : copies[n] + Cardinality(Creating(n)) <= Cardinality(Processes)

\* The actors that found no settings.
Defaulting == {a \in Actors : Is(a, "create")}

SettingsInv == Len(settings) + Cardinality(Defaulting) <= Cardinality(Actors)

LEMMA CopiesStep ==
    ASSUME SeedInv, CopiesInv, NEW p \in Processes, SeedStep(p) PROVE CopiesInv'
<1> SUFFICES ASSUME NEW n \in Names
             PROVE  (copies[n] + Cardinality(Creating(n)) <= Cardinality(Processes))'
  BY DEF CopiesInv
<1> DEFINE A == Creating(n)
           B == Creating(n)'
<1>1. copies[n] \in Nat /\ copies'[n] \in Nat
  BY SeedStepSeedInv DEF SeedInv, SeedTypeOK, linkHistory
<1>2. A \in SUBSET Processes /\ B \in SUBSET Processes
  BY DEF Creating
<1>3. seed \in [Processes -> Seed]
  BY DEF SeedInv, SeedTypeOK
<1>4. ASSUME copies' = copies, B \subseteq A
      PROVE  copies'[n] + Cardinality(B) <= Cardinality(Processes)
  BY <1>1, <1>2, <1>4, RaceStep, SeedingAssumption DEF CopiesInv
<1>5. \A m : Past(p, m) => seed'[p].pc = "check" /\ \A q \in Processes \ {p} : seed'[q] = seed[q]
  BY <1>3 DEF Past, Seed
<1>6. CASE NextList(p)
  <2>1. copies' = copies /\ seed'[p].pc = "check"
        /\ \A q \in Processes \ {p} : seed'[q] = seed[q]
    BY <1>3, <1>6 DEF NextList, Seed, catalogue, Doing
  <2> QED BY <1>4, <2>1 DEF Creating, Running
<1>7. ASSUME NEW m \in Names, Check(p, m)
      PROVE  copies'[n] + Cardinality(B) <= Cardinality(Processes)
  <2>1. copies' = copies /\ copies[m] \in Nat
    BY <1>7 DEF Check, catalogue, SeedInv, SeedTypeOK
  <2>2. CASE copies[m] > 0
    BY <1>4, <1>5, <1>7, <2>1, <2>2 DEF Check, Creating, Running
  <2>3. CASE copies[m] = 0
    <3>1. CASE n = m
      BY <1>1, <1>2, <2>1, <2>3, <3>1, RaceStep, SeedingAssumption DEF CopiesInv
    <3>2. CASE n # m
      <4>1. seed'[p].name = m /\ \A q \in Processes \ {p} : seed'[q] = seed[q]
        BY <1>3, <1>7, <2>3 DEF Check, Seed
      <4> QED BY <1>4, <2>1, <3>2, <4>1 DEF Creating, Running
    <3> QED BY <3>1, <3>2
  <2> QED BY <2>1, <2>2, <2>3
<1>8. CASE Create(p)
  <2>1. seed'[p].pc = "check" /\ \A q \in Processes \ {p} : seed'[q] = seed[q]
    BY <1>5, <1>8 DEF Create
  <2>2. B \subseteq A \ {p}
    BY <2>1 DEF Creating, Running
  <2>3. copies' = [copies EXCEPT ![seed[p].name] = @ + 1] /\ copies \in [Names -> Nat]
    BY <1>8 DEF Create, SeedInv, SeedTypeOK
  <2>4. CASE n = seed[p].name
    <3>1. p \in A /\ copies'[n] = copies[n] + 1
      BY <1>8, <2>3, <2>4 DEF Create, Creating, Doing
    <3> QED BY <1>1, <1>2, <2>2, <3>1, RaceStep, SeedingAssumption DEF CopiesInv
  <2>5. CASE n # seed[p].name
    BY <1>1, <1>2, <2>2, <2>3, <2>5, RaceStep, SeedingAssumption DEF CopiesInv
  <2> QED BY <2>4, <2>5
<1>9. CASE FindCategory(p)
  <2>1. copies' = copies /\ \A q \in Processes \ {p} : seed'[q] = seed[q]
    BY <1>3, <1>5, <1>9 DEF FindCategory, catalogue
  <2>2. \/ seed'[p].pc = "check"
        \/ seed'[p].name = seed[p].name /\ seed'[p].stage = seed[p].stage
    <3>1. CASE copies[CategoryOf[seed[p].name]] > 0
      <4>1. seed' = [seed EXCEPT ![p].pc = "find", ![p].wanted = Offers[seed[p].name]]
        BY <1>9, <3>1 DEF FindCategory
      <4> QED BY <1>3, <4>1 DEF Seed
    <3>2. CASE ~(copies[CategoryOf[seed[p].name]] > 0)
      BY <1>5, <1>9, <3>2 DEF FindCategory
    <3> QED BY <3>1, <3>2
  <2>3. Running(p) /\ seed[p].pc = "category"
    BY <1>9 DEF FindCategory, Doing
  <2> QED BY <1>4, <2>1, <2>2, <2>3 DEF Creating, Running
<1>10. ASSUME NEW k \in Customizations, FindCustomization(p, k)
       PROVE  copies'[n] + Cardinality(B) <= Cardinality(Processes)
  <2>1. copies' = copies /\ \A q \in Processes \ {p} : seed'[q] = seed[q]
    BY <1>3, <1>10 DEF FindCustomization, catalogue
  <2>2. seed'[p].name = seed[p].name /\ seed'[p].stage = seed[p].stage
    BY <1>3, <1>10 DEF FindCustomization, Seed
  <2>3. Running(p) /\ seed[p].pc = "find"
    BY <1>10 DEF FindCustomization, Doing
  <2> QED BY <1>4, <2>1, <2>2, <2>3 DEF Creating, Running
<1>11. ASSUME NEW k \in Customizations, Link(p, k)
       PROVE  copies'[n] + Cardinality(B) <= Cardinality(Processes)
  <2>1. copies' = copies /\ \A q \in Processes \ {p} : seed'[q] = seed[q]
    BY <1>3, <1>11 DEF Link
  <2>2. seed'[p].pc = "link"
    BY <1>3, <1>11 DEF Link, Seed, Doing
  <2> QED BY <1>4, <2>1, <2>2 DEF Creating, Running
<1>12. CASE CreateMenu(p)
  <2>1. seed'[p].pc = "link" /\ \A q \in Processes \ {p} : seed'[q] = seed[q]
    BY <1>3, <1>12 DEF CreateMenu, Seed
  <2>2. B \subseteq A \ {p}
    BY <2>1 DEF Creating, Running
  <2>3. copies' = [copies EXCEPT ![seed[p].name] = @ + 1] /\ copies \in [Names -> Nat]
    BY <1>12 DEF CreateMenu, SeedInv, SeedTypeOK
  <2>4. CASE n = seed[p].name
    <3>1. p \in A /\ copies'[n] = copies[n] + 1
      BY <1>12, <2>3, <2>4 DEF CreateMenu, Creating, Doing
    <3> QED BY <1>1, <1>2, <2>2, <3>1, RaceStep, SeedingAssumption DEF CopiesInv
  <2>5. CASE n # seed[p].name
    BY <1>1, <1>2, <2>2, <2>3, <2>5, RaceStep, SeedingAssumption DEF CopiesInv
  <2> QED BY <2>4, <2>5
<1>13. CASE Linked(p)
  BY <1>4, <1>5, <1>13 DEF Linked, catalogue, Creating, Running
<1> QED BY <1>6, <1>7, <1>8, <1>9, <1>10, <1>11, <1>12, <1>13 DEF SeedStep

LEMMA SettingsInvStep ==
    ASSUME SettingsTypeOK, SettingsInv, NEW a \in Actors, SettingsStep(a)
    PROVE  SettingsInv'
<1> DEFINE A == Defaulting
           B == Defaulting'
<1>1. Len(settings) \in Nat /\ Len(settings') \in Nat
  BY SettingsTypeStep, LenProperties DEF SettingsTypeOK
<1>2. A \in SUBSET Actors /\ B \in SUBSET Actors
  BY DEF Defaulting
<1>3. actor \in [Actors -> Actor]
  BY DEF SettingsTypeOK
<1>4. ASSUME NEW nr, Got(a, nr)
      PROVE  actor'[a].pc # "create" /\ \A b \in Actors \ {a} : actor'[b] = actor[b]
  BY <1>3, <1>4 DEF Got, Actor, NoActor
<1>5. ASSUME Len(settings') = Len(settings), B \subseteq A PROVE SettingsInv'
  BY <1>1, <1>2, <1>5, RaceStep, SettingsAssumption DEF SettingsInv
<1>6. CASE Find(a)
  <2>1. CASE settings # <<>>
    BY <1>4, <1>5, <1>6, <2>1 DEF Find, Defaulting, Is
  <2>2. CASE settings = <<>>
    <3>1. Len(settings) = 0 /\ Len(settings') = 0
      BY <1>6, <2>2 DEF Find
    <3> QED BY <1>2, <3>1, RaceStep, SettingsAssumption DEF SettingsInv
  <2> QED BY <2>1, <2>2
<1>7. CASE CreateDefault(a)
  <2>1. Len(settings') = Len(settings) + 1
    BY <1>7 DEF CreateDefault, SettingsTypeOK, Policy
  <2>2. a \in A /\ B \subseteq A \ {a}
    BY <1>4, <1>7 DEF CreateDefault, Defaulting, Is
  <2> QED BY <1>1, <1>2, <2>1, <2>2, RaceStep, SettingsAssumption DEF SettingsInv
<1>8. CASE SettingsFail(a)
  BY <1>3, <1>5, <1>8 DEF SettingsFail, Defaulting, Is, NoActor
<1>9. ASSUME NEW v \in Policies, Update(a, v) PROVE SettingsInv'
  <2>1. settings' = [settings EXCEPT ![actor[a].doc] = v] /\ settings \in Seq(Policy)
        /\ settings' \in Seq(Policy)
    BY <1>9, SettingsTypeStep DEF Update, SettingsTypeOK, SettingsStep
  <2>2. DOMAIN settings' = DOMAIN settings
    BY <2>1, LenProperties
  <2>3. Len(settings') = Len(settings)
    BY <2>1, <2>2, LenProperties
  <2> QED BY <1>3, <1>5, <1>9, <2>3 DEF Update, Defaulting, Is, NoActor
<1> QED BY <1>6, <1>7, <1>8, <1>9 DEF SettingsStep

----------------------------------------------------------------------------
(* The specification *)

StartupInv ==
    /\ SeedInv /\ SettingsTypeOK /\ starts \in Nat
    /\ CopiesInv /\ SettingsInv

LEMMA InitStartupInv == Init => StartupInv
<1> SUFFICES ASSUME Init PROVE StartupInv OBVIOUS
<1>1. SeedInv
  BY InitSeedInv DEF Init
<1>2. SettingsTypeOK
  BY NoActorTyped DEF Init, SettingsInit, SettingsTypeOK
<1>3. CopiesInv
  <2>1. \A n \in Names : copies[n] = 0 /\ Creating(n) \in SUBSET Processes
    BY DEF Init, SeedInit, Creating
  <2>2. \A n \in Names : Cardinality(Creating(n)) <= Cardinality(Processes)
                         /\ Cardinality(Creating(n)) \in Nat
    BY <2>1, FS_Subset, FS_CardinalityType, SeedingAssumption
  <2> QED BY <2>1, <2>2 DEF CopiesInv
<1>4. SettingsInv
  <2>1. Len(settings) = 0 /\ Defaulting \in SUBSET Actors
    BY DEF Init, SettingsInit, Defaulting
  <2>2. Cardinality(Defaulting) <= Cardinality(Actors) /\ Cardinality(Defaulting) \in Nat
    BY <2>1, FS_Subset, FS_CardinalityType, SettingsAssumption
  <2> QED BY <2>1, <2>2 DEF SettingsInv
<1> QED BY <1>1, <1>2, <1>3, <1>4 DEF StartupInv, Init

\* A process that starts or dies is not about to create anything.
LEMMA FewerCreating ==
    ASSUME SeedInv, CopiesInv, UNCHANGED copies,
           \A n \in Names : Creating(n)' \subseteq Creating(n)
    PROVE  CopiesInv'
<1> SUFFICES ASSUME NEW n \in Names
             PROVE  (copies[n] + Cardinality(Creating(n)) <= Cardinality(Processes))'
  BY DEF CopiesInv
<1>1. copies[n] \in Nat /\ Creating(n) \in SUBSET Processes
      /\ Creating(n)' \in SUBSET Processes
  BY DEF SeedInv, SeedTypeOK, Creating
<1> QED BY <1>1, RaceStep, SeedingAssumption DEF CopiesInv

LEMMA FewerDefaulting ==
    ASSUME SettingsTypeOK, SettingsInv, UNCHANGED settings, Defaulting' \subseteq Defaulting
    PROVE  SettingsInv'
<1>1. Len(settings) \in Nat /\ Defaulting \in SUBSET Actors /\ Defaulting' \in SUBSET Actors
  BY LenProperties DEF SettingsTypeOK, Defaulting
<1> QED BY <1>1, RaceStep, SettingsAssumption DEF SettingsInv

LEMMA NextStartupInv == StartupInv /\ [Next]_vars => StartupInv'
<1> SUFFICES ASSUME StartupInv, [Next]_vars PROVE StartupInv' OBVIOUS
<1> USE DEF StartupInv
<1>0. seed \in [Processes -> Seed] /\ actor \in [Actors -> Actor]
      /\ Processes \subseteq Actors
  BY StartupAssumption DEF SeedInv, SeedTypeOK, SettingsTypeOK, Actors
<1>1. ASSUME NEW p \in Processes, Start(p) PROVE StartupInv'
  <2>1. SeedInv' BY <1>1, StartSeedInv DEF Start
  <2>2. SettingsTypeOK' BY <1>0, <1>1, StartActorTyped DEF Start
  <2>3. CopiesInv'
    <3>1. seed'[p].pc = "check" /\ \A q \in Processes \ {p} : seed'[q] = seed[q]
      BY <1>0, <1>1 DEF Start, StartSeeding, Off
    <3>2. UNCHANGED copies
      BY <1>1 DEF Start, StartSeeding, catalogue
    <3>3. \A n \in Names : Creating(n)' \subseteq Creating(n)
      BY <3>1 DEF Creating, Running
    <3> QED BY <3>2, <3>3, FewerCreating
  <2>4. SettingsInv'
    <3>1. Defaulting' \subseteq Defaulting
      BY <1>0, <1>1 DEF Start, StartActor, Defaulting, Is, NoActor
    <3> QED BY <1>1, <3>1, FewerDefaulting DEF Start, StartActor
  <2> QED BY <1>1, <2>1, <2>2, <2>3, <2>4 DEF Start
<1>2. ASSUME NEW p \in Processes, Die(p) PROVE StartupInv'
  <2>1. SeedInv' BY <1>2, StopSeedInv DEF Die
  <2>2. SettingsTypeOK' BY <1>0, <1>2, NoActorTyped DEF Die, SettingsTypeOK
  <2>3. CopiesInv'
    <3>1. seed'[p].pc = "check" /\ \A q \in Processes \ {p} : seed'[q] = seed[q]
      BY <1>0, <1>2 DEF Die, StopSeeding, Off
    <3>2. UNCHANGED copies
      BY <1>2 DEF Die, StopSeeding, catalogue
    <3>3. \A n \in Names : Creating(n)' \subseteq Creating(n)
      BY <3>1 DEF Creating, Running
    <3> QED BY <3>2, <3>3, FewerCreating
  <2>4. SettingsInv'
    <3>1. Defaulting' \subseteq Defaulting
      BY <1>0, <1>2 DEF Die, Defaulting, Is, NoActor
    <3> QED BY <1>2, <3>1, FewerDefaulting DEF Die
  <2> QED BY <1>2, <2>1, <2>2, <2>3, <2>4 DEF Die
<1>3. ASSUME NEW p \in Processes, Seeds(p) PROVE StartupInv'
  <2>1. SeedInv' /\ CopiesInv'
    BY <1>3, SeedStepSeedInv, CopiesStep DEF Seeds
  <2>2. UNCHANGED <<settingVars, starts>>
    BY <1>3 DEF Seeds
  <2> QED BY <2>1, <2>2 DEF settingVars, SettingsTypeOK, SettingsInv, Defaulting, Is
<1>4. ASSUME UNCHANGED seedVars PROVE SeedInv' /\ CopiesInv'
  <2>1. SeedInv' BY <1>4, IdleSeedInv
  <2>2. CopiesInv'
    BY <1>4 DEF CopiesInv, Creating, Running, seedVars, catalogue
  <2> QED BY <2>1, <2>2
<1>5. ASSUME NEW a \in Actors, UsesSettings(a) PROVE StartupInv'
  BY <1>4, <1>5, SettingsTypeStep, SettingsInvStep DEF UsesSettings
<1>6. ASSUME NEW a \in Calls, NEW puts \in BOOLEAN, Call(a, puts) PROVE StartupInv'
  <2>1. SettingsTypeOK' BY <1>6, StartActorTyped DEF Call, Actors
  <2>2. SettingsInv'
    <3>1. Defaulting' \subseteq Defaulting
      BY <1>0, <1>6 DEF Call, StartActor, Defaulting, Is, NoActor
    <3> QED BY <1>6, <3>1, FewerDefaulting DEF Call, StartActor
  <2> QED BY <1>4, <1>6, <2>1, <2>2 DEF Call
<1>7. CASE UNCHANGED vars
  BY <1>4, <1>7 DEF vars, settingVars, SettingsTypeOK, SettingsInv, Defaulting, Is
<1> QED BY <1>1, <1>2, <1>3, <1>5, <1>6, <1>7 DEF Next

LEMMA StartupInvariant == Spec => []StartupInv
BY InitStartupInv, NextStartupInv, PTL DEF Spec

\* Each variable of the two services keeps its type.
THEOREM StartupTypeCorrect == Spec => []TypeOK
BY StartupInvariant, PTL DEF StartupInv, SeedInv, TypeOK

\* Of a name there are never more documents than processes, however often
\* they start (seedStores, seedCategories, seedCustomizations, seedMenus).
THEOREM DuplicatesAreBounded == Spec => []DuplicatesBounded
<1>1. StartupInv => DuplicatesBounded
  <2> SUFFICES ASSUME StartupInv, NEW n \in Names
               PROVE  copies[n] <= Cardinality(Processes)
    BY DEF DuplicatesBounded
  <2>1. Creating(n) \in SUBSET Processes /\ copies[n] \in Nat
    BY DEF Creating, StartupInv, SeedInv, SeedTypeOK
  <2>2. Cardinality(Creating(n)) \in Nat /\ Cardinality(Processes) \in Nat
    BY <2>1, FS_Subset, FS_CardinalityType, SeedingAssumption
  <2> QED BY <2>1, <2>2 DEF StartupInv, CopiesInv
<1> QED BY <1>1, StartupInvariant, PTL

\* A customization refers only to menus that exist and list it, whatever
\* crashed or overlapped between the two writes of createMenuWithRelations.
THEOREM BackReferencesAreSound == Spec => []BackReferencesSound
<1>1. StartupInv => BackReferencesSound
  BY DEF StartupInv, SeedInv, CatalogueOK, SoundRef, BackReferencesSound
<1> QED BY <1>1, StartupInvariant, PTL

\* A process that has finished leaves every menu of the data there, with all
\* its customizations (onModuleInit of SeedService, in the order of its lists).
THEOREM SeededMenusAreComplete == Spec => []SeededMenusComplete
<1>1. StartupInv => SeededMenusComplete
  <2> SUFFICES ASSUME StartupInv, NEW p \in Processes, Seeded(p), NEW m \in Menus
               PROVE  \E d \in menuDocs : d.id[1] = m /\ d.lists = Offers[m]
    BY DEF SeededMenusComplete
  <2>1. copies[m] > 0
    BY Lists DEF StartupInv, SeedInv, ProcessOK, Seeded
  <2> QED BY <2>1 DEF StartupInv, SeedInv, CatalogueOK
<1> QED BY <1>1, StartupInvariant, PTL

\* The settings documents are never more than the actors that can race for
\* the first one (the check-then-create of SettingsService).
THEOREM SettingsAreBounded == Spec => []SettingsBounded
<1>1. StartupInv => SettingsBounded
  <2> SUFFICES ASSUME StartupInv PROVE Len(settings) <= Cardinality(Actors)
    BY DEF SettingsBounded
  <2>1. Defaulting \in SUBSET Actors /\ Len(settings) \in Nat
    BY LenProperties DEF Defaulting, StartupInv, SettingsTypeOK
  <2>2. Cardinality(Defaulting) \in Nat /\ Cardinality(Actors) \in Nat
    BY <2>1, FS_Subset, FS_CardinalityType, SettingsAssumption
  <2> QED BY <2>1, <2>2 DEF StartupInv, SettingsInv
<1> QED BY <1>1, StartupInvariant, PTL

----------------------------------------------------------------------------
(* The links of the menus *)

\* Process p is still to push the menu id into the customization k.
ToPush(p, id, k) == Doing(p, "link") /\ seed[p].doc = id /\ k \in seed[p].found

\* While no two processes hold lists at once, the lists held are those
\* stored, and a link that is neither there nor abandoned is about to be made.
LinksInv == ~overlapped =>
    /\ \A p, q \in Processes : HoldsLists(p) /\ HoldsLists(q) => p = q
    /\ \A p \in Processes : HoldsLists(p) =>
          \A k \in seed[p].found : seed[p].loaded[k] = back[k]
    /\ \A d \in menuDocs : \A k \in d.lists :
          \/ d.id \in back[k]
          \/ <<d.id, k>> \in abandoned
          \/ \E p \in Processes : ToPush(p, d.id, k)

\* The process p becomes x, and is the only one with lists if x has any.
LEMMA LinksIf ==
    ASSUME SeedInv, LinksInv, NEW p \in Processes, UNCHANGED linkHistory,
           NEW x \in Seed, seed' = [seed EXCEPT ![p] = x],
           HoldsLists(p) \/ (back' = back /\ x.pc \notin {"find", "link"}),
           ~overlapped /\ x.pc \in {"find", "link"} =>
              \A k \in x.found : x.loaded[k] = back'[k],
           ~overlapped => \A d \in menuDocs' : \A k \in d.lists :
              \/ d.id \in back'[k]
              \/ <<d.id, k>> \in abandoned
              \/ \E q \in Processes \ {p} : ToPush(q, d.id, k)
              \/ x.stage \in 1 .. 4 /\ x.pc = "link" /\ x.doc = d.id /\ k \in x.found
    PROVE  LinksInv'
<1> SUFFICES ASSUME ~overlapped PROVE LinksInv'
  BY DEF LinksInv, linkHistory
<1>1. seed'[p] = x /\ \A q \in Processes \ {p} : seed'[q] = seed[q]
  BY DEF SeedInv, SeedTypeOK
<1>2. /\ HoldsLists(p)' => x.pc \in {"find", "link"}
      /\ \A q \in Processes \ {p} :
            /\ HoldsLists(q)' <=> HoldsLists(q)
            /\ \A id, k : ToPush(q, id, k)' <=> ToPush(q, id, k)
      /\ \A id, k : x.stage \in 1 .. 4 /\ x.pc = "link" /\ x.doc = id /\ k \in x.found
                       => ToPush(p, id, k)'
  BY <1>1 DEF HoldsLists, Doing, Running, ToPush
<1>3. \A q, r \in Processes : HoldsLists(q)' /\ HoldsLists(r)' => q = r
  BY <1>2 DEF LinksInv
<1>4. ASSUME NEW q \in Processes, HoldsLists(q)', NEW k \in seed'[q].found
      PROVE  seed'[q].loaded[k] = back'[k]
  <2>1. CASE q = p
    BY <1>1, <1>2, <1>4, <2>1
  <2>2. CASE q # p
    <3>1. HoldsLists(q) /\ ~HoldsLists(p)
      BY <1>2, <1>4, <2>2 DEF LinksInv
    <3> QED BY <1>1, <1>4, <2>2, <3>1 DEF LinksInv
  <2> QED BY <2>1, <2>2
<1>5. ASSUME NEW d \in menuDocs', NEW k \in d.lists
      PROVE  \/ d.id \in back'[k]
             \/ <<d.id, k>> \in abandoned'
             \/ \E q \in Processes : ToPush(q, d.id, k)'
  BY <1>2, <1>5 DEF linkHistory
<1> QED BY <1>3, <1>4, <1>5 DEF LinksInv

\* What p has still to push, or another process.
LEMMA LinkedOrToPush ==
    ASSUME LinksInv, ~overlapped, NEW p \in Processes,
           NEW d \in menuDocs, NEW k \in d.lists
    PROVE  \/ d.id \in back[k]
           \/ <<d.id, k>> \in abandoned
           \/ \E q \in Processes \ {p} : ToPush(q, d.id, k)
           \/ ToPush(p, d.id, k)
BY DEF LinksInv

\* A step of p that leaves the catalogue alone, when it has no link to make.
LEMMA QuietLinks ==
    ASSUME SeedInv, LinksInv, NEW p \in Processes,
           seed[p].pc = "link" => seed[p].found = {},
           UNCHANGED <<menuDocs, back, linkHistory>>,
           NEW x \in Seed, seed' = [seed EXCEPT ![p] = x],
           HoldsLists(p) \/ x.pc \notin {"find", "link"},
           ~overlapped /\ x.pc \in {"find", "link"} =>
              \A k \in x.found : x.loaded[k] = back[k]
    PROVE  LinksInv'
<1>1. \A id, k : ~ToPush(p, id, k)
  BY DEF ToPush, Doing
<1>2. ~overlapped => \A d \in menuDocs' : \A k \in d.lists :
          \/ d.id \in back'[k]
          \/ <<d.id, k>> \in abandoned
          \/ \E q \in Processes \ {p} : ToPush(q, d.id, k)
  BY <1>1, LinkedOrToPush
<1> QED BY <1>2, LinksIf

LEMMA LinkLinks ==
    ASSUME SeedInv, LinksInv, NEW p \in Processes, NEW k \in Customizations, Link(p, k)
    PROVE  LinksInv'
<1> DEFINE x == [seed[p] EXCEPT !.found = @ \ {k}]
<1>1. /\ seed[p] \in Seed /\ back \in [Customizations -> SUBSET MenuId]
      /\ Running(p) /\ seed[p].pc = "link" /\ seed[p].stage \in 1 .. 4
      /\ menuDocs \subseteq MenuDoc
  BY DEF Link, Doing, SeedInv, SeedTypeOK, Running
<1>2. /\ x \in Seed /\ x.found = seed[p].found \ {k} /\ x.loaded = seed[p].loaded
      /\ x.stage = seed[p].stage /\ x.pc = "link" /\ x.doc = seed[p].doc
  BY <1>1 DEF Seed
<1>3. /\ seed' = [seed EXCEPT ![p] = x] /\ UNCHANGED linkHistory
      /\ back'[k] = seed[p].loaded[k] \cup {seed[p].doc}
      /\ \A j \in Customizations \ {k} : back'[j] = back[j]
      /\ menuDocs' = menuDocs
  BY <1>1 DEF Link, Push
<1>4. HoldsLists(p) /\ (~overlapped => \A j \in seed[p].found : seed[p].loaded[j] = back[j])
  BY <1>1 DEF LinksInv, HoldsLists, Doing
<1>5. k \in seed[p].found /\ seed[p].found \subseteq Customizations
  BY <1>1 DEF Link, Seed
<1>6. ASSUME ~overlapped, NEW d \in menuDocs', NEW j \in d.lists
      PROVE  \/ d.id \in back'[j]
             \/ <<d.id, j>> \in abandoned
             \/ \E q \in Processes \ {p} : ToPush(q, d.id, j)
             \/ x.stage \in 1 .. 4 /\ x.pc = "link" /\ x.doc = d.id /\ j \in x.found
  <2>1. \/ d.id \in back[j]
        \/ <<d.id, j>> \in abandoned
        \/ \E q \in Processes \ {p} : ToPush(q, d.id, j)
        \/ seed[p].doc = d.id /\ j \in seed[p].found
    BY <1>3, <1>6, LinkedOrToPush DEF ToPush
  <2>2. j \in Customizations
    BY <1>1, <1>3 DEF MenuDoc
  <2>3. CASE j = k
    BY <1>3, <1>4, <1>5, <1>6, <2>1, <2>3
  <2>4. CASE j # k
    BY <1>1, <1>2, <1>3, <2>1, <2>2, <2>4
  <2> QED BY <2>3, <2>4
<1>7. ~overlapped => \A j \in x.found : x.loaded[j] = back'[j]
  BY <1>2, <1>3, <1>4, <1>5
<1> HIDE DEF x
<1> QED BY <1>1, <1>2, <1>3, <1>4, <1>6, <1>7, LinksIf

LEMMA CreateMenuLinks ==
    ASSUME SeedInv, LinksInv, NEW p \in Processes, CreateMenu(p)
    PROVE  LinksInv'
<1> DEFINE m == seed[p].name
           id == <<m, copies[m] + 1>>
           x == [seed[p] EXCEPT !.pc = "link", !.doc = id]
<1>1. /\ seed[p] \in Seed /\ Running(p) /\ seed[p].pc = "find" /\ seed[p].stage \in 1 .. 4
      /\ seed \in [Processes -> Seed]
  BY DEF CreateMenu, Doing, SeedInv, SeedTypeOK, Running
<1>2. id \in MenuId
  <2>1. m \in ListOf(4)
    BY <1>1, AtName DEF SeedInv, ProcessOK
  <2> QED BY <2>1, Lists DEF SeedInv, SeedTypeOK, MenuId, Names
<1>3. /\ x \in Seed /\ x.found = seed[p].found /\ x.loaded = seed[p].loaded
      /\ x.stage = seed[p].stage /\ x.pc = "link" /\ x.doc = id
  BY <1>1, <1>2 DEF Seed
<1>4. /\ seed' = [seed EXCEPT ![p] = x]
      /\ UNCHANGED linkHistory /\ back' = back
      /\ menuDocs' = menuDocs \cup {NewMenu(m, id, seed[p].found)}
  BY <1>1 DEF CreateMenu
<1>5. HoldsLists(p) /\ (~overlapped => \A k \in seed[p].found : seed[p].loaded[k] = back[k])
  BY <1>1 DEF LinksInv, HoldsLists, Doing
<1>6. ASSUME ~overlapped, NEW d \in menuDocs', NEW k \in d.lists
      PROVE  \/ d.id \in back'[k]
             \/ <<d.id, k>> \in abandoned
             \/ \E q \in Processes \ {p} : ToPush(q, d.id, k)
             \/ x.stage \in 1 .. 4 /\ x.pc = "link" /\ x.doc = d.id /\ k \in x.found
  <2>1. CASE d \in menuDocs
    <3>1. ~ToPush(p, d.id, k)
      BY <1>1 DEF ToPush, Doing
    <3> QED BY <1>4, <1>6, <2>1, <3>1, LinkedOrToPush
  <2>2. CASE d = NewMenu(m, id, seed[p].found)
    BY <1>1, <1>3, <1>6, <2>2 DEF NewMenu
  <2> QED BY <1>4, <2>1, <2>2
<1>7. ~overlapped => \A k \in x.found : x.loaded[k] = back'[k]
  BY <1>3, <1>4, <1>5
<1> HIDE DEF x
<1> QED BY <1>3, <1>4, <1>5, <1>6, <1>7, LinksIf

\* A process begins to look customizations up: nobody else holds lists, or
\* the two overlap.
LEMMA BeginLinks ==
    ASSUME SeedInv, LinksInv, NEW p \in Processes, seed[p].pc = "category",
           UNCHANGED <<catalogue, abandoned>>,
           overlapped' = (overlapped \/ \E q \in Processes \ {p} : HoldsLists(q)),
           NEW x \in Seed, seed' = [seed EXCEPT ![p] = x],
           x.pc = "find", x.found = {}
    PROVE  LinksInv'
<1> SUFFICES ASSUME ~overlapped' PROVE LinksInv' BY DEF LinksInv
<1>1. /\ ~overlapped /\ \A q \in Processes \ {p} : ~HoldsLists(q) /\ seed'[q] = seed[q]
      /\ seed'[p] = x
  BY DEF SeedInv, SeedTypeOK
<1>2. /\ \A q \in Processes \ {p} : ~HoldsLists(q)'
      /\ \A q \in Processes : \A id, k : ~ToPush(q, id, k)
  BY <1>1 DEF HoldsLists, ToPush, Doing, Running
<1> QED BY <1>1, <1>2 DEF LinksInv, catalogue

LEMMA StepLinks ==
    ASSUME SeedInv, LinksInv, NEW p \in Processes, SeedStep(p)
    PROVE  LinksInv'
<1>t. /\ seed \in [Processes -> Seed] /\ seed[p] \in Seed /\ Running(p)
      /\ seed[p].pc \notin {"find", "link"} => seed[p].found = {}
  BY DEF SeedStep, NextList, Check, Create, FindCategory, FindCustomization, Link,
         CreateMenu, Linked, Doing, SeedInv, SeedTypeOK, ProcessOK
<1>1. CASE NextList(p)
  <2> DEFINE i == seed[p].stage + 1
             x == [seed[p] EXCEPT !.stage = i, !.todo = ListOf(i)]
  <2>1. seed[p].pc = "check" /\ i \in 0 .. 5 /\ ListOf(i) \in SUBSET Names
    BY <1>1, <1>t, Lists DEF NextList, Doing, Running
  <2>2. x \in Seed
    BY <1>t, <2>1, ListTyped, Zenon
  <2>3. x.pc = "check" /\ x.found = {} /\ seed' = [seed EXCEPT ![p] = x]
    BY <1>1, <1>t, <2>1 DEF NextList, Seed
  <2> HIDE DEF x
  <2> QED BY <1>1, <1>t, <2>1, <2>2, <2>3, QuietLinks DEF NextList, catalogue
\* Past a name, with the catalogue unchanged.
<1>2. ASSUME NEW n, Past(p, n), UNCHANGED <<menuDocs, back, linkHistory>>,
             seed[p].pc = "link" => seed[p].found = {}
      PROVE  LinksInv'
  <2>1. PICK x \in Seed : seed' = [seed EXCEPT ![p] = x] /\ x.pc = "check"
    BY <1>2, PastFields DEF SeedInv
  <2> QED BY <1>2, <2>1, QuietLinks
<1>3. ASSUME NEW n \in Names, Check(p, n) PROVE LinksInv'
  <2>1. CASE copies[n] > 0
    BY <1>2, <1>3, <2>1 DEF Check, Doing, catalogue
  <2>2. CASE ~(copies[n] > 0)
    <3> DEFINE c == IF n \in Menus THEN "category" ELSE "create"
               x == [seed[p] EXCEPT !.name = n, !.pc = c]
    <3>1. x \in Seed /\ x.pc \notin {"find", "link"} /\ seed' = [seed EXCEPT ![p] = x]
      BY <1>3, <1>t, <2>2 DEF Check, Seed
    <3> HIDE DEF x
    <3> QED BY <1>3, <1>t, <3>1, QuietLinks DEF Check, Doing, catalogue
  <2> QED BY <2>1, <2>2
<1>4. CASE Create(p)
  BY <1>2, <1>4 DEF Create, Doing
<1>5. CASE FindCategory(p)
  <2> DEFINE m == seed[p].name
  <2>1. CASE copies[CategoryOf[m]] > 0
    <3> DEFINE x == [seed[p] EXCEPT !.pc = "find", !.wanted = Offers[m]]
    <3>1. seed[p].pc = "category" /\ Offers[m] \subseteq Customizations
      <4>1. seed[p].pc = "category"
        BY <1>5 DEF FindCategory, Doing
      <4>2. m \in Menus
        BY <1>t, <4>1, AtName, Lists DEF SeedInv, ProcessOK
      <4> QED BY <4>1, <4>2, SeedingAssumption DEF DataConsistent
    <3>2. x \in Seed /\ x.pc = "find" /\ x.found = {} /\ seed' = [seed EXCEPT ![p] = x]
      BY <1>5, <1>t, <2>1, <3>1 DEF FindCategory, Seed
    <3> HIDE DEF x
    <3> QED BY <1>5, <3>1, <3>2, <2>1, BeginLinks DEF FindCategory
  <2>2. CASE ~(copies[CategoryOf[m]] > 0)
    BY <1>2, <1>5, <2>2 DEF FindCategory, Doing, catalogue, linkHistory
  <2> QED BY <2>1, <2>2
<1>6. ASSUME NEW k \in Customizations, FindCustomization(p, k) PROVE LinksInv'
  <2> DEFINE x == [seed[p] EXCEPT !.wanted = @ \ {k},
                            !.found = IF copies[k] > 0 THEN @ \cup {k} ELSE @,
                            !.loaded[k] = back[k]]
  <2>1. /\ seed[p].pc = "find" /\ back \in [Customizations -> SUBSET MenuId]
        /\ seed[p].loaded \in [Customizations -> SUBSET MenuId]
        /\ seed[p].found \subseteq Customizations
    BY <1>6, <1>t DEF FindCustomization, Doing, SeedInv, SeedTypeOK, Seed
  <2>2. /\ x \in Seed /\ x.found \subseteq seed[p].found \cup {k}
        /\ x.loaded[k] = back[k]
        /\ \A j \in Customizations \ {k} : x.loaded[j] = seed[p].loaded[j]
    BY <1>t, <2>1 DEF Seed
  <2>3. seed' = [seed EXCEPT ![p] = x]
    BY <1>6, <1>t DEF FindCustomization
  <2>4. /\ HoldsLists(p)
        /\ ~overlapped => \A j \in seed[p].found : seed[p].loaded[j] = back[j]
    BY <1>t, <2>1 DEF LinksInv, HoldsLists, Doing
  <2>5. ~overlapped => \A j \in x.found : x.loaded[j] = back[j]
    BY <2>1, <2>2, <2>4
  <2>6. UNCHANGED <<menuDocs, back, linkHistory>>
    BY <1>6 DEF FindCustomization, catalogue
  <2> HIDE DEF x
  <2> QED BY <2>1, <2>2, <2>3, <2>4, <2>5, <2>6, QuietLinks
<1>7. CASE Linked(p)
  BY <1>2, <1>7 DEF Linked, catalogue
<1> QED BY <1>1, <1>3, <1>4, <1>5, <1>6, <1>7, LinkLinks, CreateMenuLinks DEF SeedStep

LEMMA StartLinks ==
    ASSUME SeedInv, LinksInv, NEW p \in Processes, seed[p].stage = 0, StartSeeding(p)
    PROVE  LinksInv'
<1> DEFINE x == [Off EXCEPT !.stage = 1, !.todo = ListOf(1)]
<1>1. ~HoldsLists(p) /\ \A id, k : ~ToPush(p, id, k)
  BY DEF HoldsLists, ToPush, Doing, Running
<1>2. /\ \A q \in Processes \ {p} : seed'[q] = seed[q]
      /\ seed'[p].pc = "check"
      /\ UNCHANGED <<catalogue, linkHistory>>
  BY DEF StartSeeding, Off, SeedInv, SeedTypeOK
<1>3. ~HoldsLists(p)' /\ \A q \in Processes \ {p} :
          /\ HoldsLists(q)' <=> HoldsLists(q)
          /\ \A id, k : ToPush(q, id, k)' <=> ToPush(q, id, k)
  BY <1>2 DEF HoldsLists, ToPush, Doing, Running
<1> QED BY <1>1, <1>2, <1>3 DEF LinksInv, catalogue, linkHistory

\* What a process had still to push when it died is abandoned.
LEMMA StopLinks ==
    ASSUME SeedInv, LinksInv, NEW p \in Processes, StopSeeding(p)
    PROVE  LinksInv'
<1> SUFFICES ASSUME ~overlapped PROVE LinksInv' BY DEF LinksInv, StopSeeding
<1>1. /\ \A q \in Processes \ {p} : seed'[q] = seed[q]
      /\ seed'[p].stage = 0
      /\ UNCHANGED <<catalogue, overlapped>>
      /\ abandoned' = abandoned \cup ToLink(p)
  BY DEF StopSeeding, Off, SeedInv, SeedTypeOK
<1>2. ~HoldsLists(p)' /\ \A q \in Processes \ {p} :
          /\ HoldsLists(q)' <=> HoldsLists(q)
          /\ \A id, k : ToPush(q, id, k)' <=> ToPush(q, id, k)
  BY <1>1 DEF HoldsLists, ToPush, Doing, Running
<1>3. \A id, k : ToPush(p, id, k) => <<id, k>> \in abandoned'
  BY <1>1 DEF ToPush, ToLink
<1> QED BY <1>1, <1>2, <1>3 DEF LinksInv, catalogue

\* Every link of a menu is made, is about to be made, or was still to be made
\* by a process that died, as long as no two processes push menus at the same
\* time (seedMenus): no restart loses or overwrites another one.
THEOREM BackReferencesAreComplete == Spec => []BackReferencesComplete
<1>1. Init => LinksInv
  BY DEF Init, SeedInit, LinksInv, HoldsLists, Off, Running, Doing
<1>2. StartupInv /\ LinksInv /\ [Next]_vars => LinksInv'
  <2> SUFFICES ASSUME StartupInv, LinksInv, [Next]_vars PROVE LinksInv' OBVIOUS
  <2>0. SeedInv
    BY DEF StartupInv
  <2>1. ASSUME NEW p \in Processes, Start(p) \/ Die(p) \/ Seeds(p) PROVE LinksInv'
    BY <2>0, <2>1, StartLinks, StopLinks, StepLinks DEF Start, Die, Seeds
  <2>2. CASE UNCHANGED seedVars
    BY <2>2 DEF LinksInv, HoldsLists, Running, Doing, ToPush, seedVars, catalogue,
                linkHistory
  <2> QED BY <2>1, <2>2 DEF Next, UsesSettings, Call, vars
<1>3. LinksInv => BackReferencesComplete
  BY DEF LinksInv, BackReferencesComplete, ToPush
<1> QED BY <1>1, <1>2, <1>3, StartupInvariant, PTL DEF Spec
=============================================================================
