SPECIFICATION Spec
CONSTANTS
    g1 = g1
    k1 = k1
    Processes = {p1, p2}
    Stores = {s1}
    Categories = {g1}
    Customizations = {k1}
    Menus = {m1, m2}
    CategoryOf <- InG1
    Offers <- WithK1
    Hooks = {p1, p2}
    Calls = {q1}
    Policies = {v1}
    Default = v0
    MaxStarts = 3
    Null = Null
INVARIANTS
    TypeOK
    DuplicatesBounded
    BackReferencesSound
    SeededMenusComplete
    BackReferencesComplete
    SettingsBounded
CONSTRAINT HookFirst
SYMMETRY Symmetry
CHECK_DEADLOCK FALSE
