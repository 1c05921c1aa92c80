SPECIFICATION FairSpec
CONSTANTS
    Emails = {e1}
    Codes = {c1, c2}
    Requests = {r1, r2}
    MaxCrashes = 1
    Null = Null
INVARIANTS
    TypeOK
    CodeUsableUntilVerified
    StoredCodeIsMailed
PROPERTIES
    EveryMailSent
CHECK_DEADLOCK FALSE
