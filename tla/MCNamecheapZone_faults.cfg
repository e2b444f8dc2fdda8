\* Two instances, one challenge each; every kind of fault, fairness.
CONSTANTS
    c1 = c1
    c2 = c2
    r1 = r1
    r2 = r2
    r3 = r3
    mail = mail
    Clients = {c1, c2}
    Challenges = {r1, r2}
    Owner <- MCTwoOwners
    Base = {mail}
    MutationAttempts = 2
    HttpTries = 1
    MaxCalls = 2
    Faults = TRUE
    LateWrites = TRUE
SPECIFICATION FairSpec
CHECK_DEADLOCK FALSE
INVARIANTS
    TypeOK
    BasePreserved
PROPERTIES
    ReportsAreVerified
    RemovedStaysGone
    CallsReturn
    PublishedIsCleanedUp
