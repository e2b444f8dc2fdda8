\* Two instances and an API that never fails: concurrent cleanups.
CONSTANTS
    c1 = c1
    c2 = c2
    r1 = r1
    r2 = r2
    r3 = r3
    mail = mail
    Clients = {c1, c2}
    Challenges = {r1, r2}
    Owner <- MCTwoOwners
    Base = {mail}
    MutationAttempts = 2
    HttpTries = 1
    MaxCalls = 1
    Faults = FALSE
    LateWrites = FALSE
SPECIFICATION Spec
CHECK_DEADLOCK FALSE
INVARIANTS
    CleanupsConverge
