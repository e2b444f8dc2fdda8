\* One instance alone with two challenges, no request applied late.
CONSTANTS
    c1 = c1
    c2 = c2
    r1 = r1
    r2 = r2
    r3 = r3
    mail = mail
    Clients = {c1}
    Challenges = {r1, r2}
    Owner <- MCOneOwner
    Base = {mail}
    MutationAttempts = 3
    HttpTries = 2
    MaxCalls = 3
    Faults = TRUE
    LateWrites = FALSE
SPECIFICATION Spec
CHECK_DEADLOCK FALSE
PROPERTIES
    ImplementsAtomicZone
