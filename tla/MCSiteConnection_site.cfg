\* One site, two tasks; the tools change once, one fault.
CONSTANTS
    home = home
    a = a
    b = b
    NoOne = NoOne
    Sites = {home}
    Tasks = {a, b}
    Versions = {1, 2}
    LiveVersions = {1}
    MaxChanges = 1
    MaxFaults = 1
SPECIFICATION FairSpec
CHECK_DEADLOCK FALSE
INVARIANTS
    TypeOK
    CatalogIsCurrent
    EntitiesAreCurrent
    CallsRunOnce
PROPERTIES
    SitesComeBack
