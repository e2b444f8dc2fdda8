\* A key of its own for every certificate or one for all; two targets, two apps.
CONSTANTS
    Deploy <- MCMixedTargets
    Apps = 2
    MaxRevisions = 4
    MaxFaults = 2
    MaxChanges = 1
SPECIFICATION FairSpec
INVARIANTS
    TypeOK
    OneIssuance
    MarkersAreTrue
    RestartAfterDeploy
    RestartsAreTrue
PROPERTIES
    EventuallyConsumed
