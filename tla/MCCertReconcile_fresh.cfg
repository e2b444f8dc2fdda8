\* A half-stored renewal.
CONSTANTS
    Deploy <- MCOneTarget
    Apps = 0
    MaxRevisions = 3
    MaxFaults = 1
    MaxChanges = 0
SPECIFICATION FairSpec
PROPERTIES
    ReusedFilesAreFresh
