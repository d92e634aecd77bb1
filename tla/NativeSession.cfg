SPECIFICATION FairSpec
CONSTANTS
    Profile = "native"
    Catalogs = {medium, update}
    Offline = medium
    None = none
    Attempts = 3
    MaxFaults = 3
INVARIANTS
    TypeOK
    OnePlan
    OpenOnlyByFault
PROPERTY
    FaultlessAttemptInstalls
\* A session that is installed, or given up, has no further step.
CHECK_DEADLOCK FALSE
