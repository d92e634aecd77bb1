SPECIFICATION FairSpec
CONSTANTS
    Profile = "archiso"
    Catalogs = {medium}
    Offline = medium
    None = none
    Attempts = 1
    MaxFaults = 0
PROPERTY
    FaultlessAttemptInstalls
CHECK_DEADLOCK FALSE
