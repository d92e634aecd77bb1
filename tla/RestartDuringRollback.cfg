SPECIFICATION FairSpec
CONSTANTS
    Packages = {driver}
    FileCount = 2
    MaxFaults = 2
    PackageUpdates = FALSE
PROPERTY
    VerifiedRollbackFinishes
CHECK_DEADLOCK FALSE
