SPECIFICATION FairSpec
CONSTANTS
    Packages = {driver}
    FileCount = 2
    MaxFaults = 2
    PackageUpdates = FALSE
PROPERTY
    RecoverSettles
CHECK_DEADLOCK FALSE
