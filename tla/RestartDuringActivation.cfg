SPECIFICATION Spec
CONSTANTS
    Packages = {driver}
    FileCount = 2
    MaxFaults = 2
    PackageUpdates = FALSE
INVARIANT
    RollbackRestoresBootFiles
CHECK_DEADLOCK FALSE
