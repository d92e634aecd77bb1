SPECIFICATION FairSpec
CONSTANTS
    Packages = {firmware, driver}
    FileCount = 3
    MaxFaults = 3
    PackageUpdates = TRUE
INVARIANTS
    TypeOK
    JournalsCoherent
    RuntimeNeverAhead
    MutationsAreJournaled
    RolledBackIsRestored
    RollbackIsNeverRefused
PROPERTIES
    RolledBackIsFinal
    VerifiedIsPublished
    ImplementsAtomicInstall
    EverySettles
\* An installation that is settled, or never applied, has no further step.
CHECK_DEADLOCK FALSE
