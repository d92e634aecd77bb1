SPECIFICATION FairSpec
CONSTANTS
    TransactionCount = 3
    Media = {m1, m2}
    FileCount = 2
    MaxFaults = 2
INVARIANT
    QuietTargetExplained
PROPERTIES
    RolledBackToFound
    RolledBackHasAuthority
    RecoverSettlesAll
\* A target whose transactions are all settled has no further step.
CHECK_DEADLOCK FALSE
