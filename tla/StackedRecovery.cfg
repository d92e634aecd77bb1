SPECIFICATION FairSpec
CONSTANTS
    TransactionCount = 2
    Media = {m1}
    FileCount = 1
    MaxFaults = 1
PROPERTY
    RecoverSettlesStacked
CHECK_DEADLOCK FALSE
