SPECIFICATION FairSpec
CONSTANTS
    Gate = {g1, g2, g3, g4}
INVARIANTS
    TypeOK
    VerdictIsExact
PROPERTIES
    SearchEnds
\* The search ends.
CHECK_DEADLOCK FALSE
