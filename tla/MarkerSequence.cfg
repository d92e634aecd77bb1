SPECIFICATION FairSpec
CONSTANTS
    spawned = spawned
    session = session
    noise = noise
    Line = {spawned, session, noise}
    Markers <- MCMarkers
    Verifier = {lab, ci}
    MaxLines = 3
    MaxBoots = 2
    MaxKills = 1
INVARIANTS
    TypeOK
    EvidenceMatchesLog
PROPERTIES
    SearchIsExact
    EvidenceIsKept
    EvidenceAppears
\* When the bounds are reached nothing more happens.
CHECK_DEADLOCK FALSE
