SPECIFICATION Spec
CONSTANTS
    early = early
    late = late
    kernel = kernel
    Gate = {early, late}
    Locked = {kernel}
    Components <- MCComponents
    Revision = {r1, r2}
    Build = {b1, b2}
    Sequence = {s1, s2, s3}
    Time = {0, 1, 2}
    Retained <- MCRetained
    MinSoak <- MCMinSoak
    Required <- MCRequired
SYMMETRY Symmetry
INVARIANTS
    TypeOK
    SoakedInEachChannel
    ReleasesStandOnEvidence
    EveryBuildCanBePulled
    RetentionLeavesRoom
    SomeGateIsNext
