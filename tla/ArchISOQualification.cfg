SPECIFICATION Spec
CONSTANTS
    Snapshot = {august, september}
    Package = {desktop, driver}
    ChoicePackages = {desktop}
    None = none
    MaxChanges = 3
SYMMETRY Symmetry
INVARIANTS
    TypeOK
    AcceptedIsOneImage
    AcceptedWasRestored
    FreshBundleIsAccepted
CHECK_DEADLOCK FALSE
