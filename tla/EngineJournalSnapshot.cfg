\* A snapshot is taken while two placements commit.
CONSTANTS
    Fills = {f1, f2}
    Calls = {c1, c2}
    Modes = {"journal"}
    MaxEventId = 2
    MaxCrashes = 1
    NoFill = NoFill
    NoSnapshot = NoSnapshot
SPECIFICATION Spec
INVARIANTS
    SnapshotIdsAreReflected
CHECK_DEADLOCK FALSE
