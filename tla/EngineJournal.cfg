\* Three fills, two requests at a time and two crashes, in every configuration.
CONSTANTS
    Fills = {f1, f2, f3}
    Calls = {c1, c2}
    Modes = {"journal", "journal_sync", "sync"}
    MaxEventId = 2
    MaxCrashes = 2
    NoFill = NoFill
    NoSnapshot = NoSnapshot
SPECIFICATION Spec
SYMMETRY Symmetry
INVARIANTS
    CommittedFillIsKept ServesOnlyPublished
CHECK_DEADLOCK FALSE
