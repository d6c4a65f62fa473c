SPECIFICATION Spec
CONSTANTS
    PowerAt = 1
    ReleaseAfter = 2
    ResetAt = 3
    SeenMax = 5
INVARIANTS StuckOnlyAfterShortPress FaultsOnlyAtTheEdges RemoveLeavesNothing
PROPERTIES HeldResetReported
CHECK_DEADLOCK FALSE
