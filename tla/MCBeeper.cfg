SPECIFICATION Spec
CONSTANTS
    RepMax = 2
    Writers = {w1, w2}
INVARIANTS OffIsSilent ExitLeavesNothing
PROPERTIES RepeatsExactly BeepEnds
CHECK_DEADLOCK FALSE
