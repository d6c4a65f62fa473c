SPECIFICATION Spec
CONSTANTS
    Callers = {a, b}
    Regs = {r1}
    None = None
INVARIANTS OneInside
PROPERTIES ShowsOwnAnswer FaultsOnlyAtTheEdges RemoveEnds
CHECK_DEADLOCK FALSE
