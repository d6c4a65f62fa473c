SPECIFICATION Spec
CONSTANTS
    Callers = {a, b}
    Slots <- SlotsUsed
    Power <- PowerSeen
INVARIANTS OnlyTheBootBit SlotsShown
SYMMETRY Symmetric
