SPECIFICATION Spec
CONSTANTS
    Leds = {disk1}
    Levels = {0, 1}
    Triggers = {"normal", "breath", "timer2", "timer"}
    Tries = 3
    Reboots = TRUE
    None = None
INVARIANTS NoWorkAfterFree
CHECK_DEADLOCK FALSE
