SPECIFICATION Spec
CONSTANTS
    Leds = {disk1}
    Levels = {0, 1}
    Triggers = {"normal", "timer"}
    Tries = 2
    Reboots = TRUE
    None = None
INVARIANTS TypeOK MutexGuardsExchange LastAskedIsLast
PROPERTIES AckIsOwnAlone BrightnessShown
CHECK_DEADLOCK FALSE
