SPECIFICATION Spec
CONSTANTS
    Leds = {disk1}
    Levels = {0, 1}
    Triggers = {"normal", "breath", "timer2", "timer"}
    Tries = 3
    Reboots = FALSE
    None = None
PROPERTIES AckIsOwn
CHECK_DEADLOCK FALSE
