SPECIFICATION Spec
CONSTANTS
    fan = fan
    user = user
    exit = exit
    NoClient = NoClient
    Clients = {fan, exit}
    Unlocked = {exit}
    Byte <- MCByte
    Jobs <- MCExitJobs
    EcTimeout = 1
    MayRefuse = FALSE
PROPERTIES RegistersSpec
CHECK_DEADLOCK FALSE
