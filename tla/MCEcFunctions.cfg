SPECIFICATION Spec
CONSTANTS
    fan = fan
    user = user
    exit = exit
    NoClient = NoClient
    Clients = {fan, user}
    Unlocked = {}
    Byte <- MCByte
    Jobs <- MCJobs
    EcTimeout = 1
    MayRefuse = FALSE
INVARIANTS TypeOK ReadAnswersCall JobsWhole
PROPERTIES RegistersSpec JobsInOrder
