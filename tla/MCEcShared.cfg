SPECIFICATION SharedSpec
CONSTANTS
    user = user
    NoClient = NoClient
    Clients <- MCClients
    Unlocked = {}
    Byte <- MCByte
    Jobs <- MCJobs
    Beepers = {beep}
    EcTimeout = 1
    MayRefuse = TRUE
    TooShort = {3}
PROPERTIES WriteVerified PortsReleased LoopEnds
