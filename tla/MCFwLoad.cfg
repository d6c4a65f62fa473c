SPECIFICATION Spec
CONSTANTS
    Packet = 2
    MinLen = 3
    MaxLen = 4
    Polls = 2
    Images <- MCImages
INVARIANTS
    TypeOK
    UpgradeVerified
    DownloadComplete
    FlashFindsReady
PROPERTIES
    LoadEnds
