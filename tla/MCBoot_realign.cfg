CONSTANTS
    LineBytes = 16
    Images <- MCRaggedImages
    BufferSize = 96
    HeaderBuffer = 0
    PhdrBuffer = 64
    SectBuffer = 160
    OsFlashAddress = 4194304
    PhOffset = 52
    ShOffset = 2000
SPECIFICATION BootSpec
INVARIANTS OsLoaded
CHECK_DEADLOCK FALSE
