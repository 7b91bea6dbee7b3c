CONSTANTS
    Ports = {0, 1}
    l0 = l0
    l1 = l1
    t0 = t0
    t1 = t1
    b0 = b0
    b1 = b1
    Lines = {l0, l1}
    Tags = {t0, t1}
    Bytes = {b0, b1}
    Values = {0, 1}
    None = None
    NotFirst = l1
    Zero = 0
    Requests <- MCRequests
    BootState <- MCBootState
    BootImage <- MCBootImage
    PowerUp <- MCPowerUp
SPECIFICATION LiveSpec
INVARIANTS CacheIInv
PROPERTIES IsMemory Served
