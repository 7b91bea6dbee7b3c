CONSTANTS
    v1 = v1
    v2 = v2
    Cards = {v1, v2}
    SupportedCards = {v1}
    FatCards = {v1}
    Nothing = Nothing
    Blocks = {0, 1}
    BlockWords = 2
    CounterSpan = 2
    PipelineLength = 1
    PoolBlocks = 3
    Retries = 1
SPECIFICATION Spec
INVARIANTS BlockIntact BlocksAccounted RepliesWhole NoLostWakeup
PROPERTIES DmaOwned ChangesNoticed
