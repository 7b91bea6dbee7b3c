CONSTANTS
    v1 = v1
    Cards = {v1}
    SupportedCards = {v1}
    FatCards = {v1}
    Nothing = Nothing
    Blocks = {0, 1}
    BlockWords = 2
    CounterSpan = 2
    PipelineLength = 1
    PoolBlocks = 3
    Retries = 1
SPECIFICATION Spec
INVARIANT OwnPointersFreed
