SPECIFICATION OnChainSpec
CONSTANTS
    Tasks = {0, 1, 2}
    MAX_BLOCKS_PER_BATCH = 2
    MaxBlock = 3
    MaxRestarts = 0
    Self = Self
    Hook = Hook
    Pool = Pool
    MaxTaskId = 2
    NoTask = NoTask
    Empty = Empty
    NoAddress = NoAddress
CHECK_DEADLOCK FALSE
INVARIANT SignatureRecovers
