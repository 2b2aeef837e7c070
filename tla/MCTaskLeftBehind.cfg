SPECIFICATION ServiceSpec
CONSTANTS
    Tasks = {t1, t2, t3}
    MAX_BLOCKS_PER_BATCH = 2
    MaxBlock = 5
    MaxRestarts = 1
CHECK_DEADLOCK FALSE
INVARIANT NoTaskLeftBehind
