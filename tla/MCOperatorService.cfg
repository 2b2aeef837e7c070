SPECIFICATION ServiceSpec
CONSTANTS
    Tasks = {t1, t2, t3}
    MAX_BLOCKS_PER_BATCH = 2
    MaxBlock = 5
    MaxRestarts = 1
INVARIANT OperatorTypeOK
INVARIANT WindowBounded
INVARIANT QuotedBeforeMatched
INVARIANT SubmittedOnce
INVARIANT WindowsDrain
PROPERTY ImplementsBatching
PROPERTY BatchesFinish
PROPERTY MonitoringStarts
CHECK_DEADLOCK FALSE
