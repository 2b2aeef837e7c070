SPECIFICATION ServiceSpec
CONSTANTS
    Tasks = {t1}
    MAX_BLOCKS_PER_BATCH = 2
    MaxBlock = 3
    MaxRestarts = 1
CHECK_DEADLOCK FALSE
INVARIANT RegistrationBelieved
