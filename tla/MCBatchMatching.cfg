SPECIFICATION BatchSpec
CONSTANTS
    token0 = token0
    token1 = token1
    token2 = token2
    pool01 = pool01
    pool12 = pool12
    pool02 = pool02
    NoScenario = NoScenario
    account = account
    alice = alice
    bob = bob
    Traders = {alice, bob, account}
    Senders <- MCSenders
    None = None
    Currencies = {token0, token1, token2}
    Pools = {pool01, pool12, pool02}
    PoolKeyOf <- MCPoolKeyOf
    Batches <- MCBatches
    MaxNumTasks = 6
    MaxSearched = 4
INVARIANT MatchTypeOK
INVARIANT EachTaskMatchedOnce
INVARIANT DirectPassIsMaximum
INVARIANT GroupsClose
INVARIANT SearchTypeOK
INVARIANT FindsACircle
INVARIANT CirclesBalance
 
CHECK_DEADLOCK FALSE
