SPECIFICATION PoolSpec
CONSTANTS
    A = A
    B = B
    C = C
    u1 = u1
    p1 = p1
    p2 = p2
    o1 = o1
    Hook = Hook
    None = None
    NoKey = NoKey
    NoTask = NoTask
    Empty = Empty
    NoAddress = NoAddress
    Currencies = {A, B, C}
    Users = {u1}
    Pools = {p1, p2}
    PoolKeyOf <- MCPoolKeyOf
    Amounts = {1}
    TransferLists <- MCTransferLists
    SwapLists <- MCSwapLists
    MaxInt128 = 3
    MaxQuote = 1
    InitHeld <- MCInitHeld
    InitAmm <- MCInitAmm
    Operators = {o1}
    NextHook = NextHook
    Addresses = {Hook, NextHook}
    Orders <- MCOrders
    Payloads <- MCPayloads
    RefLists <- MCRefLists
    MaxUint32 = 2
INVARIANT EscrowMatchesTasks
INVARIANT CoveredByCleanBatches
PROPERTY ImplementsAtomicPool
CHECK_DEADLOCK FALSE
