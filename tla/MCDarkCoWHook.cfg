SPECIFICATION Spec
CONSTANTS
    A = A
    B = B
    C = C
    u1 = u1
    u2 = u2
    p1 = p1
    p2 = p2
    Hook = Hook
    None = None
    NoKey = NoKey
    Currencies = {A, B, C}
    Users = {u1, u2}
    Pools = {p1, p2}
    PoolKeyOf <- MCPoolKeyOf
    Amounts = {2, 3}
    TransferLists <- MCTransferLists
    SwapLists <- MCSwapLists
    MaxInt128 = 2
    MaxQuote = 1
    InitHeld <- MCInitHeld
    InitAmm <- MCInitAmm
INVARIANT TypeOK
INVARIANT TakesAreCovered
INVARIANT NothingUnsettled
PROPERTY PaysTheBatch
PROPERTY ImplementsLedger
