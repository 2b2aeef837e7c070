SPECIFICATION EngineSpec
CONSTANTS
    None = None
    Alice = Alice
    Bob = Bob
    Users = {Alice, Bob}
    BalanceOf <- MCBalanceOf
    Orders <- MCOrdersOfTwo
    Markets <- MCMarkets
    Balances = {2, 3}
    OwnPaths <- MCOwnPaths
    OwnRoots <- MCOwnRootsOfTwo
    MaxLeaves = 3
INVARIANT MaxPriceKept
