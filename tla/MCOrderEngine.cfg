SPECIFICATION EngineSpec
CONSTANTS
    None = None
    Alice = Alice
    Bob = Bob
    Users = {Alice, Bob}
    BalanceOf <- MCBalanceOf
    Orders <- MCOrders
    Markets <- MCMarkets
    Balances = {2, 3}
    OwnPaths <- MCOwnPaths
    OwnRoots <- MCOwnRoots
    MaxLeaves = 5
INVARIANT EngineTypeOK
INVARIANT MembersExecutable
INVARIANT OnlyMembersAccepted
INVARIANT ReplaysDetected
PROPERTY ImplementsBook
