SPECIFICATION ManagerSpec
CONSTANTS
    p1 = p1
    p2 = p2
    Operators = {o1, o2}
    Addresses = {h1, h2}
    Orders <- MCOrders
    Payloads = {x}
    RefLists <- MCRefLists
    MaxUint32 = 2
    NoTask = NoTask
    Empty = Empty
    NoAddress = NoAddress
CHECK_DEADLOCK FALSE
INVARIANT EachTaskSettledOnce
