SPECIFICATION ServiceSpec
CONSTANTS
    as1 = as1
    east = east
    c1 = c1
    c2 = c2
    Aircraft = {as1}
    Orgs = {east}
    KGCs = {east}
    CIDs = {c1, c2}
    MaxTime = 2
    MaxTxs = 3
    Padded <- Either
    Nil = Nil
    Clients = {a, b}
    OrgOf <- MCOrgOf
    Requests <- MCRequests
    MaxCalls = 4
    MaxLost = 1
INVARIANTS
    SuccessIsOnLedger
    PublishedOnce
    OneInForce
PROPERTIES
    CallsReturn
CHECK_DEADLOCK FALSE
