SPECIFICATION FairSpec
CONSTANTS
    east = east
    north = north
    air = air
    e1 = e1
    e2 = e2
    n1 = n1
    a1 = a1
    OrgSeq <- MCOrgSeq
    PeersOf <- MCPeersOf
    MaxFaults = 3
    Nil = Nil
INVARIANTS
    CommittedByAll
    FirstPeersHaveIt
    CommittedIsKnown
PROPERTIES
    ApprovedIsCommitted
