SPECIFICATION Spec
CONSTANTS
    Aircraft = {as1}
    Orgs = {east, other}
    KGCs = {east}
    CIDs = {c1, c2}
    MaxTime = 2
    MaxTxs = 4
    Padded <- Plain
    Nil = Nil
INVARIANTS
    TypeOK
    LedgerInv
    VersionNamesCredential
PROPERTIES
    AtomicBook
CHECK_DEADLOCK FALSE
