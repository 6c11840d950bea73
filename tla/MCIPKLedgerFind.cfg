SPECIFICATION Spec
CONSTANTS
    Aircraft = {as1}
    Orgs = {east}
    KGCs = {east}
    CIDs = {c1}
    MaxTime = 2
    MaxTxs = 2
    Padded <- Either
    Nil = Nil
SYMMETRY Symmetry
INVARIANTS
    PublishedIsFound
CHECK_DEADLOCK FALSE
