SPECIFICATION Spec
CONSTANTS
    Entities = {e1, e2}
    AtPort6001 = {e1, e2}
    UAs = {u1, u2}
    MaxCopies = 1
    MaxDropped = 0
    MaxCuts = 0
    Garbled = Garbled
    Nil = Nil
INVARIANTS
    TypeOK
    IssuedOnce
    PublishedWasIssued
    OwnKey
PROPERTIES
    KeepsDirectory
CHECK_DEADLOCK FALSE
