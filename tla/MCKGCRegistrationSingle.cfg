SPECIFICATION FairSpec
CONSTANTS
    Entities = {e1}
    AtPort6001 = {e1}
    UAs = {u1}
    MaxCopies = 1
    MaxDropped = 1
    MaxCuts = 1
    Garbled = Garbled
    Nil = Nil
INVARIANTS
    PrintedKeysFit
    SecretKeyFits
PROPERTIES
    RegistrationCompletes
CHECK_DEADLOCK FALSE
