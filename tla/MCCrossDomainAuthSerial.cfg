SPECIFICATION Spec
CONSTANTS
    NumSessions = 2
    Serial = TRUE
    MaxCopies = 1
    MaxDropped = 0
    UI_AC1 = 90
    UI_AC2 = 91
    UA_AS1 = 180100591
    SAC_AS1 <- MCSac
    SAC_NEW <- MCNew
    Nil = Nil
INVARIANTS
    Completion
    FreshScalars
    AddressAgreed
CHECK_DEADLOCK FALSE
