SPECIFICATION Spec
CONSTANTS
    NumSessions = 1
    Serial = FALSE
    MaxCopies = 0
    MaxDropped = 0
    UI_AC1 = 90
    UI_AC2 = 91
    UA_AS1 = 180100591
    SAC_AS1 <- MCSac
    SAC_NEW <- MCNew
    Nil = Nil
INVARIANTS
    AnnouncedComplete
CHECK_DEADLOCK FALSE
