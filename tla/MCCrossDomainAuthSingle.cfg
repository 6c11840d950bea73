SPECIFICATION FairSpec
CONSTANTS
    NumSessions = 1
    Serial = FALSE
    MaxCopies = 1
    MaxDropped = 1
    UI_AC1 = 90
    UI_AC2 = 91
    UA_AS1 = 180100591
    SAC_AS1 <- MCSac
    SAC_NEW <- MCNew
    Nil = Nil
INVARIANTS
    TypeOK
    HandledOnce
    InjectiveAgreement
    EphemeralPair
    ReportedKeyConfirmed
PROPERTIES
    SessionCompletes
CHECK_DEADLOCK FALSE
