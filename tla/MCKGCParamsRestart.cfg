SPECIFICATION FairSpec
CONSTANTS
    MaxCrashes = 2
    MaxResets = 2
    MaxMisreads = 1
    MaxFailures = 1
    Stray = Stray
    Absent = Absent
    Torn = Torn
    Nil = Nil
INVARIANTS
    AnswersVerify
    IssuedKeyKept
PROPERTIES
    ComesToServe
