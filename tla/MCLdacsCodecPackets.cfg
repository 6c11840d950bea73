SPECIFICATION Spec
CONSTANTS
    Inputs <- MCInputs
    BufferSize = 12
    None = None
INVARIANTS
    PacksAsLaidOut
    DecodesWhatArrived
    CountShowsCut
CHECK_DEADLOCK FALSE
