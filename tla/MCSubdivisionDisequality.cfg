\* the subdivision ends
CHECK_DEADLOCK FALSE
SPECIFICATION MCSpec
CONSTANTS
    Parts = {"schema"}
    RegisterWidth = 2
    BandWidth = 3
    Modulus = 11
    WideModulus = 40009
    FieldWidth = 1000
    Programs <- Disequality
    MaxWidth = 7
INVARIANTS NoFalseAcceptance
