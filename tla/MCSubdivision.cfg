\* a schema, an assignment and a word are split once
CHECK_DEADLOCK FALSE
SPECIFICATION MCSpec
CONSTANTS
    Parts = {"schema", "assignment", "word"}
    RegisterWidth = 2
    BandWidth = 3
    Modulus = 11
    WideModulus = 40009
    FieldWidth = 1000
    Programs <- AllPrograms
    MaxWidth = 7
INVARIANTS SubdivisionComplete  SplitExact
