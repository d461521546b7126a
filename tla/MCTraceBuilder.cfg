\* Build returns: it stops.
SPECIFICATION Spec
CHECK_DEADLOCK FALSE
CONSTANTS
    Schema <- MCSchema
    Prime = 5
    RegisterWidth = 2
    WordSize = 16
    Files <- MCFiles
    Configs <- MCConfigs
    NoData = NoData
INVARIANTS TraceOfFile ErrorsComplete
PROPERTY Terminates
