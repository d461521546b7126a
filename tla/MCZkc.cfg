SPECIFICATION MCSpec
CONSTANTS
    Prime = 7
    External <- Declared
    WIDTH = 2
    LoopBound = 12
    Fuel = 300
    Size = 4
    Main = "main"
    Roms = {"in"}
    Statics = {"table"}
    Rams = {"ram"}
    Woms = {"out"}
    StaticData <- MCStatic
    Registers = 3
    MaxWord = 3
    MaxSteps = 20
    MaxBoots = 2
    RebootAfterFailure = FALSE
INVARIANTS SourceKept CodeKept MachineComputes
\* A behaviour ends with the runs, the analysis or the execution.
CHECK_DEADLOCK FALSE
