SPECIFICATION FairSpec
CONSTANTS
    Modules <- MCModules
    Registers <- MCRegisters
    ModuleOf <- MCModuleOf
    Multiplier <- MCMultiplier
    Assignments <- MCAssignments
    FunctionAssignments <- MCFunctions
    Callee <- MCCallee
    None = "none"
    Reads <- MCReads
    Writes <- MCWrites
    Expands <- MCExpands
    Steps <- MCSteps
    Value <- MCValue
    NoData = NoData
    InitialTraces <- MCTraces
    Orders <- AllOrders
    BatchSizes = {1, 2, 5}
    FaultySets <- MCFaultySets
INVARIANTS ExactlyOnce InputsFinal QuietFill
PROPERTIES Terminates Serialised
CHECK_DEADLOCK FALSE
