\* The assembler, the pipeline and the building of a condition stop.
CHECK_DEADLOCK FALSE
SPECIFICATION MCSpec
CONSTANTS
  RegisterWidth = 2
  BandWidth = 7
  Modulus = 251
  MaxSteps = 24
  MaxBody = 3
  MaxOperations = 2
  Device <- MCDevice
  Functions <- AllFunctions
  Proving <- ProvedFunctions
INVARIANTS AssembledRight CompiledExactly
PROPERTY ParsingEnds
