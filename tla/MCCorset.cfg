\* Every order of every subset of the declarations of each theme; three iterations,
\* so that a chain of four definitions may be abandoned.
SPECIFICATION MCSpec
CONSTANTS
  ResolverCircuits <- Written
  SIZE = 5
  LIMIT = 3
  UINT = 32
  Circuits <- MCCircuits
  Valid <- MCValid
  Traces <- MCTraces
  Arrays <- MCArrays
  Widths <- MCWidths
  ModuleOf <- MCModules
  Externs <- MCExterns
  REGISTER_WIDTH = 3
  MCEnvironments <- SmallEnvironments
  ENFORCE_TYPES = FALSE
  ENFORCE_LIMB_TYPES = TRUE
INVARIANTS ResolvedRight TranslatedRight AllocatedRight
PROPERTY CompilationEnds
\* the compiler stops with its verdict
CHECK_DEADLOCK FALSE
