\* A term is simplified, a constraint checked, and a file loaded, once.
CHECK_DEADLOCK FALSE
SPECIFICATION MCSpec
CONSTANTS
  P = 13
  FieldWidth = 1000
  BYTE = 8
  WORD = 16
  MAJOR_VERSION = 11
  MINOR_VERSION = 1
  Versions <- MCVersions
  Files <- MCFiles
  Exponents = {2, 3}
  Constants = {0, 1, 2}
  Heights = {0, 2, 3, 4}
INVARIANTS SimplificationPreserves
