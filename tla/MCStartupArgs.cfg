CHECK_DEADLOCK FALSE
CONSTANTS
  Settings <- MCSettings
  MaxFaults = 2
SPECIFICATION Spec
INVARIANT ArgumentsOverrideFile
