SPECIFICATION Spec
CONSTANTS
  BufSize = 3
  Configs <- MixedConfigs
  Lengths <- ThreeLengths
  MaxBytes = 9
  Calls = 2
INVARIANTS TypeOK Delivered NothingHidden
CHECK_DEADLOCK FALSE
