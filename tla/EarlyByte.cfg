SPECIFICATION Spec
CONSTANTS
  MaxBytes = 2
  EarlyBytes = TRUE
PROPERTY EveryByteReceived
