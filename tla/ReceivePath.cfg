SPECIFICATION Spec
CONSTANTS
  MaxBytes = 4
  EarlyBytes = FALSE
INVARIANTS NoLostWakeup InOrder
PROPERTIES EveryByteReceived BufferDrains
