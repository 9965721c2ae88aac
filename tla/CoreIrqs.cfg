SPECIFICATION MCSpec
CONSTANTS
  EpochMod = 4
  SeqMod = 4
  WordMod = 16
  WordBits = 4
  None = None
  IR_QUEUE_DEPTH = 4
  RESET_PC = 4
  Inst <- Ir
  DecodeWord <- Decode
  Reg <- MCReg
  A0 = 1
  Programs <- IrqPrograms
  Forwardings <- BuildDefault
  DAddr <- MCDAddr
  DmemInit <- MCDmem
  IrqLines = {1, 2}
  PreciseIrqs = TRUE
  ImemWaits = FALSE
  DmemWaits = TRUE
  DmemSlots = 1
INVARIANTS KillReaches CsrRunsAhead RowsTrackTokens
PROPERTIES ImplementsIss BackendIsEnvironment
