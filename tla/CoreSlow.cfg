SPECIFICATION MCFairSpec
CONSTANTS
  EpochMod = 4
  SeqMod = 4
  WordMod = 8
  WordBits = 3
  None = None
  IR_QUEUE_DEPTH = 4
  RESET_PC = 0
  Inst <- Ir
  DecodeWord <- Decode
  Reg <- MCReg
  A0 = 1
  Programs <- SlowPrograms
  Forwardings <- BuildDefault
  DAddr <- MCDAddr
  DmemInit <- MCDmem
  IrqLines = {}
  PreciseIrqs = TRUE
  ImemWaits = TRUE
  DmemWaits = TRUE
  DmemSlots = 1
INVARIANTS TypeOK OneRequest DmemRunsAhead
PROPERTIES ImplementsIss Progress
