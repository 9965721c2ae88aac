SPECIFICATION MCSpec
CONSTANTS
  EpochMod = 4
  SeqMod = 4
  WordMod = 8
  None = None
  IR_QUEUE_DEPTH = 4
  RESET_PC = 0
  Inst <- MCInst
  DecodeWord <- MCDecode
INVARIANTS TypeOK PathInv
PROPERTIES DeliversStream OffersForever
