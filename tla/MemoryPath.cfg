SPECIFICATION MCSpec
CONSTANTS
  AddrMod = 44
  RomSize = 4
  ClintBase = 4
  ClintSize = 8
  ClintRegs = {0}
  UartBase = 12
  IrqAggBase = 24
  IrqAggSize = 8
  DramBase = 32
  DramSize = 8
  IoData <- MCIo
  Rom <- MCRom
  CHUNK = 6
  MaxSegments = 2
  MaxSegment = 7
  MaxStores = 1
  StoreData <- MCData
  FileByte <- MCFile
INVARIANTS TypeOK LoadedExactly FaultsOutside
PROPERTY ImplementsByteMemory
CHECK_DEADLOCK FALSE
