SPECIFICATION Spec
CONSTANTS
  AddrMod = 44
  RomSize = 4
  ClintBase = 4
  ClintSize = 8
  ClintRegs = {0}
  UartBase = 12
  IrqAggBase = 24
  IrqAggSize = 8
  DramBase = 32
  DramSize = 8
  IoData <- MCIo
  Rom <- MCRom
  CHUNK = 6
  MaxSegments = 1
  MaxSegment = 7
  MaxStores = 0
  StoreData <- MCData
  FileByte <- MCFile
INVARIANT SegmentsLoaded
CHECK_DEADLOCK FALSE
