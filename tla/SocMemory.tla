----------------------------- MODULE SocMemory ------------------------------
(***************************************************************************)
(* The SoC's memory map as the DPI bridge and the ELF loader reach it: the *)
(* boot ROM and the DRAM with their bytes, and between them the CLINT, the *)
(* UART and the interrupt aggregator, of which only the answers are here;  *)
(* what their registers do is in Registers.  A unit's offset arrives       *)
(* unchecked: each device tests width, alignment and bounds itself.        *)
(***************************************************************************)
EXTENDS MemoryMap, Lanes

CONSTANTS
  RomSize, ClintBase, ClintSize, UartBase, IrqAggBase, IrqAggSize, DramBase, DramSize,
  ClintRegs,  \* the offsets of the CLINT's registers
  IoData,     \* the words that a read of a register may answer
  Rom         \* the bytes of the boot ROM: a function on 0 .. RomSize - 1

UartSize == 12

\* The regions lie one behind the other, in the order of their registration, and
\* the DRAM ends below the last address.
ASSUME SocAssumption ==
  /\ RomSize \in Nat \ {0} /\ ClintBase \in Nat /\ ClintSize \in Nat \ {0} /\ UartBase \in Nat
  /\ IrqAggBase \in Nat /\ IrqAggSize \in Nat /\ DramBase \in Nat /\ DramSize \in Nat \ {0}
  /\ RomSize <= ClintBase /\ ClintBase + ClintSize <= UartBase
  /\ UartBase + UartSize <= IrqAggBase /\ 8 <= IrqAggSize
  /\ IrqAggBase + IrqAggSize <= DramBase /\ DramBase + DramSize < AddrMod
  /\ \A n \in {AddrMod, RomSize, ClintBase, ClintSize, UartBase, IrqAggBase, IrqAggSize,
                DramBase, DramSize} : n % 4 = 0
  /\ ClintRegs \subseteq {o \in 0 .. ClintSize - 1 : o % 4 = 0}
  /\ IoData \subseteq Word /\ Rom \in [0 .. RomSize - 1 -> Byte]

\* The units in the order of their registration.
SocUnits == <<[base |-> 0, size |-> RomSize, device |-> "boot_rom"],
              [base |-> ClintBase, size |-> ClintSize, device |-> "clint"],
              [base |-> UartBase, size |-> UartSize, device |-> "uart"],
              [base |-> IrqAggBase, size |-> IrqAggSize, device |-> "irq_agg"],
              [base |-> DramBase, size |-> DramSize, device |-> "dram"]>>

Backing == [0 .. DramSize - 1 -> Byte]
ZeroBacking == [o \in 0 .. DramSize - 1 |-> 0]

\* register_unit for every unit, in their order.
Map ==
  LET After[n \in 0 .. Len(SocUnits)] ==
        IF n = 0 THEN <<>> ELSE AddDevice(After[n - 1], SocUnits[n])
  IN  After[Len(SocUnits)]

Okay(v) == [resp |-> "OKAY", value |-> v]
Slverr  == [resp |-> "SLVERR", value |-> Zero]
Decerr  == [resp |-> "DECERR", value |-> Zero]

BytesAt(store, offset, width) ==
  [i \in Lane |-> IF i < width THEN store[offset + i] ELSE 0]

\* Mutant of RomRead: the offset is taken as checked by the map; what lies behind
\* the array is no byte of it.
RomReadUnchecked(offset, width) ==
  Okay([i \in Lane |-> IF i >= width THEN 0
                       ELSE IF offset + i < RomSize THEN Rom[offset + i] ELSE 256])

RomRead(offset, width) ==
  IF width \notin MemLen \/ offset + width > RomSize
  THEN Slverr ELSE Okay(BytesAt(Rom, offset, width))

DramAccepts(offset, width) ==
  width \in MemLen /\ offset % width = 0 /\ offset + width <= DramSize

DramRead(mem, offset, width) ==
  IF DramAccepts(offset, width) THEN Okay(BytesAt(mem, offset, width)) ELSE Slverr

\* Strobe i stands for byte i of the access, whatever its lane on the bus.
Stored(mem, offset, width, value, strb) ==
  [o \in DOMAIN mem |->
     IF o - offset \in strb \cap 0 .. width - 1 THEN value[o - offset] ELSE mem[o]]

DramWrite(mem, offset, width, value, strb) ==
  IF ~DramAccepts(offset, width) \/ (width = 4 /\ strb # Lane)
  THEN [resp |-> "SLVERR", mem |-> mem]
  ELSE [resp |-> "OKAY", mem |-> Stored(mem, offset, width, value, strb)]

-----------------------------------------------------------------------------
\* The registers: UART 0 is TX_DATA, 4 STATUS, 8 RX_DATA; the aggregator's 0 is
\* PENDING, 4 ENABLE.  The UART alone serves bytes and halves.
RegisterReads(device, offset, width) ==
  CASE device = "clint"   -> width = 4 /\ offset \in ClintRegs
    [] device = "uart"    -> width \in MemLen /\ offset \in {4, 8}
    [] device = "irq_agg" -> width = 4 /\ offset \in {0, 4}
    [] OTHER -> FALSE

\* hostTakes: the host's stream takes a character.
RegisterWrites(device, offset, width, strb, hostTakes) ==
  /\ width = 4 => strb = Lane
  /\ CASE device = "clint"   -> width = 4 /\ offset \in ClintRegs
       [] device = "uart"    -> width \in MemLen /\ (offset = 4 \/ (offset = 0 /\ hostTakes))
       [] device = "irq_agg" -> width = 4 /\ offset \in {0, 4}
       [] OTHER -> FALSE         \* the boot ROM

-----------------------------------------------------------------------------
\* io is what a register answers, if the access reads one.
MapRead(mem, addr, width, io) ==
  LET i == FindUnit(Map, addr, width)
      device == Map[i].device
      offset == addr - Map[i].base
  IN  IF i = 0 THEN Decerr
      ELSE CASE device = "dram"     -> DramRead(mem, offset, width)
             [] device = "boot_rom" -> RomRead(offset, width)
             [] OTHER -> IF RegisterReads(device, offset, width) THEN Okay(io) ELSE Slverr

MapWrite(mem, w, hostTakes) ==
  LET i == FindUnit(Map, w.addr, w.width)
      device == Map[i].device
      offset == w.addr - Map[i].base
  IN  IF i = 0 THEN [resp |-> "DECERR", mem |-> mem]
      ELSE IF device = "dram" THEN DramWrite(mem, offset, w.width, w.value, w.strb)
      ELSE IF RegisterWrites(device, offset, w.width, w.strb, hostTakes)
      THEN [resp |-> "OKAY", mem |-> mem] ELSE [resp |-> "SLVERR", mem |-> mem]
=============================================================================
