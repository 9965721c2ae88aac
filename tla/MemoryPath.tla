----------------------------- MODULE MemoryPath -----------------------------
(***************************************************************************)
(* From a program file to a loaded value: load_elf fills the DRAM before   *)
(* the clock runs, and then the core's stores and loads pass the LSU, the  *)
(* testbench's bridge, the memory map and the device.  One access at a     *)
(* time: Core has the waiting and the interrupts.                          *)
(***************************************************************************)
EXTENDS ElfLoader

CONSTANTS
  CHUNK,        \* how many bytes load_elf moves at a time
  MaxSegments,  \* segments of a program
  MaxSegment,   \* bytes of a segment
  FileByte,     \* what the program's segments hold: a byte for every address
  MaxStores,    \* stores of a run
  StoreData     \* the words that are stored

ASSUME PathAssumption ==
  /\ CHUNK \in Nat \ {0} /\ MaxSegments \in Nat /\ MaxSegment \in 0 .. AddrMod /\ MaxStores \in Nat
  /\ StoreData \subseteq Word /\ FileByte \in [Addr -> Byte]

VARIABLES
  backing,    \* the DRAM's bytes
  loader,     \* where load_elf is: state, next address, bytes to come, segments so far
  access,     \* the core's access that is being answered
  reply,      \* how it ended
  stores,     \* the number of stores
  image       \* history: the segments' bytes that load_elf has written, and
              \* those of them that went out as single bytes above lane 0

vars == <<backing, loader, access, reply, stores, image>>

Loader == [state : {"headers", "segment", "failed", "done"}, rc : {"none", "0", "EFAULT", "EIO", "EINVAL", "ENOMEM"},
           addr : Addr, remaining : 0 .. MaxSegment, segments : 0 .. MaxSegments]
Reply(status, value) == [status |-> status, value |-> value]

NoAccess == [kind |-> "none"]
StoreOf(addr, len, data)   == [kind |-> "store", addr |-> addr, len |-> len, data |-> data]
LoadOf(addr, len, signext) == [kind |-> "load", addr |-> addr, len |-> len, signext |-> signext]

\* What a chunk of a segment is read into.
Dst(addr, len) == [i \in 0 .. len - 1 |-> FileByte[AddrAdd(addr, i)]]

Init ==
  /\ backing = ZeroBacking
  /\ loader = [state |-> "headers", rc |-> "none", addr |-> 0, remaining |-> 0, segments |-> 0]
  /\ access = NoAccess
  /\ reply = Reply("none", Zero)
  /\ stores = 0
  /\ image = [whole |-> {}, loose |-> {}]

-----------------------------------------------------------------------------
\* load_elf.

\* A PT_LOAD header with bytes in the file; the other headers are skipped.
SegmentHeader(addr, filesz) ==
  /\ loader.state = "headers"
  /\ loader.segments < MaxSegments
  /\ loader' = [loader EXCEPT !.state = "segment", !.addr = addr, !.remaining = filesz,
                              !.segments = loader.segments + 1]
  /\ UNCHANGED <<backing, access, reply, stores, image>>

\* One turn of the loop: read a chunk, write it, go on behind it.
LoadChunk(hostTakes) ==
  LET n    == IF loader.remaining > CHUNK THEN CHUNK ELSE loader.remaining
      out  == WriteSegment(backing, loader.addr, Dst(loader.addr, n), n, hostTakes)
      lead == Leading(loader.addr, n)
      word == 4 * Words(loader.addr, n)
      at(i) == AddrAdd(loader.addr, i)
      single == {at(i) : i \in (0 .. n - 1) \ (lead .. lead + word - 1)}
  IN  /\ loader.state = "segment"
      /\ backing' = out.mem
      /\ loader' =
           IF out.resp # "OKAY" THEN [loader EXCEPT !.state = "failed", !.rc = "EFAULT"]
           ELSE [loader EXCEPT !.addr = at(n), !.remaining = loader.remaining - n,
                               !.state = IF loader.remaining = n THEN "headers" ELSE "segment"]
      /\ image' = [whole |-> image.whole \cup {at(i) : i \in 0 .. n - 1},
                   loose |-> image.loose \cup {a \in single : a % 4 # 0}]
      /\ UNCHANGED <<access, reply, stores>>

\* The file is too short or cannot be read, a header is not what it must be, or
\* there is no memory for the buffer, which is asked for before the first segment.
FileFails(rc) ==
  /\ loader.state \in (IF rc = "EIO" THEN {"headers", "segment"} ELSE {"headers"})
  /\ rc = "ENOMEM" => loader.segments = 0
  /\ loader' = [loader EXCEPT !.state = "failed", !.rc = rc]
  /\ UNCHANGED <<backing, access, reply, stores, image>>

LoadEnds ==
  /\ loader.state = "headers"
  /\ loader' = [loader EXCEPT !.state = "done", !.rc = "0"]
  /\ UNCHANGED <<backing, access, reply, stores, image>>

-----------------------------------------------------------------------------
\* The core's accesses, after a load that succeeded.

\* A misaligned access halts in MEM and sends no request.
Misaligned(addr, len) ==
  /\ LsuMisaligned(addr, len)
  /\ reply' = Reply("misaligned", Zero)
  /\ UNCHANGED backing

StatusOf(resp) == IF resp = "OKAY" THEN "okay" ELSE "error"

SendStore(addr, len, data, hostTakes) ==
  LET out == MapWrite(backing, BridgeWrite(addr, ByteEnable(addr, len),
                                           StoreLanes(addr, len, data)), hostTakes)
  IN  /\ ~LsuMisaligned(addr, len)
      /\ backing' = out.mem
      /\ reply' = Reply(StatusOf(out.resp), Zero)

Store(addr, len, data) ==
  /\ loader.state = "done"
  /\ access = NoAccess /\ access' = StoreOf(addr, len, data)
  /\ stores < MaxStores
  /\ stores' = stores + 1
  /\ \/ Misaligned(addr, len)
     \/ \E hostTakes \in BOOLEAN : SendStore(addr, len, data, hostTakes)
  /\ UNCHANGED <<loader, image>>

SendLoad(addr, len, signext, io) ==
  LET out == MapRead(backing, BridgeReadAddr(addr), 4, io)
  IN  /\ ~LsuMisaligned(addr, len)
      /\ reply' = Reply(StatusOf(out.resp),
                        IF out.resp = "OKAY" THEN LoadFilter(addr, out.value, len, signext)
                        ELSE Zero)
      /\ UNCHANGED backing

Load(addr, len, signext) ==
  /\ loader.state = "done"
  /\ access = NoAccess /\ access' = LoadOf(addr, len, signext)
  /\ \/ Misaligned(addr, len)
     \/ \E io \in IoData : SendLoad(addr, len, signext, io)
  /\ UNCHANGED <<loader, stores, image>>

\* The instruction memory's port: a word that goes past the filter.
Fetch(addr, io) ==
  LET out == MapRead(backing, addr, 4, io)
  IN  /\ loader.state = "done"
      /\ access = NoAccess /\ access' = LoadOf(addr, 4, FALSE)
      /\ addr % 4 = 0
      /\ reply' = Reply(StatusOf(out.resp), out.value)
      /\ UNCHANGED <<backing, loader, stores, image>>

\* The instruction has its answer; another may send its access, behind an error as
\* well: a fetch may belong to an abandoned path.
Retires ==
  /\ access # NoAccess
  /\ access' = NoAccess
  /\ reply' = Reply("none", Zero)
  /\ UNCHANGED <<backing, loader, stores, image>>

LoadStep ==
  \/ \E addr \in Addr, n \in 1 .. MaxSegment : SegmentHeader(addr, n)
  \/ \E hostTakes \in BOOLEAN : LoadChunk(hostTakes)
  \/ \E rc \in {"EIO", "EINVAL", "ENOMEM"} : FileFails(rc)
  \/ LoadEnds

CoreStep ==
  \/ \E addr \in Addr, len \in MemLen, data \in StoreData : Store(addr, len, data)
  \/ \E addr \in Addr, len \in MemLen : \E signext \in Extensions(len) : Load(addr, len, signext)
  \/ \E addr \in Addr, io \in IoData : Fetch(addr, io)
  \/ Retires

Next == LoadStep \/ CoreStep

Spec == Init /\ [][Next]_vars
-----------------------------------------------------------------------------
\* Types of the variables; in particular no access leaves the arrays behind it.
TypeOK ==
  /\ backing \in Backing
  /\ loader \in Loader
  /\ access.kind \in {"none", "store", "load"}
  /\ reply.status \in {"none", "okay", "error", "misaligned"} /\ reply.value \in Word
  /\ stores \in 0 .. MaxStores
  /\ image.loose \subseteq image.whole /\ image.whole \subseteq Addr

RomAddrs  == 0 .. RomSize - 1
DramAddrs == DramBase .. DramBase + DramSize - 1

\* The words that hold a register which can be read, or written, and their bytes.
ReadRegs  == {ClintBase + o : o \in ClintRegs} \cup {UartBase + 4, UartBase + 8}
             \cup {IrqAggBase, IrqAggBase + 4}
WriteRegs == {ClintBase + o : o \in ClintRegs} \cup {UartBase, UartBase + 4}
             \cup {IrqAggBase, IrqAggBase + 4}
ReadRegAddrs  == {a \in Addr : a - (a % 4) \in ReadRegs}
WriteRegAddrs == {a \in Addr : a - (a % 4) \in WriteRegs}

\* Stores, loads and fetches of every length at every address, the ones that
\* wrap at the top included, are those of a byte memory beside registers: the
\* right bytes, none beside them, no byte of memory for an access to a register,
\* and a bus error for every address that has neither.
ByteMem == INSTANCE ByteMemory WITH
  Addresses <- Addr, Data <- StoreData,
  Readable  <- RomAddrs \cup DramAddrs,
  Writable  <- DramAddrs,
  ReadRegisters  <- ReadRegAddrs,
  WriteRegisters <- WriteRegAddrs,
  bytes     <- [a \in RomAddrs \cup DramAddrs |->
                  IF a \in RomAddrs THEN Rom[a] ELSE backing[a - DramBase]],
  booted    <- loader.state = "done"
ImplementsByteMemory == ByteMem!Spec

\* While and after a program is loaded, every byte of it that went out in a word
\* or at lane 0 is in its place, and nothing else of the DRAM has changed.
LoadedExactly ==
  stores = 0 =>
    \A a \in DramAddrs :
      /\ a \notin image.whole => backing[a - DramBase] = 0
      /\ a \in image.whole \ image.loose /\ loader.state # "failed"
           => backing[a - DramBase] = FileByte[a]

\* load_elf reports -EFAULT for no segment that is inside DRAM, and for every one
\* with a byte that is neither in DRAM nor in a register that can be written.
FaultsOutside ==
  /\ loader.rc = "EFAULT" => ~(image.whole \subseteq DramAddrs)
  /\ ~(image.whole \subseteq DramAddrs \cup WriteRegAddrs) => loader.rc = "EFAULT"

\* What elf_loader.c:18-21 says of the byte writes: a load that returns 0 has
\* written the segments, their edges included.
SegmentsLoaded ==
  loader.rc = "0" /\ stores = 0 =>
    \A a \in image.whole \cap DramAddrs : backing[a - DramBase] = FileByte[a]
=============================================================================
