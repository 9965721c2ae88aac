----------------------------- MODULE ElfLoader ------------------------------
(***************************************************************************)
(* write_segment of elf_loader.c: a chunk of a segment as bytes up to the  *)
(* next word, whole words, and the bytes behind them, each written through *)
(* the memory map until one is refused.                                    *)
(***************************************************************************)
EXTENDS SocMemory

\* How many bytes go out one by one in front of the words, and how many words.
Leading(addr, len) ==
  LET gap == (4 - (addr % 4)) % 4 IN IF gap < len THEN gap ELSE len
Words(addr, len) == (len - Leading(addr, len)) \div 4

\* One byte, with the strobe of its lane on the bus.
ByteWrite(addr, b) ==
  [addr |-> addr, width |-> 1, strb |-> {addr % 4}, value |-> [Zero EXCEPT ![0] = b]]

WordWrite(addr, bytes) == [addr |-> addr, width |-> 4, strb |-> Lane, value |-> bytes]

\* Mutant of ChunkWrites: the words are taken from the start of the chunk.
ChunkWritesFromStart(addr, dst, len) ==
  LET lead    == Leading(addr, len)
      words   == Words(addr, len)
      Byte1(i) == ByteWrite(AddrAdd(addr, i), dst[i])
      Word1(i) == WordWrite(AddrAdd(addr, lead + i), [k \in Lane |-> dst[i + k]])
  IN  [i \in 1 .. lead |-> Byte1(i - 1)]
      \o [i \in 1 .. words |-> Word1(4 * (i - 1))]
      \o [i \in 1 .. len - lead - 4 * words |-> Byte1(lead + 4 * words + i - 1)]

\* The writes of a chunk in their order; dst gives its bytes.
ChunkWrites(addr, dst, len) ==
  LET lead    == Leading(addr, len)
      words   == Words(addr, len)
      Byte1(i) == ByteWrite(AddrAdd(addr, i), dst[i])
      Word1(i) == WordWrite(AddrAdd(addr, i), [k \in Lane |-> dst[i + k]])
  IN  [i \in 1 .. lead |-> Byte1(i - 1)]
      \o [i \in 1 .. words |-> Word1(lead + 4 * (i - 1))]
      \o [i \in 1 .. len - lead - 4 * words |-> Byte1(lead + 4 * words + i - 1)]

\* Mutant of WriteSegment: a refused write does not end it, the last one decides.
WriteSegmentGoesOn(mem, addr, dst, len, hostTakes) ==
  LET writes == ChunkWrites(addr, dst, len)
      After[n \in 0 .. Len(writes)] ==
        IF n = 0 THEN [resp |-> "OKAY", mem |-> mem]
        ELSE MapWrite(After[n - 1].mem, writes[n], hostTakes)
  IN  After[Len(writes)]

\* The state after the last write that was tried, and whether all were taken.  A
\* chunk writes an address at most once, so that the host is asked once at most.
WriteSegment(mem, addr, dst, len, hostTakes) ==
  LET writes == ChunkWrites(addr, dst, len)
      After[n \in 0 .. Len(writes)] ==
        IF n = 0 THEN [resp |-> "OKAY", mem |-> mem]
        ELSE IF After[n - 1].resp = "OKAY" THEN MapWrite(After[n - 1].mem, writes[n], hostTakes)
        ELSE After[n - 1]
  IN  After[Len(writes)]
=============================================================================
