----------------------------- MODULE MemoryMap ------------------------------
(***************************************************************************)
(* The registry of mem_map.c: ranges of addresses and the device behind    *)
(* each.  Addresses have 32 bits in the code and AddrMod values here; the  *)
(* ends of ranges are computed in the same width and wrap.                 *)
(***************************************************************************)
EXTENDS Naturals, SequencesExt

CONSTANT AddrMod           \* the number of addresses

ASSUME AddrModAssumption == AddrMod \in Nat \ {0}

Addr == 0 .. AddrMod - 1
Unit == [base : Addr, size : 1 .. AddrMod, device : STRING]

\* addr_t addition, for an amount of at most AddrMod.
AddrAdd(a, n) == IF a + n < AddrMod THEN a + n ELSE a + n - AddrMod

RangesOverlap(a, b) ==
  /\ a.base < AddrAdd(b.base, b.size)
  /\ b.base < AddrAdd(a.base, a.size)

\* A unit that overlaps a registered one is refused.
AddDevice(units, u) ==
  IF \E i \in DOMAIN units : RangesOverlap(u, units[i]) THEN units ELSE Append(units, u)

Matches(u, addr, width) ==
  /\ addr >= u.base
  /\ AddrAdd(addr, width) <= AddrAdd(u.base, u.size)

\* The position of the first unit that matches, 0 when none does.
FindUnit(units, addr, width) ==
  SelectInSeq(units, LAMBDA u : Matches(u, addr, width))

=============================================================================
