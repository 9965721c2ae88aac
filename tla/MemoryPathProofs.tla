--------------------------- MODULE MemoryPathProofs ---------------------------
(***************************************************************************)
(* Proofs about MemoryPath: for every program, word to be stored, size of  *)
(* the boot ROM and the DRAM, number of addresses and chunk of the loader, *)
(* what a core loads is what was loaded or stored.  And about the registry *)
(* of the memory map alone: what its two tests decide.                     *)
(***************************************************************************)
EXTENDS MemoryPath, WellFoundedInduction, SequenceTheorems, TLAPS

-----------------------------------------------------------------------------
(* Induction.                                                               *)

\* The order of the natural numbers, as a relation.
Less == {ss \in Nat \X Nat : ss[1] < ss[2]}

\* Every set of numbers that is not empty has a least element.
LEMMA LeastNumber == \A T \in SUBSET Nat : T # {} => \E m \in T : \A n \in T : ~ (n < m)
<1> SUFFICES ASSUME NEW T \in SUBSET Nat, T # {} PROVE \E m \in T : \A n \in T : ~ (n < m)
  OBVIOUS
<1>1. IsWellFoundedOn(Less, Nat)
  BY NatLessThanWellFounded DEF OpToRel, Less
<1>2. PICK m \in T : \A n \in T : ~ (<<n, m>> \in Less)
  BY <1>1, WFMin
<1>3. \A n \in T : n < m => <<n, m>> \in Less
  BY DEF Less
<1>4. QED BY <1>2, <1>3, Zenon

\* So what holds of 0 and, with a number, of the next one, holds of all up to a bound.
LEMMA UpTo ==
  ASSUME NEW N \in Nat, NEW S, 0 \in S, \A n \in 1 .. N : n - 1 \in S => n \in S
  PROVE  0 .. N \subseteq S
<1>1. SUFFICES ASSUME (0 .. N) \ S # {} PROVE FALSE
  BY <1>1
<1>2. (0 .. N) \ S \in SUBSET Nat
  OBVIOUS
<1>3. PICK m \in (0 .. N) \ S : \A n \in (0 .. N) \ S : ~ (n < m)
  BY <1>1, <1>2, LeastNumber, Zenon
<1>4. m \in 1 .. N /\ m - 1 \in 0 .. N /\ m - 1 < m
  BY <1>3
<1>5. m - 1 \in S
  BY <1>3, <1>4
<1>6. QED BY <1>3, <1>4, <1>5

\* A recursion over the first N numbers with values in a set has a solution.
Solvable(N, V, base, step) ==
  \E f \in [0 .. N -> V] : f[0] = base /\ \A n \in 1 .. N : f[n] = step[n][f[n - 1]]

LEMMA RecursionExists ==
  ASSUME NEW N \in Nat, NEW V, NEW base \in V, NEW step \in [1 .. N -> [V -> V]]
  PROVE  Solvable(N, V, base, step)
<1> DEFINE Solves(f, m) ==
             f \in [0 .. m -> V] /\ f[0] = base /\ \A n \in 1 .. m : f[n] = step[n][f[n - 1]]
           Solved == {m \in 0 .. N : \E f : Solves(f, m)}
<1>1. 0 \in Solved
  <2>1. Solves([i \in 0 .. 0 |-> base], 0)
    OBVIOUS
  <2> HIDE DEF Solves
  <2>2. QED BY <2>1
<1>2. ASSUME NEW m \in 1 .. N, m - 1 \in Solved PROVE m \in Solved
  <2>1. PICK f : Solves(f, m - 1)
    BY <1>2
  <2> DEFINE g == [i \in 0 .. m |-> IF i = m THEN step[m][f[m - 1]] ELSE f[i]]
  <2>2. step[m] \in [V -> V] /\ m - 1 \in 0 .. m - 1 /\ f[m - 1] \in V /\
              \A i \in 0 .. m : i # m => i \in 0 .. m - 1
    BY <2>1
  <2>3. g \in [0 .. m -> V]
    BY <2>1, <2>2
  <2>4. \A n \in 1 .. m - 1 : f[n] = step[n][f[n - 1]]
    BY <2>1
  <2>5. \A n \in 1 .. m : g[n] = step[n][g[n - 1]]
    BY <2>2, <2>4
  <2>6. g[0] = base
    BY <2>1
  <2>7. Solves(g, m)
    BY <2>3, <2>5, <2>6, Zenon
  <2> HIDE DEF Solves, g
  <2>8. QED BY <2>7
<1>3. 0 .. N \subseteq Solved
  <2> HIDE DEF Solved
  <2>1. \A n \in 1 .. N : n - 1 \in Solved => n \in Solved
    BY <1>2
  <2>2. QED BY <1>1, <2>1, UpTo
<1>4. N \in Solved
  <2> HIDE DEF Solved
  <2>1. QED BY <1>3
<1>5. QED BY <1>4 DEF Solvable

-----------------------------------------------------------------------------
(* The memory map.                                                          *)

LEMMA Sizes ==
  /\ AddrMod \in Nat \ {0} /\ RomSize \in Nat /\ DramSize \in Nat /\ DramBase \in Nat
  /\ 0 < RomSize /\ RomSize <= DramBase /\ 0 < DramSize /\ DramBase + DramSize < AddrMod
  /\ AddrMod % 4 = 0 /\ RomSize % 4 = 0 /\ DramBase % 4 = 0 /\ DramSize % 4 = 0
  /\ Rom \in [0 .. RomSize - 1 -> Byte]
<1>1. AddrMod \in Nat \ {0}
  BY AddrModAssumption
<1>2. RomSize <= DramBase /\ 0 < RomSize /\ 0 < DramSize
  BY SocAssumption DEF UartSize
<1>3. QED BY <1>1, <1>2, SocAssumption

\* The units one by one.
LEMMA UnitsAre ==
  /\ Len(SocUnits) = 5
  /\ SocUnits[1] = [base |-> 0, size |-> RomSize, device |-> "boot_rom"]
  /\ SocUnits[2] = [base |-> ClintBase, size |-> ClintSize, device |-> "clint"]
  /\ SocUnits[3] = [base |-> UartBase, size |-> UartSize, device |-> "uart"]
  /\ SocUnits[4] = [base |-> IrqAggBase, size |-> IrqAggSize, device |-> "irq_agg"]
  /\ SocUnits[5] = [base |-> DramBase, size |-> DramSize, device |-> "dram"]
  BY DEF SocUnits

BaseOf(k) == SocUnits[k].base
EndOf(k) == SocUnits[k].base + SocUnits[k].size
In(k, addr) == BaseOf(k) <= addr /\ addr < EndOf(k)

LEMMA BasesAre ==
  /\ BaseOf(1) = 0 /\ BaseOf(2) = ClintBase /\ BaseOf(3) = UartBase
  /\ BaseOf(4) = IrqAggBase /\ BaseOf(5) = DramBase
  /\ EndOf(1) = RomSize /\ EndOf(2) = ClintBase + ClintSize /\ EndOf(3) = UartBase + 12
  /\ EndOf(4) = IrqAggBase + IrqAggSize /\ EndOf(5) = DramBase + DramSize
<1>1. 0 + RomSize = RomSize
  BY Sizes
<1>2. QED BY <1>1, UnitsAre DEF BaseOf, EndOf, UartSize

\* They are aligned, end below the last address and have no address in common.
LEMMA Layout ==
  /\ \A k \in 1 .. 5 : /\ BaseOf(k) \in Nat /\ EndOf(k) \in Nat /\ BaseOf(k) < EndOf(k)
                       /\ EndOf(k) < AddrMod
  /\ \A k \in 1 .. 5 : BaseOf(k) % 4 = 0 /\ EndOf(k) % 4 = 0
  /\ \A k \in 1 .. 5 : \A j \in 1 .. 5 : j < k => EndOf(j) <= BaseOf(k)
<1>1. /\ RomSize \in Nat /\ 0 < RomSize /\ ClintBase \in Nat /\ ClintSize \in Nat /\ 0 < ClintSize
      /\ UartBase \in Nat /\ IrqAggBase \in Nat /\ IrqAggSize \in Nat /\ 8 <= IrqAggSize
      /\ DramBase \in Nat /\ DramSize \in Nat /\ 0 < DramSize
      /\ RomSize <= ClintBase /\ ClintBase + ClintSize <= UartBase /\ UartBase + 12 <= IrqAggBase
      /\ IrqAggBase + IrqAggSize <= DramBase /\ DramBase + DramSize < AddrMod /\ AddrMod \in Nat
  BY Sizes, SocAssumption DEF UartSize
<1>2. /\ RomSize % 4 = 0 /\ ClintBase % 4 = 0 /\ ClintSize % 4 = 0 /\ UartBase % 4 = 0
      /\ IrqAggBase % 4 = 0 /\ IrqAggSize % 4 = 0 /\ DramBase % 4 = 0 /\ DramSize % 4 = 0
  BY SocAssumption
<1>3. \A k \in 1 .. 5 : k = 1 \/ k = 2 \/ k = 3 \/ k = 4 \/ k = 5
  OBVIOUS
<1>4. \A k \in 1 .. 5 : /\ BaseOf(k) \in Nat /\ EndOf(k) \in Nat /\ BaseOf(k) < EndOf(k)
                         /\ EndOf(k) < AddrMod
  BY <1>1, <1>3, BasesAre
<1>5. \A k \in 1 .. 5 : BaseOf(k) % 4 = 0 /\ EndOf(k) % 4 = 0
  <2>1. (ClintBase + ClintSize) % 4 = 0 /\ (UartBase + 12) % 4 = 0
    BY <1>1, <1>2
  <2>2. (IrqAggBase + IrqAggSize) % 4 = 0 /\ (DramBase + DramSize) % 4 = 0
    BY <1>1, <1>2
  <2>3. QED BY <1>2, <1>3, <2>1, <2>2, BasesAre
<1>6. \A k \in 1 .. 5 : \A j \in 1 .. 5 : j < k => EndOf(j) <= BaseOf(k)
  <2>1. /\ EndOf(1) <= BaseOf(2) /\ EndOf(2) <= BaseOf(3) /\ EndOf(3) <= BaseOf(4)
        /\ EndOf(4) <= BaseOf(5)
    BY <1>1, BasesAre
  <2>2. \A k \in 1 .. 5 : BaseOf(k) \in Nat /\ EndOf(k) \in Nat /\ BaseOf(k) < EndOf(k)
    BY <1>4
  <2>3. QED BY <1>3, <2>1, <2>2
<1>7. QED BY <1>4, <1>5, <1>6

LEMMA NoneOverlaps ==
  ASSUME NEW k \in 1 .. 5, NEW j \in 1 .. 5, j < k
  PROVE  ~ RangesOverlap(SocUnits[k], SocUnits[j])
<1>1. /\ BaseOf(j) \in Nat /\ EndOf(j) \in Nat /\ EndOf(j) < AddrMod
      /\ BaseOf(k) \in Nat /\ EndOf(j) <= BaseOf(k)
  BY Layout
<1>2. AddrAdd(SocUnits[j].base, SocUnits[j].size) = EndOf(j)
  BY <1>1 DEF AddrAdd, EndOf
<1>3. ~ (BaseOf(k) < EndOf(j))
  BY <1>1
<1>4. QED BY <1>2, <1>3 DEF RangesOverlap, BaseOf

\* All units are registered.
LEMMA MapIs == Map = SocUnits
<1> DEFINE Step(h) == [n \in 0 .. Len(SocUnits) |->
                         IF n = 0 THEN <<>> ELSE AddDevice(h[n - 1], SocUnits[n])]
           a == SocUnits[1] b == SocUnits[2] c == SocUnits[3] d == SocUnits[4] e == SocUnits[5]
           f == [n \in 0 .. 5 |-> IF n = 0 THEN <<>> ELSE IF n = 1 THEN <<a>>
                                  ELSE IF n = 2 THEN <<a, b>> ELSE IF n = 3 THEN <<a, b, c>>
                                  ELSE IF n = 4 THEN <<a, b, c, d>> ELSE <<a, b, c, d, e>>]
           g == CHOOSE h : h = Step(h)
<1>1. Len(SocUnits) = 5
  BY UnitsAre
<1>2. SocUnits = <<a, b, c, d, e>>
  BY DEF SocUnits
<1> HIDE DEF a, b, c, d, e
<1>3. /\ AddDevice(<<>>, a) = <<a>> /\ AddDevice(<<a>>, b) = <<a, b>>
      /\ AddDevice(<<a, b>>, c) = <<a, b, c>> /\ AddDevice(<<a, b, c>>, d) = <<a, b, c, d>>
      /\ AddDevice(<<a, b, c, d>>, e) = <<a, b, c, d, e>>
  <2>1. AddDevice(<<>>, a) = <<a>>
    BY DEF AddDevice
  <2>2. AddDevice(<<a>>, b) = <<a, b>>
    <3>1. ~ RangesOverlap(b, a)
      BY NoneOverlaps DEF a, b
    <3>2. DOMAIN <<a>> = {1} /\ <<a>>[1] = a
      OBVIOUS
    <3>3. AddDevice(<<a>>, b) = Append(<<a>>, b)
      BY <3>1, <3>2 DEF AddDevice
    <3>4. QED BY <3>3
  <2>3. AddDevice(<<a, b>>, c) = <<a, b, c>>
    <3>1. ~ RangesOverlap(c, a) /\ ~ RangesOverlap(c, b)
      BY NoneOverlaps DEF a, b, c
    <3>2. DOMAIN <<a, b>> = {1, 2} /\ <<a, b>>[1] = a /\ <<a, b>>[2] = b
      OBVIOUS
    <3>3. AddDevice(<<a, b>>, c) = Append(<<a, b>>, c)
      BY <3>1, <3>2 DEF AddDevice
    <3>4. QED BY <3>3
  <2>4. AddDevice(<<a, b, c>>, d) = <<a, b, c, d>>
    <3>1. ~ RangesOverlap(d, a) /\ ~ RangesOverlap(d, b) /\ ~ RangesOverlap(d, c)
      BY NoneOverlaps DEF a, b, c, d
    <3>2. DOMAIN <<a, b, c>> = {1, 2, 3} /\ <<a, b, c>>[1] = a /\ <<a, b, c>>[2] = b /\ <<a, b, c>>[3] = c
      OBVIOUS
    <3>3. AddDevice(<<a, b, c>>, d) = Append(<<a, b, c>>, d)
      BY <3>1, <3>2 DEF AddDevice
    <3>4. QED BY <3>3
  <2>5. AddDevice(<<a, b, c, d>>, e) = <<a, b, c, d, e>>
    <3>1. ~ RangesOverlap(e, a) /\ ~ RangesOverlap(e, b) /\ ~ RangesOverlap(e, c) /\ ~ RangesOverlap(e, d)
      BY NoneOverlaps DEF a, b, c, d, e
    <3>2. DOMAIN <<a, b, c, d>> = {1, 2, 3, 4} /\ <<a, b, c, d>>[1] = a /\ <<a, b, c, d>>[2] = b /\ <<a, b, c, d>>[3] = c /\ <<a, b, c, d>>[4] = d
      OBVIOUS
    <3>3. AddDevice(<<a, b, c, d>>, e) = Append(<<a, b, c, d>>, e)
      BY <3>1, <3>2 DEF AddDevice
    <3>4. QED BY <3>3
  <2>6. QED BY <2>1, <2>2, <2>3, <2>4, <2>5
<1>4. \A n \in 0 .. 5 : n = 0 \/ n = 1 \/ n = 2 \/ n = 3 \/ n = 4 \/ n = 5
  OBVIOUS
<1>5. f = Step(f)
  <2>1. /\ f[0] = <<>> /\ f[1] = <<a>> /\ f[2] = <<a, b>> /\ f[3] = <<a, b, c>>
        /\ f[4] = <<a, b, c, d>> /\ f[5] = <<a, b, c, d, e>>
    OBVIOUS
  <2>2. f = [n \in 0 .. 5 |-> f[n]]
    OBVIOUS
  <2> HIDE DEF f
  <2>3. /\ f[1] = AddDevice(f[0], SocUnits[1]) /\ f[2] = AddDevice(f[1], SocUnits[2])
        /\ f[3] = AddDevice(f[2], SocUnits[3]) /\ f[4] = AddDevice(f[3], SocUnits[4])
        /\ f[5] = AddDevice(f[4], SocUnits[5])
    BY <1>3, <2>1 DEF a, b, c, d, e
  <2>4. \A n \in 0 .. 5 : f[n] = IF n = 0 THEN <<>> ELSE AddDevice(f[n - 1], SocUnits[n])
    BY <1>4, <2>1, <2>3
  <2>5. QED BY <1>1, <2>2, <2>4
<1>6. g = Step(g)
  <2> HIDE DEF Step, f
  <2>1. QED BY <1>5
<1>7. Map = g[5]
  BY <1>1 DEF Map
<1> HIDE DEF g, f
<1>8. /\ g[0] = <<>> /\ g[1] = AddDevice(g[0], a) /\ g[2] = AddDevice(g[1], b)
      /\ g[3] = AddDevice(g[2], c) /\ g[4] = AddDevice(g[3], d) /\ g[5] = AddDevice(g[4], e)
  BY <1>1, <1>6 DEF a, b, c, d, e
<1>9. QED BY <1>2, <1>3, <1>7, <1>8

\* An aligned access does not go over the last address, and is inside a region or
\* outside of it with all of its bytes.
LEMMA Alignment ==
  ASSUME NEW addr \in Addr, NEW width \in MemLen, addr % width = 0
  PROVE  /\ addr \in Nat /\ width \in Nat /\ addr + width <= AddrMod
         /\ AddrAdd(addr, width) = IF addr + width = AddrMod THEN 0 ELSE addr + width
         /\ \A e \in Nat : e % 4 = 0 => (addr < e <=> addr + width <= e)
<1>1. addr \in Nat /\ width \in Nat /\ addr < AddrMod
  BY Sizes DEF Addr, MemLen
<1>2. \A e \in Nat : e % 4 = 0 /\ addr < e => addr + width <= e
  <2>1. CASE width = 1
    BY <1>1, <2>1
  <2>2. CASE width = 2
    BY <1>1, <2>2
  <2>3. CASE width = 4
    BY <1>1, <2>3
  <2>4. QED BY <2>1, <2>2, <2>3 DEF MemLen
<1>3. \A e \in Nat : addr + width <= e => addr < e
  BY <1>1 DEF MemLen
<1>4. addr + width <= AddrMod
  BY <1>1, <1>2, Sizes
<1>5. AddrAdd(addr, width) = IF addr + width = AddrMod THEN 0 ELSE addr + width
  BY <1>1, <1>4, Sizes DEF AddrAdd
<1>6. QED BY <1>1, <1>2, <1>3, <1>4, <1>5

\* The lookup: the unit that has the bytes of the access.  The access at the last
\* address gets the boot ROM, which is asked for an offset that it does not have.
LEMMA FindUnitIs ==
  ASSUME NEW addr \in Addr, NEW width \in MemLen, addr % width = 0
  PROVE  /\ FindUnit(Map, addr, width) \in 0 .. 5
         /\ FindUnit(Map, addr, width) # 0 =>
              \/ In(FindUnit(Map, addr, width), addr)
              \/ FindUnit(Map, addr, width) = 1 /\ addr + width = AddrMod
         /\ \A k \in 1 .. 5 : In(k, addr) => FindUnit(Map, addr, width) = k
<1> DEFINE I == {k \in 1 .. 5 : Matches(SocUnits[k], addr, width)}
           i == FindUnit(Map, addr, width)
<1>1. /\ addr \in Nat /\ width \in Nat \ {0} /\ addr + width <= AddrMod
      /\ AddrAdd(addr, width) = IF addr + width = AddrMod THEN 0 ELSE addr + width
      /\ \A e \in Nat : e % 4 = 0 => (addr < e <=> addr + width <= e)
  <2>1. width # 0
    BY DEF MemLen
  <2>2. QED BY <2>1, Alignment
<1>2. \A k \in 1 .. 5 : /\ BaseOf(k) \in Nat /\ EndOf(k) \in Nat /\ EndOf(k) < AddrMod
                         /\ (addr < EndOf(k) <=> addr + width <= EndOf(k))
  BY <1>1, Layout
<1>3. \A k \in 1 .. 5 : k \in I <=>
        BaseOf(k) <= addr /\ (addr < EndOf(k) \/ addr + width = AddrMod)
  <2>1. SUFFICES ASSUME NEW k \in 1 .. 5
                 PROVE  Matches(SocUnits[k], addr, width) <=>
                          BaseOf(k) <= addr /\ (addr < EndOf(k) \/ addr + width = AddrMod)
    OBVIOUS
  <2>2. AddrAdd(SocUnits[k].base, SocUnits[k].size) = EndOf(k)
    BY <1>2 DEF AddrAdd, EndOf
  <2>3. Matches(SocUnits[k], addr, width) <=> BaseOf(k) <= addr /\ AddrAdd(addr, width) <= EndOf(k)
    BY <2>2 DEF Matches, BaseOf
  <2>4. QED BY <1>1, <1>2, <2>3
<1>4. i = IF I # {} THEN Min(I) ELSE 0
  BY MapIs, UnitsAre DEF FindUnit, SelectInSeq
<1>5. I \in SUBSET Nat /\ I \subseteq 1 .. 5
  OBVIOUS
<1> HIDE DEF I, i
<1>6. I # {} => i \in I /\ \A k \in I : i <= k
  <2>1. SUFFICES ASSUME I # {} PROVE i \in I /\ \A k \in I : i <= k
    OBVIOUS
  <2>2. PICK m \in I : \A k \in I : ~ (k < m)
    BY <1>5, <2>1, LeastNumber
  <2>3. \A k \in I : m <= k
    BY <1>5, <2>2
  <2>4. Min(I) \in I /\ \A k \in I : Min(I) <= k
    BY <2>2, <2>3 DEF Min
  <2>5. QED BY <1>4, <2>1, <2>4
<1>7. i \in 0 .. 5
  <2>1. CASE I = {}
    BY <1>4, <2>1
  <2>2. CASE I # {}
    <3>1. i \in 1 .. 5
      BY <1>5, <1>6, <2>2, Zenon
    <3>2. QED BY <3>1
  <2>3. QED BY <2>1, <2>2
<1>8. 1 \in I <=> addr < EndOf(1) \/ addr + width = AddrMod
  <2>1. BaseOf(1) = 0
    BY BasesAre
  <2>2. QED BY <1>1, <1>3, <2>1
<1>9. i # 0 => In(i, addr) \/ (i = 1 /\ addr + width = AddrMod)
  <2>1. SUFFICES ASSUME i # 0 PROVE In(i, addr) \/ (i = 1 /\ addr + width = AddrMod)
    OBVIOUS
  <2>2. i \in I /\ i \in 1 .. 5
    BY <1>4, <1>5, <1>6, <2>1
  <2>3. CASE addr + width = AddrMod
    <3>1. i <= 1
      BY <1>6, <1>8, <2>2, <2>3
    <3>2. QED BY <2>2, <2>3, <3>1
  <2>4. CASE addr + width # AddrMod
    BY <1>3, <2>2, <2>4 DEF In
  <2>5. QED BY <2>3, <2>4
<1>10. ASSUME NEW k \in 1 .. 5, In(k, addr) PROVE i = k
  <2>1. k \in I /\ addr + width # AddrMod
    BY <1>1, <1>2, <1>3, <1>10 DEF In
  <2>2. i \in 1 .. 5 /\ In(i, addr) /\ i <= k
    <3>1. i \in I /\ i <= k
      BY <1>6, <2>1, Zenon
    <3>2. i \in 1 .. 5
      BY <1>5, <3>1, Zenon
    <3>3. i # 0
      BY <3>2
    <3>4. QED BY <1>9, <2>1, <3>1, <3>2, <3>3, Zenon
  <2>3. i < k => EndOf(i) <= BaseOf(k)
    BY <2>2, Layout
  <2>4. ~ (i < k)
    BY <1>1, <1>2, <1>10, <2>2, <2>3 DEF In
  <2>5. QED BY <2>2, <2>4
<1>11. QED BY <1>7, <1>9, <1>10 DEF i

LEMMA InMemory ==
  ASSUME NEW addr \in Nat
  PROVE  /\ In(1, addr) <=> addr \in RomAddrs
         /\ In(5, addr) <=> addr \in DramAddrs
  BY BasesAre, Sizes DEF In, RomAddrs, DramAddrs

\* A register that is read or written is one of the words that hold registers,
\* and those words are in the units of the devices.
LEMMA RegistersRead ==
  ASSUME NEW addr \in Addr, addr % 4 = 0
  PROVE  /\ addr \in ReadRegs => \E k \in {2, 3, 4} :
               In(k, addr) /\ RegisterReads(SocUnits[k].device, addr - BaseOf(k), 4)
         /\ \A k \in {2, 3, 4} : In(k, addr) =>
               (RegisterReads(SocUnits[k].device, addr - BaseOf(k), 4) => addr \in ReadRegs)
<1>1. /\ addr \in Nat /\ ClintBase \in Nat /\ UartBase \in Nat /\ IrqAggBase \in Nat
      /\ ClintSize \in Nat /\ IrqAggSize \in Nat /\ 8 <= IrqAggSize
  BY SocAssumption, Sizes DEF Addr
<1>2. \A o \in ClintRegs : o \in Nat /\ o < ClintSize
  BY <1>1, SocAssumption
<1>3. 4 \in MemLen
  BY DEF MemLen
<1>4. /\ \A o : RegisterReads(SocUnits[2].device, o, 4) <=> o \in ClintRegs
      /\ \A o : RegisterReads(SocUnits[3].device, o, 4) <=> o \in {4, 8}
      /\ \A o : RegisterReads(SocUnits[4].device, o, 4) <=> o \in {0, 4}
  <2>1. SocUnits[2].device = "clint" /\ SocUnits[3].device = "uart" /\
              SocUnits[4].device = "irq_agg"
    BY UnitsAre
  <2>2. \A o : RegisterReads("clint", o, 4) <=> o \in ClintRegs
    BY DEF RegisterReads
  <2>3. \A o : RegisterReads("uart", o, 4) <=> o \in {4, 8}
    BY <1>3 DEF RegisterReads
  <2>4. \A o : RegisterReads("irq_agg", o, 4) <=> o \in {0, 4}
    BY DEF RegisterReads
  <2>5. QED BY <2>1, <2>2, <2>3, <2>4
<1>5. ASSUME addr \in ReadRegs
      PROVE  \E k \in {2, 3, 4} :
               In(k, addr) /\ RegisterReads(SocUnits[k].device, addr - BaseOf(k), 4)
  <2>1. CASE \E o \in ClintRegs : addr = ClintBase + o
    <3>1. PICK o \in ClintRegs : addr = ClintBase + o
      BY <2>1
    <3>2. In(2, addr) /\ addr - BaseOf(2) = o
      BY <1>1, <1>2, <3>1, BasesAre DEF In
    <3>3. QED BY <1>4, <3>2
  <2>2. CASE addr \in {UartBase + 4, UartBase + 8}
    <3>1. In(3, addr) /\ addr - BaseOf(3) \in {4, 8}
      BY <1>1, <2>2, BasesAre DEF In
    <3>2. QED BY <1>4, <3>1
  <2>3. CASE addr \in {IrqAggBase, IrqAggBase + 4}
    <3>1. In(4, addr) /\ addr - BaseOf(4) \in {0, 4}
      BY <1>1, <2>3, BasesAre DEF In
    <3>2. QED BY <1>4, <3>1
  <2>4. QED BY <1>5, <2>1, <2>2, <2>3 DEF ReadRegs
<1>6. ASSUME NEW k \in {2, 3, 4}, In(k, addr),
             RegisterReads(SocUnits[k].device, addr - BaseOf(k), 4)
      PROVE  addr \in ReadRegs
  <2>1. CASE k = 2
    <3>1. addr - ClintBase \in ClintRegs /\ addr = ClintBase + (addr - ClintBase)
      BY <1>1, <1>4, <1>6, <2>1, BasesAre
    <3>2. QED BY <3>1 DEF ReadRegs
  <2>2. CASE k = 3
    <3>1. addr - UartBase \in {4, 8}
      BY <1>4, <1>6, <2>2, BasesAre
    <3>2. addr \in {UartBase + 4, UartBase + 8}
      BY <1>1, <3>1
    <3>3. QED BY <3>2 DEF ReadRegs
  <2>3. CASE k = 4
    <3>1. addr - IrqAggBase \in {0, 4}
      BY <1>4, <1>6, <2>3, BasesAre
    <3>2. addr \in {IrqAggBase, IrqAggBase + 4}
      BY <1>1, <3>1
    <3>3. QED BY <3>2 DEF ReadRegs
  <2>4. QED BY <2>1, <2>2, <2>3
<1>7. QED BY <1>5, <1>6

LEMMA RegistersWritten ==
  ASSUME NEW addr \in Nat, NEW k \in {2, 3, 4}, In(k, addr), NEW width, NEW strb, NEW hostTakes,
         RegisterWrites(SocUnits[k].device, addr - BaseOf(k), width, strb, hostTakes)
  PROVE  addr \in WriteRegs
<1>1. ClintBase \in Nat /\ UartBase \in Nat /\ IrqAggBase \in Nat
  BY SocAssumption
<1>2. SocUnits[2].device = "clint" /\ SocUnits[3].device = "uart" /\ SocUnits[4].device = "irq_agg"
  BY UnitsAre
<1>3. CASE k = 2
  <2>1. addr - ClintBase \in ClintRegs
    BY <1>2, <1>3, BasesAre DEF RegisterWrites
  <2>2. addr = ClintBase + (addr - ClintBase)
    BY <1>1
  <2>3. QED BY <2>1, <2>2 DEF WriteRegs
<1>4. CASE k = 3
  <2>1. addr - UartBase \in {0, 4}
    BY <1>2, <1>4, BasesAre DEF RegisterWrites
  <2>2. addr \in {UartBase, UartBase + 4}
    BY <1>1, <2>1
  <2>3. QED BY <2>2 DEF WriteRegs
<1>5. CASE k = 4
  <2>1. addr - IrqAggBase \in {0, 4}
    BY <1>2, <1>5, BasesAre DEF RegisterWrites
  <2>2. addr \in {IrqAggBase, IrqAggBase + 4}
    BY <1>1, <2>1
  <2>3. QED BY <2>2 DEF WriteRegs
<1>6. QED BY <1>3, <1>4, <1>5

\* What a read of a word gets.
LEMMA ReadReaches ==
  ASSUME NEW mem \in Backing, NEW addr \in Addr, addr % 4 = 0, NEW io
  PROVE  /\ addr \in RomAddrs => MapRead(mem, addr, 4, io) = Okay([i \in Lane |-> Rom[addr + i]])
         /\ addr \in DramAddrs =>
              MapRead(mem, addr, 4, io) = Okay([i \in Lane |-> mem[addr - DramBase + i]])
         /\ addr \in ReadRegs => /\ addr \notin RomAddrs \cup DramAddrs
                                 /\ MapRead(mem, addr, 4, io) = Okay(io)
         /\ addr \notin RomAddrs \cup DramAddrs \cup ReadRegs =>
              MapRead(mem, addr, 4, io) \in {Slverr, Decerr}
<1> DEFINE unit == FindUnit(Map, addr, 4)
<1>1. 4 \in MemLen /\ addr \in Nat /\ addr + 4 <= AddrMod
  BY Alignment DEF MemLen
<1>2. /\ unit \in 0 .. 5
      /\ unit # 0 => In(unit, addr) \/ (unit = 1 /\ addr + 4 = AddrMod)
      /\ \A k \in 1 .. 5 : In(k, addr) => unit = k
  BY <1>1, FindUnitIs
<1>3. \A k \in 1 .. 5 : Map[k].base = BaseOf(k) /\ Map[k].device = SocUnits[k].device
  BY MapIs DEF BaseOf
<1>4. /\ SocUnits[1].device = "boot_rom" /\ SocUnits[2].device = "clint"
      /\ SocUnits[3].device = "uart" /\ SocUnits[4].device = "irq_agg"
      /\ SocUnits[5].device = "dram"
  BY UnitsAre
<1>5. (In(1, addr) <=> addr \in RomAddrs) /\ (In(5, addr) <=> addr \in DramAddrs)
  BY <1>1, InMemory
<1>6. ASSUME NEW bytes, NEW o \in Nat
      PROVE  BytesAt(bytes, o, 4) = [i \in Lane |-> bytes[o + i]]
  BY DEF BytesAt, Lane
<1> HIDE DEF unit
<1>7. unit = 1 => MapRead(mem, addr, 4, io) = RomRead(addr, 4)
  <2>1. BaseOf(1) = 0 /\ addr - 0 = addr
    BY <1>1, BasesAre
  <2>2. Map[1].base = 0 /\ Map[1].device = "boot_rom"
    BY <1>3, <1>4, <2>1
  <2>3. QED BY <2>1, <2>2 DEF MapRead, unit
<1>8. RomRead(addr, 4) = IF addr \in RomAddrs THEN Okay([i \in Lane |-> Rom[addr + i]]) ELSE Slverr
  <2>1. addr \in RomAddrs <=> addr + 4 <= RomSize
    BY <1>1, Alignment, Sizes DEF RomAddrs
  <2>2. BytesAt(Rom, addr, 4) = [i \in Lane |-> Rom[addr + i]]
    BY <1>1, <1>6
  <2>3. addr + 4 > RomSize <=> ~ (addr + 4 <= RomSize)
    BY <1>1, Sizes
  <2>4. QED BY <1>1, <2>1, <2>2, <2>3, Zenon DEF RomRead
<1>9. addr \in RomAddrs => MapRead(mem, addr, 4, io) = Okay([i \in Lane |-> Rom[addr + i]])
  BY <1>2, <1>5, <1>7, <1>8
<1>10. ASSUME addr \in DramAddrs
       PROVE  MapRead(mem, addr, 4, io) = Okay([i \in Lane |-> mem[addr - DramBase + i]])
  <2>1. unit = 5 /\ BaseOf(5) = DramBase
    BY <1>2, <1>5, <1>10, BasesAre
  <2>2. MapRead(mem, addr, 4, io) = DramRead(mem, addr - DramBase, 4)
    <3>1. Map[5].base = DramBase /\ Map[5].device = "dram"
      BY <1>3, <1>4, <2>1
    <3>2. QED BY <2>1, <3>1 DEF MapRead, unit
  <2>3. addr - DramBase \in Nat /\ DramAccepts(addr - DramBase, 4)
    <3>1. (DramBase + DramSize) % 4 = 0 /\ DramBase + DramSize \in Nat
      BY Sizes
    <3>2. DramBase <= addr /\ addr + 4 <= DramBase + DramSize
      BY <1>1, <1>10, <3>1, Alignment, Sizes DEF DramAddrs
    <3>3. (addr - DramBase) % 4 = 0
      BY <1>1, <3>2, Sizes
    <3>4. QED BY <1>1, <3>2, <3>3, Sizes DEF DramAccepts
  <2>4. DramRead(mem, addr - DramBase, 4) = Okay([i \in Lane |-> mem[addr - DramBase + i]])
    BY <1>6, <2>3 DEF DramRead
  <2>5. QED BY <2>2, <2>4
<1>11. ASSUME unit \in {2, 3, 4}
       PROVE  MapRead(mem, addr, 4, io) =
                IF RegisterReads(SocUnits[unit].device, addr - BaseOf(unit), 4)
                THEN Okay(io) ELSE Slverr
  <2>1. /\ Map[unit].base = BaseOf(unit) /\ Map[unit].device = SocUnits[unit].device
        /\ SocUnits[unit].device # "dram" /\ SocUnits[unit].device # "boot_rom"
        /\ unit # 0
    BY <1>3, <1>4, <1>11
  <2>2. QED BY <2>1 DEF MapRead, unit
<1>12. ASSUME addr \in ReadRegs
       PROVE  addr \notin RomAddrs \cup DramAddrs /\ MapRead(mem, addr, 4, io) = Okay(io)
  <2>1. PICK k \in {2, 3, 4} :
               In(k, addr) /\ RegisterReads(SocUnits[k].device, addr - BaseOf(k), 4)
    BY <1>12, RegistersRead
  <2>2. unit = k
    BY <1>2, <2>1
  <2>3. ~ In(1, addr) /\ ~ In(5, addr)
    BY <1>2, <2>2
  <2>4. QED BY <1>5, <1>11, <2>1, <2>2, <2>3
<1>13. ASSUME addr \notin RomAddrs \cup DramAddrs \cup ReadRegs
       PROVE  MapRead(mem, addr, 4, io) \in {Slverr, Decerr}
  <2>1. CASE unit = 0
    BY <2>1 DEF MapRead, unit
  <2>2. CASE unit = 1
    BY <1>7, <1>8, <1>13, <2>2
  <2>3. CASE unit \in {2, 3, 4}
    <3>1. In(unit, addr)
      BY <1>2, <2>3
    <3>2. ~ RegisterReads(SocUnits[unit].device, addr - BaseOf(unit), 4)
      BY <1>13, <2>3, <3>1, RegistersRead
    <3>3. QED BY <1>11, <2>3, <3>2
  <2>4. unit # 5
    BY <1>2, <1>5, <1>13
  <2>5. QED BY <1>2, <2>1, <2>2, <2>3, <2>4
<1>14. QED BY <1>9, <1>10, <1>12, <1>13

\* A write of the bridge or the loader.
AlignedWrites == {w \in [addr : Addr, width : MemLen, strb : SUBSET Lane, value : Word] :
                    w.addr % w.width = 0 /\ (w.width = 4 => w.strb = Lane)}

\* How a write ends.
Written == [resp : {"OKAY", "SLVERR", "DECERR"}, mem : Backing]

\* What a write does.
LEMMA WriteReaches ==
  ASSUME NEW mem \in Backing, NEW w \in AlignedWrites, NEW hostTakes
  PROVE  /\ MapWrite(mem, w, hostTakes) \in Written
         /\ w.addr \in DramAddrs =>
              MapWrite(mem, w, hostTakes) =
                [resp |-> "OKAY",
                 mem |-> Stored(mem, w.addr - DramBase, w.width, w.value, w.strb)]
         /\ w.addr \notin DramAddrs =>
              /\ MapWrite(mem, w, hostTakes).mem = mem
              /\ MapWrite(mem, w, hostTakes).resp = "OKAY" => w.addr \in WriteRegs
<1> DEFINE unit == FindUnit(Map, w.addr, w.width)
           out == MapWrite(mem, w, hostTakes)
<1>1. /\ w.addr \in Addr /\ w.addr \in Nat /\ w.width \in MemLen /\ w.addr % w.width = 0
      /\ w.width = 4 => w.strb = Lane
  BY Sizes DEF AlignedWrites, Addr
<1>2. /\ unit \in 0 .. 5
      /\ unit # 0 => In(unit, w.addr) \/ (unit = 1 /\ w.addr + w.width = AddrMod)
      /\ \A k \in 1 .. 5 : In(k, w.addr) => unit = k
  BY <1>1, FindUnitIs
<1>3. \A k \in 1 .. 5 : Map[k].base = BaseOf(k) /\ Map[k].device = SocUnits[k].device
  BY MapIs DEF BaseOf
<1>4. /\ SocUnits[1].device = "boot_rom" /\ SocUnits[2].device = "clint"
      /\ SocUnits[3].device = "uart" /\ SocUnits[4].device = "irq_agg"
      /\ SocUnits[5].device = "dram"
  BY UnitsAre
<1>5. In(5, w.addr) <=> w.addr \in DramAddrs
  BY <1>1, InMemory
<1>6. CASE w.addr \in DramAddrs
  <2>1. w.width \in Nat /\ DramBase <= w.addr /\ w.addr + w.width <= DramBase + DramSize
    <3>1. (DramBase + DramSize) % 4 = 0 /\ DramBase + DramSize \in Nat
      BY Sizes
    <3>2. QED BY <1>1, <1>6, <3>1, Alignment, Sizes DEF DramAddrs
  <2>2. unit = 5 /\ Map[5].base = DramBase /\ Map[5].device = "dram"
    BY <1>2, <1>3, <1>4, <1>5, <1>6, BasesAre
  <2>3. out = DramWrite(mem, w.addr - DramBase, w.width, w.value, w.strb)
    BY <2>2 DEF MapWrite
  <2>4. (w.addr - DramBase) % w.width = 0
    <3>1. w.width \in {1, 2, 4}
      BY <1>1 DEF MemLen
    <3>2. CASE w.width = 1
      BY <1>1, <2>1, <3>2, Sizes
    <3>3. CASE w.width = 2
      BY <1>1, <2>1, <3>3, Sizes
    <3>4. CASE w.width = 4
      BY <1>1, <2>1, <3>4, Sizes
    <3>5. QED BY <3>1, <3>2, <3>3, <3>4
  <2>5. DramAccepts(w.addr - DramBase, w.width)
    BY <1>1, <2>1, <2>4, Sizes DEF DramAccepts
  <2>6. out = [resp |-> "OKAY", mem |-> Stored(mem, w.addr - DramBase, w.width, w.value, w.strb)]
    BY <1>1, <2>3, <2>5 DEF DramWrite
  <2>7. Stored(mem, w.addr - DramBase, w.width, w.value, w.strb) \in Backing
    <3>1. w.value \in [Lane -> Byte] /\ w.strb \subseteq Lane
      BY DEF AlignedWrites, Word
    <3>2. QED BY <3>1 DEF Stored, Backing
  <2>8. QED BY <1>6, <2>6, <2>7 DEF Written
<1>7. CASE w.addr \notin DramAddrs
  <2>1. unit # 5
    BY <1>2, <1>5, <1>7
  <2>2. /\ out \in {[resp |-> "OKAY", mem |-> mem], [resp |-> "SLVERR", mem |-> mem],
                    [resp |-> "DECERR", mem |-> mem]}
        /\ out.resp = "OKAY" => unit # 0 /\ RegisterWrites(SocUnits[unit].device,
               w.addr - BaseOf(unit), w.width, w.strb, hostTakes)
    <3>1. CASE unit = 0
      BY <3>1 DEF MapWrite
    <3>2. CASE unit # 0
      <4>1. /\ Map[unit].base = BaseOf(unit) /\ Map[unit].device = SocUnits[unit].device
            /\ SocUnits[unit].device # "dram"
        BY <1>2, <1>3, <1>4, <2>1, <3>2
      <4> HIDE DEF unit
      <4>2. QED BY <3>2, <4>1 DEF MapWrite, unit
    <3>3. QED BY <3>1, <3>2
  <2>3. out.resp = "OKAY" => w.addr \in WriteRegs
    <3>1. SUFFICES ASSUME out.resp = "OKAY" PROVE w.addr \in WriteRegs
      OBVIOUS
    <3>2. RegisterWrites(SocUnits[unit].device, w.addr - BaseOf(unit), w.width, w.strb, hostTakes)
      BY <2>2, <3>1
    <3>3. unit # 1
      BY <1>4, <3>2 DEF RegisterWrites
    <3>4. unit \in {2, 3, 4} /\ In(unit, w.addr)
      BY <1>2, <2>1, <2>2, <3>1, <3>3
    <3> HIDE DEF unit
    <3>5. QED BY <1>1, <3>2, <3>4, RegistersWritten
  <2>4. QED BY <1>7, <2>2, <2>3 DEF Written
<1>8. QED BY <1>6, <1>7

-----------------------------------------------------------------------------
(* The lanes.                                                               *)

\* A store arrives at its address, with its length and its bytes from lane 0 on.
LEMMA StoreArrives ==
  ASSUME NEW addr \in Nat, NEW len \in MemLen, addr % len = 0, NEW data \in Word
  PROVE  LET w == BridgeWrite(addr, ByteEnable(addr, len), StoreLanes(addr, len, data))
         IN  /\ w = [addr |-> addr, width |-> len, strb |-> w.strb, value |-> w.value]
             /\ w.strb = 0 .. len - 1 /\ w.value \in Word
             /\ \A i \in 0 .. len - 1 : w.value[i] = data[i]
<1> DEFINE be == ByteEnable(addr, len)
           wdata == StoreLanes(addr, len, data)
           w == BridgeWrite(addr, be, wdata)
<1>1. addr % 4 \in Lane
  BY DEF Lane
<1>2. \A v \in Word, k \in Lane : ShiftRight(v, k) \in Word /\ ShiftLeft(v, k) \in Word
  BY DEF Word, Lane, Byte, ShiftRight, ShiftLeft
<1>3. \A v \in Word : Extend(v, 2, 0) \in Word /\ Extend(v, 2, 0)[0] = v[0] /\
            Extend(v, 2, 0)[1] = v[1]
  BY DEF Word, Lane, Byte, Extend
<1>4. CASE len = 1
  <2> DEFINE k == addr % 4
             all == [i \in Lane |-> data[0]]
  <2>1. be = {k} /\ wdata = ShiftLeft(all, k) /\ all \in Word
    BY <1>4 DEF ByteEnable, StoreLanes, Word, Lane
  <2>2. (CHOOSE j \in Lane : be = {j}) = k
    BY <1>1, <2>1
  <2>3. w = [addr |-> addr, width |-> 1, strb |-> {0}, value |-> ShiftRight(wdata, k)]
    <3>1. (\E j \in Lane : be = {j}) /\ be # {0, 1} /\ be # {2, 3}
      BY <1>1, <2>1
    <3> HIDE DEF be, wdata, k
    <3>2. QED BY <2>2, <3>1 DEF BridgeWrite
  <2>4. ShiftRight(wdata, k) \in Word /\ ShiftRight(wdata, k)[0] = data[0]
    <3> HIDE DEF wdata, all, k
    <3>4. wdata \in Word /\ k \in Lane
      BY <1>1, <1>2, <2>1 DEF k
    <3>5. all[0] = data[0]
      BY DEF all, Lane
    <3>6. wdata[k] = all[0]
      BY <2>1, <3>4 DEF ShiftLeft, Lane
    <3>1. wdata \in Word /\ wdata[k] = data[0]
      BY <3>4, <3>5, <3>6
    <3>2. ShiftRight(wdata, k)[0] = wdata[k]
      BY <3>4 DEF ShiftRight, Lane
    <3>3. QED BY <1>2, <3>1, <3>2, <3>4
  <2>5. 0 .. len - 1 = {0}
    BY <1>4
  <2> HIDE DEF wdata, be, w
  <2>6. QED BY <1>4, <2>3, <2>4, <2>5 DEF w, be, wdata
<1>5. CASE len = 2 /\ addr % 4 < 2
  <2>1. be = {0, 1} /\ wdata = Extend(data, 2, 0)
    BY <1>1, <1>5 DEF ByteEnable, StoreLanes, Lane
  <2>2. w = [addr |-> addr, width |-> 2, strb |-> {0, 1}, value |-> wdata]
    <3>1. ~ \E j \in Lane : be = {j}
      BY <2>1
    <3>2. QED BY <2>1, <3>1 DEF BridgeWrite
  <2>3. wdata \in Word /\ wdata[0] = data[0] /\ wdata[1] = data[1]
    BY <1>3, <2>1
  <2>4. 0 .. len - 1 = {0, 1}
    BY <1>5
  <2> HIDE DEF wdata, be, w
  <2>5. QED BY <1>5, <2>2, <2>3, <2>4 DEF w, be, wdata
<1>6. CASE len = 2 /\ addr % 4 >= 2
  <2>1. be = {2, 3} /\ wdata = ShiftLeft(data, 2)
    BY <1>1, <1>6 DEF ByteEnable, StoreLanes, Lane
  <2>2. w = [addr |-> addr, width |-> 2, strb |-> {0, 1}, value |-> ShiftRight(wdata, 2)]
    <3>1. (~ \E j \in Lane : be = {j}) /\ be # {0, 1}
      BY <2>1
    <3>2. QED BY <2>1, <3>1 DEF BridgeWrite
  <2>3. /\ ShiftRight(wdata, 2) \in Word
        /\ ShiftRight(wdata, 2)[0] = data[0] /\ ShiftRight(wdata, 2)[1] = data[1]
    <3> HIDE DEF wdata
    <3>5. 2 \in Lane
      BY DEF Lane
    <3>6. wdata \in Word
      BY <1>2, <2>1, <3>5
    <3>7. wdata[2] = data[0] /\ wdata[3] = data[1]
      BY <2>1 DEF ShiftLeft, Lane
    <3>1. wdata \in Word /\ wdata[2] = data[0] /\ wdata[3] = data[1]
      BY <3>6, <3>7
    <3>2. ShiftRight(wdata, 2)[0] = wdata[2] /\ ShiftRight(wdata, 2)[1] = wdata[3]
      BY DEF ShiftRight, Lane
    <3>3. 2 \in Lane
      BY DEF Lane
    <3>4. QED BY <1>2, <3>1, <3>2, <3>3
  <2>4. 0 .. len - 1 = {0, 1}
    BY <1>6
  <2> HIDE DEF wdata, be, w
  <2>5. QED BY <1>6, <2>2, <2>3, <2>4 DEF w, be, wdata
<1>7. CASE len = 4
  <2>1. be = Lane /\ wdata = data
    BY <1>7 DEF ByteEnable, StoreLanes
  <2>2. w = [addr |-> addr, width |-> 4, strb |-> Lane, value |-> wdata]
    <3>1. (~ \E j \in Lane : be = {j}) /\ be # {0, 1} /\ be # {2, 3}
      <4>1. 0 \in be /\ 1 \in be /\ 2 \in be
        BY <2>1 DEF Lane
      <4> HIDE DEF be
      <4>2. QED BY <4>1
    <3>2. QED BY <3>1 DEF BridgeWrite
  <2>3. 0 .. len - 1 = Lane
    BY <1>7 DEF Lane
  <2> HIDE DEF wdata, be, w
  <2>4. QED BY <1>7, <2>1, <2>2, <2>3 DEF w, be, wdata
<1>8. QED BY <1>1, <1>4, <1>5, <1>6, <1>7 DEF MemLen, Lane

\* The filter takes the bytes of the access out of the word that holds them.
LEMMA LoadArrives ==
  ASSUME NEW addr \in Nat, NEW len \in MemLen, addr % len = 0, NEW rdata, NEW s \in BOOLEAN
  PROVE  LoadFilter(addr, rdata, len, s) =
           [i \in Lane |-> IF i < len THEN rdata[(addr % 4) + i]
                           ELSE IF s THEN SignOf(rdata[(addr % 4) + (len - 1)]) ELSE 0]
<1>1. addr % 4 \in Lane
  BY DEF Lane
<1>2. CASE len = 1
  <2>1. ShiftRight(rdata, addr % 4)[0] = rdata[addr % 4]
    BY <1>1 DEF ShiftRight, Lane
  <2>2. \A i \in Lane : i < 1 => i = 0
    BY DEF Lane
  <2>3. QED BY <1>1, <1>2, <2>1, <2>2 DEF LoadFilter, Extend
<1>3. CASE len = 2 /\ addr % 4 >= 2
  <2>1. addr % 4 = 2
    BY <1>1, <1>3 DEF Lane
  <2>2. ShiftRight(rdata, 2)[0] = rdata[2] /\ ShiftRight(rdata, 2)[1] = rdata[3]
    BY DEF ShiftRight, Lane
  <2>3. \A i \in Lane : i < 2 => i = 0 \/ i = 1
    BY DEF Lane
  <2>4. QED BY <1>3, <2>1, <2>2, <2>3 DEF LoadFilter, Extend
<1>4. CASE len = 2 /\ addr % 4 < 2
  <2>1. addr % 4 = 0
    BY <1>1, <1>4 DEF Lane
  <2>2. \A i \in Lane : i \in Nat
    BY DEF Lane
  <2>3. QED BY <1>4, <2>1, <2>2 DEF LoadFilter, Extend
<1>5. CASE len = 4
  <2>1. \A i \in Lane : i \in Nat /\ i < 4
    BY DEF Lane
  <2>2. addr % 4 = 0
    BY <1>5
  <2>3. QED BY <1>5, <2>1, <2>2 DEF LoadFilter, Extend
<1>6. QED BY <1>1, <1>2, <1>3, <1>4, <1>5 DEF MemLen, Lane

-----------------------------------------------------------------------------
(* A chunk of a segment.                                                    *)

\* The words with registers are aligned.
LEMMA RegistersAligned == \A r \in ReadRegs \cup WriteRegs : r \in Nat /\ r % 4 = 0
<1>1. /\ ClintBase \in Nat /\ UartBase \in Nat /\ IrqAggBase \in Nat
      /\ ClintBase % 4 = 0 /\ UartBase % 4 = 0 /\ IrqAggBase % 4 = 0
      /\ ClintSize \in Nat
  BY SocAssumption
<1>2. \A o \in ClintRegs : o \in Nat /\ o % 4 = 0
  BY <1>1, SocAssumption
<1>3. \A o \in ClintRegs : ClintBase + o \in Nat /\ (ClintBase + o) % 4 = 0
  BY <1>1, <1>2
<1>4. /\ UartBase + 4 \in Nat /\ (UartBase + 4) % 4 = 0
      /\ UartBase + 8 \in Nat /\ (UartBase + 8) % 4 = 0
      /\ IrqAggBase + 4 \in Nat /\ (IrqAggBase + 4) % 4 = 0
  BY <1>1
<1>5. QED BY <1>1, <1>3, <1>4 DEF ReadRegs, WriteRegs

LEMMA RegistersIn ==
  ASSUME NEW a \in Addr, a % 4 = 0
  PROVE  (a \in ReadRegAddrs <=> a \in ReadRegs) /\ (a \in WriteRegAddrs <=> a \in WriteRegs)
<1>1. a - (a % 4) = a
  BY Sizes DEF Addr
<1>2. QED BY <1>1 DEF ReadRegAddrs, WriteRegAddrs

\* One byte of the loader: it is stored if it belongs on lane 0.
LEMMA ByteLands ==
  ASSUME NEW mem \in Backing, NEW a \in Addr, NEW b \in Byte, NEW hostTakes
  PROVE  /\ MapWrite(mem, ByteWrite(a, b), hostTakes) \in Written
         /\ a \in DramAddrs => MapWrite(mem, ByteWrite(a, b), hostTakes).resp = "OKAY"
         /\ MapWrite(mem, ByteWrite(a, b), hostTakes).resp = "OKAY"
              => a \in DramAddrs \cup WriteRegAddrs
         /\ \A x \in DramAddrs :
              MapWrite(mem, ByteWrite(a, b), hostTakes).mem[x - DramBase] =
                IF x = a /\ a % 4 = 0 THEN b ELSE mem[x - DramBase]
<1> DEFINE w == ByteWrite(a, b)
           out == MapWrite(mem, w, hostTakes)
<1>1. a \in Nat /\ a % 4 \in Lane
  BY Sizes DEF Addr, Lane
<1>2. w = [addr |-> a, width |-> 1, strb |-> {a % 4}, value |-> [Zero EXCEPT ![0] = b]]
  BY DEF ByteWrite
<1>3. w.value \in Word /\ w.value[0] = b
  BY DEF ByteWrite, Word, Zero, Lane, Byte
<1> HIDE DEF w
<1>4. w \in AlignedWrites
  <2>1. 1 \in MemLen /\ a % 1 = 0
    BY <1>1 DEF MemLen
  <2>2. QED BY <1>1, <1>2, <1>3, <2>1 DEF AlignedWrites
<1>5. CASE a \in DramAddrs
  <2>1. out = [resp |-> "OKAY", mem |-> Stored(mem, a - DramBase, 1, w.value, {a % 4})]
    <3>1. w.addr = a /\ w.width = 1 /\ w.strb = {a % 4}
      BY <1>2
    <3>2. out = [resp |-> "OKAY",
                 mem |-> Stored(mem, w.addr - DramBase, w.width, w.value, w.strb)]
      BY <1>4, <1>5, <3>1, WriteReaches
    <3>3. QED BY <3>1, <3>2
  <2>2. ASSUME NEW x \in DramAddrs
        PROVE  Stored(mem, a - DramBase, 1, w.value, {a % 4})[x - DramBase] =
                 IF x = a /\ a % 4 = 0 THEN b ELSE mem[x - DramBase]
    <3>1. DramBase \in Nat /\ x \in Nat /\ x - DramBase \in 0 .. DramSize - 1
      BY <2>2, Sizes DEF DramAddrs
    <3>2. x - DramBase - (a - DramBase) = x - a
      BY <1>1, <3>1
    <3>3. x - a \in {a % 4} \cap 0 .. 1 - 1 <=> x = a /\ a % 4 = 0
      <4>1. 0 .. 1 - 1 = {0}
        OBVIOUS
      <4>2. x - a = 0 <=> x = a
        BY <1>1, <3>1
      <4>3. QED BY <4>1, <4>2
    <3>4. x - DramBase \in DOMAIN mem
      BY <3>1 DEF Backing
    <3>5. Stored(mem, a - DramBase, 1, w.value, {a % 4})[x - DramBase] =
            IF x - a \in {a % 4} \cap 0 .. 1 - 1 THEN w.value[x - a] ELSE mem[x - DramBase]
      BY <3>2, <3>4 DEF Stored
    <3>6. x = a => x - a = 0
      BY <1>1
    <3>7. QED BY <1>3, <3>3, <3>5, <3>6
  <2>3. out \in Written
    BY <1>4, WriteReaches
  <2>5. out.resp = "OKAY" /\ out.mem = Stored(mem, a - DramBase, 1, w.value, {a % 4})
    BY <2>1
  <2> HIDE DEF w, out
  <2>4. QED BY <1>5, <2>2, <2>3, <2>5 DEF w, out
<1>6. CASE a \notin DramAddrs
  <2>1. w.addr = a
    BY <1>2
  <2>2. out \in Written /\ out.mem = mem /\ (out.resp = "OKAY" => a \in WriteRegs)
    BY <1>4, <1>6, <2>1, WriteReaches
  <2>3. \A x \in DramAddrs : x # a
    BY <1>6
  <2>5. a \in WriteRegs => a \in WriteRegAddrs
    BY RegistersAligned, RegistersIn
  <2> HIDE DEF out
  <2>4. QED BY <1>6, <2>2, <2>3, <2>5 DEF w, out
<1>7. QED BY <1>5, <1>6

\* An aligned word: all of it is in the DRAM or nothing.
LEMMA WordWithin ==
  ASSUME NEW a \in Addr, a % 4 = 0, NEW k \in Lane
  PROVE  /\ AddrAdd(a, k) = a + k /\ a + k \in Addr /\ (a + k \in DramAddrs <=> a \in DramAddrs)
         /\ a + k \in ReadRegAddrs <=> a \in ReadRegs
         /\ a + k \in WriteRegAddrs <=> a \in WriteRegs
<1>1. a \in Nat /\ k \in 0 .. 3 /\ a < AddrMod
  BY Sizes DEF Addr, Lane
<1>2. \A e \in Nat : e % 4 = 0 /\ a < e => a + k < e
  BY <1>1
<1>3. \A e \in Nat : e % 4 = 0 /\ e <= a + k => e <= a
  BY <1>1
<1>4. a + k < AddrMod
  BY <1>1, <1>2, Sizes
<1>5. (DramBase + DramSize) % 4 = 0 /\ DramBase + DramSize \in Nat
  BY Sizes
<1>6. /\ a + k < DramBase + DramSize <=> a < DramBase + DramSize
      /\ DramBase <= a + k <=> DramBase <= a
  <2>1. a < DramBase + DramSize => a + k < DramBase + DramSize
    BY <1>2, <1>5
  <2>2. DramBase <= a + k => DramBase <= a
    BY <1>3, Sizes
  <2>3. QED BY <1>1, <2>1, <2>2, Sizes
<1>7. AddrAdd(a, k) = a + k
  BY <1>1, <1>4 DEF AddrAdd
<1>8. a + k \in Addr /\ (a + k \in DramAddrs <=> a \in DramAddrs)
  BY <1>1, <1>4, <1>6, Sizes DEF Addr, DramAddrs
<1>9. (a + k) - ((a + k) % 4) = a
  BY <1>1
<1>10. QED BY <1>7, <1>8, <1>9 DEF ReadRegAddrs, WriteRegAddrs

LEMMA WordLands ==
  ASSUME NEW mem \in Backing, NEW a \in Addr, a % 4 = 0, NEW bytes \in Word,
         NEW hostTakes
  PROVE  /\ MapWrite(mem, WordWrite(a, bytes), hostTakes) \in Written
         /\ a \in DramAddrs => MapWrite(mem, WordWrite(a, bytes), hostTakes).resp = "OKAY"
         /\ MapWrite(mem, WordWrite(a, bytes), hostTakes).resp = "OKAY"
              => a \in DramAddrs \cup WriteRegAddrs
         /\ \A x \in DramAddrs :
              MapWrite(mem, WordWrite(a, bytes), hostTakes).mem[x - DramBase] =
                IF x \in a .. a + 3 THEN bytes[x - a] ELSE mem[x - DramBase]
<1> DEFINE w == WordWrite(a, bytes)
           out == MapWrite(mem, w, hostTakes)
<1>1. a \in Nat
  BY Sizes DEF Addr
<1>2. w = [addr |-> a, width |-> 4, strb |-> Lane, value |-> bytes]
  BY DEF WordWrite
<1> HIDE DEF w
<1>3. w \in AlignedWrites
  <2>1. 4 \in MemLen
    BY DEF MemLen
  <2>2. QED BY <1>2, <2>1 DEF AlignedWrites
<1>4. CASE a \in DramAddrs
  <2>1. out = [resp |-> "OKAY", mem |-> Stored(mem, a - DramBase, 4, bytes, Lane)]
    BY <1>2, <1>3, <1>4, WriteReaches
  <2>2. ASSUME NEW x \in DramAddrs
        PROVE  Stored(mem, a - DramBase, 4, bytes, Lane)[x - DramBase] =
                 IF x \in a .. a + 3 THEN bytes[x - a] ELSE mem[x - DramBase]
    <3>1. DramBase \in Nat /\ x \in Nat /\ x - DramBase \in 0 .. DramSize - 1
      BY <2>2, Sizes DEF DramAddrs
    <3>2. x - DramBase - (a - DramBase) = x - a
      BY <1>1, <3>1
    <3>3. x - a \in Lane \cap 0 .. 4 - 1 <=> x \in a .. a + 3
      BY <1>1, <3>1 DEF Lane
    <3>4. x - DramBase \in DOMAIN mem
      BY <3>1 DEF Backing
    <3>5. Stored(mem, a - DramBase, 4, bytes, Lane)[x - DramBase] =
            IF x - a \in Lane \cap 0 .. 4 - 1 THEN bytes[x - a] ELSE mem[x - DramBase]
      BY <3>2, <3>4 DEF Stored
    <3>6. QED BY <3>3, <3>5
  <2>3. out \in Written
    BY <1>3, WriteReaches
  <2>4. out.resp = "OKAY" /\ out.mem = Stored(mem, a - DramBase, 4, bytes, Lane)
    BY <2>1
  <2> HIDE DEF out
  <2>5. QED BY <1>4, <2>2, <2>3, <2>4 DEF w, out
<1>5. CASE a \notin DramAddrs
  <2>1. out \in Written /\ out.mem = mem /\ (out.resp = "OKAY" => a \in WriteRegs)
    BY <1>2, <1>3, <1>5, WriteReaches
  <2>2. ASSUME NEW x \in DramAddrs PROVE x \notin a .. a + 3
    <3>1. ASSUME x \in a .. a + 3 PROVE FALSE
      <4>1. x - a \in Lane /\ a + (x - a) = x
        BY <1>1, <3>1 DEF Lane
      <4>2. QED BY <1>5, <2>2, <4>1, WordWithin
    <3>2. QED BY <3>1
  <2>3. a \in WriteRegs => a \in WriteRegAddrs
    BY RegistersIn
  <2> HIDE DEF out
  <2>4. QED BY <1>5, <2>1, <2>2, <2>3 DEF w, out
<1>6. QED BY <1>4, <1>5

\* The bytes of a chunk that its first n writes have moved.
Moved(addr, len, n) ==
  LET lead == Leading(addr, len) words == Words(addr, len)
  IN  IF n <= lead THEN n
      ELSE IF n <= lead + words THEN lead + 4 * (n - lead)
      ELSE n + 3 * words

WriteCount(addr, len) ==
  Leading(addr, len) + Words(addr, len) + (len - Leading(addr, len) - 4 * Words(addr, len))
AsWord(addr, len, n) == Leading(addr, len) < n /\ n <= Leading(addr, len) + Words(addr, len)

\* The bytes of a chunk that go out in words, or alone at lane 0.
Lands(addr, len, i) ==
  \/ i \in Leading(addr, len) .. Leading(addr, len) + 4 * Words(addr, len) - 1
  \/ AddrAdd(addr, i) % 4 = 0

LEMMA Division == \A k \in Nat : k \div 4 \in Nat /\ 4 * (k \div 4) <= k /\ k < 4 * (k \div 4) + 4
  OBVIOUS

\* The three parts of a chunk; the words are aligned.
LEMMA Parts ==
  ASSUME NEW addr \in Addr, NEW len \in Nat
  PROVE  /\ Leading(addr, len) \in 0 .. len /\ Words(addr, len) \in Nat
         /\ Leading(addr, len) + 4 * Words(addr, len) \in 0 .. len
         /\ Words(addr, len) > 0 => (addr + Leading(addr, len)) % 4 = 0
         /\ WriteCount(addr, len) \in Nat
<1> DEFINE lead == Leading(addr, len)
           words == Words(addr, len)
           gap == (4 - (addr % 4)) % 4
<1>1. addr \in Nat /\ addr % 4 \in 0 .. 3 /\ gap \in 0 .. 3 /\ (addr + gap) % 4 = 0
  BY Sizes DEF Addr
<1> HIDE DEF gap
<1>2. lead = IF gap < len THEN gap ELSE len
  BY DEF gap, Leading
<1>3. lead \in 0 .. len /\ len - lead \in Nat
  BY <1>1, <1>2
<1>4. words = (len - lead) \div 4
  BY DEF Words
<1> HIDE DEF lead, words
<1>5. words \in Nat /\ 4 * words <= len - lead
  BY <1>3, <1>4, Division
<1>6. words > 0 => lead = gap
  BY <1>2, <1>3, <1>5
<1>7. QED BY <1>1, <1>3, <1>5, <1>6 DEF lead, words, WriteCount

\* Each write moves the next byte or the next four.
LEMMA MovedGrows ==
  ASSUME NEW addr \in Addr, NEW len \in Nat, NEW n \in 1 .. WriteCount(addr, len)
  PROVE  /\ Moved(addr, len, n - 1) \in Nat /\ Moved(addr, len, n) \in 0 .. len
         /\ Moved(addr, len, n) = Moved(addr, len, n - 1) + (IF AsWord(addr, len, n) THEN 4 ELSE 1)
         /\ AsWord(addr, len, n) =>
              /\ Moved(addr, len, n - 1) = Leading(addr, len) + 4 * (n - 1 - Leading(addr, len))
              /\ \A k \in Lane : Moved(addr, len, n - 1) + k \in
                    Leading(addr, len) .. Leading(addr, len) + 4 * Words(addr, len) - 1
         /\ ~ AsWord(addr, len, n) => Moved(addr, len, n - 1) \notin
                    Leading(addr, len) .. Leading(addr, len) + 4 * Words(addr, len) - 1
<1> DEFINE lead == Leading(addr, len)
           words == Words(addr, len)
<1>1. lead \in Nat /\ words \in Nat /\ lead + 4 * words <= len /\ n \in Nat /\ 1 <= n
      /\ n <= lead + words + (len - lead - 4 * words)
  BY Parts DEF WriteCount
<1>2. \A m : Moved(addr, len, m) = IF m <= lead THEN m
                                   ELSE IF m <= lead + words THEN lead + 4 * (m - lead)
                                   ELSE m + 3 * words
  BY DEF Moved
<1>3. AsWord(addr, len, n) <=> lead < n /\ n <= lead + words
  BY DEF AsWord
<1> HIDE DEF lead, words
<1>4. CASE n <= lead
  BY <1>1, <1>2, <1>3, <1>4 DEF lead, words
<1>5. CASE lead < n /\ n <= lead + words
  <2>1. Moved(addr, len, n - 1) = lead + 4 * (n - 1 - lead)
    BY <1>1, <1>2, <1>5
  <2>2. Moved(addr, len, n) = lead + 4 * (n - lead)
    BY <1>1, <1>2, <1>5
  <2>3. \A k \in Lane : lead + 4 * (n - 1 - lead) + k \in lead .. lead + 4 * words - 1
    BY <1>1, <1>5 DEF Lane
  <2>4. QED BY <1>1, <1>3, <1>5, <2>1, <2>2, <2>3 DEF lead, words
<1>6. CASE lead + words < n
  <2>1. Moved(addr, len, n - 1) = n - 1 + 3 * words
    BY <1>1, <1>2, <1>6
  <2>2. Moved(addr, len, n) = n + 3 * words
    BY <1>1, <1>2, <1>6
  <2>3. QED BY <1>1, <1>3, <1>6, <2>1, <2>2 DEF lead, words
<1>7. QED BY <1>1, <1>4, <1>5, <1>6

LEMMA MovedEnds ==
  ASSUME NEW addr \in Addr, NEW len \in Nat
  PROVE  /\ Moved(addr, len, 0) = 0
         /\ Moved(addr, len, WriteCount(addr, len)) = len
<1> DEFINE lead == Leading(addr, len)
           words == Words(addr, len)
<1>1. lead \in Nat /\ words \in Nat /\ lead + 4 * words <= len
  BY Parts
<1>2. \A m : Moved(addr, len, m) = IF m <= lead THEN m
                                   ELSE IF m <= lead + words THEN lead + 4 * (m - lead)
                                   ELSE m + 3 * words
  BY DEF Moved
<1>3. WriteCount(addr, len) = lead + words + (len - lead - 4 * words)
  BY DEF WriteCount
<1> HIDE DEF lead, words
<1>4. Moved(addr, len, 0) = 0
  BY <1>1, <1>2
<1>5. Moved(addr, len, lead + words + (len - lead - 4 * words)) = len
  <2> DEFINE m == lead + words + (len - lead - 4 * words)
  <2>1. m \in Nat /\ m = len - 3 * words
    BY <1>1
  <2> HIDE DEF m
  <2>2. m <= lead => m = len
    BY <1>1, <2>1
  <2>3. lead < m /\ m <= lead + words => lead + 4 * (m - lead) = len
    BY <1>1, <2>1
  <2>4. Moved(addr, len, m) = len
    BY <1>1, <1>2, <2>1, <2>2, <2>3
  <2>5. QED BY <2>4 DEF m
<1>6. QED BY <1>3, <1>4, <1>5


\* The n-th write of a chunk.
LEMMA ChunkIs ==
  ASSUME NEW addr \in Addr, NEW len \in Nat, NEW dst
  PROVE  /\ Len(ChunkWrites(addr, dst, len)) = WriteCount(addr, len)
         /\ \A n \in 1 .. WriteCount(addr, len) :
              ChunkWrites(addr, dst, len)[n] =
                LET e == Moved(addr, len, n - 1) IN
                IF AsWord(addr, len, n)
                THEN WordWrite(AddrAdd(addr, e), [k \in Lane |-> dst[e + k]])
                ELSE ByteWrite(AddrAdd(addr, e), dst[e])
<1> DEFINE lead == Leading(addr, len)
           words == Words(addr, len)
           tail == len - lead - 4 * words
           Byte1(i) == ByteWrite(AddrAdd(addr, i), dst[i])
           Word1(i) == WordWrite(AddrAdd(addr, i), [k \in Lane |-> dst[i + k]])
           p == [i \in 1 .. lead |-> Byte1(i - 1)]
           q == [i \in 1 .. words |-> Word1(lead + 4 * (i - 1))]
           r == [i \in 1 .. tail |-> Byte1(lead + 4 * words + i - 1)]
           X == {p[i] : i \in 1 .. lead} \cup {q[i] : i \in 1 .. words}
                \cup {r[i] : i \in 1 .. tail}
<1>1. lead \in Nat /\ words \in Nat /\ tail \in Nat /\ lead + 4 * words <= len
  BY Parts
<1>2. ChunkWrites(addr, dst, len) = p \o q \o r
  BY DEF ChunkWrites
<1>3. WriteCount(addr, len) = lead + words + tail
  BY DEF WriteCount
<1>4. /\ \A i \in 1 .. lead : p[i] = Byte1(i - 1)
      /\ \A i \in 1 .. words : q[i] = Word1(lead + 4 * (i - 1))
      /\ \A i \in 1 .. tail : r[i] = Byte1(lead + 4 * words + i - 1)
  OBVIOUS
<1>5. \A n : Moved(addr, len, n) = IF n <= lead THEN n
                                   ELSE IF n <= lead + words THEN lead + 4 * (n - lead)
                                   ELSE n + 3 * words
  BY DEF Moved
<1>6. \A n : AsWord(addr, len, n) <=> lead < n /\ n <= lead + words
  BY DEF AsWord
<1>7. p \in [1 .. lead -> X] /\ q \in [1 .. words -> X] /\ r \in [1 .. tail -> X]
  <2> HIDE DEF Byte1, Word1, lead, words, tail
  <2>1. QED OBVIOUS
<1> HIDE DEF lead, words, tail, p, q, r, X, Byte1, Word1
<1>8. /\ p \in Seq(X) /\ q \in Seq(X) /\ r \in Seq(X)
      /\ Len(p) = lead /\ Len(q) = words /\ Len(r) = tail
  BY <1>1, <1>7
<1>9. /\ p \o q \in Seq(X) /\ Len(p \o q) = lead + words
      /\ \A n \in 1 .. lead + words : (p \o q)[n] = IF n <= lead THEN p[n] ELSE q[n - lead]
  BY <1>1, <1>8, ConcatProperties
<1>10. /\ Len(p \o q \o r) = lead + words + tail
       /\ \A n \in 1 .. lead + words + tail :
            (p \o q \o r)[n] = IF n <= lead + words THEN (p \o q)[n] ELSE r[n - (lead + words)]
  <2> DEFINE pq == p \o q
  <2>1. pq \in Seq(X) /\ Len(pq) = lead + words
    BY <1>9
  <2> HIDE DEF pq
  <2>2. /\ Len(pq \o r) = lead + words + tail
        /\ \A n \in 1 .. lead + words + tail :
             (pq \o r)[n] = IF n <= lead + words THEN pq[n] ELSE r[n - (lead + words)]
    <3>1. /\ Len(pq \o r) = Len(pq) + Len(r)
          /\ \A n \in 1 .. Len(pq) + Len(r) :
               (pq \o r)[n] = IF n <= Len(pq) THEN pq[n] ELSE r[n - Len(pq)]
      <4>1. pq \in Seq(X) /\ r \in Seq(X)
        BY <1>8, <2>1
      <4>2. QED BY <4>1, ConcatProperties, Zenon
    <3>2. Len(pq) = lead + words /\ Len(r) = tail
      BY <1>8, <2>1
    <3> HIDE DEF tail
    <3>3. QED BY <3>1, <3>2, Zenon
  <2>3. QED BY <2>2 DEF pq
<1>11. ASSUME NEW n \in 1 .. lead + words + tail
       PROVE  (p \o q \o r)[n] = IF AsWord(addr, len, n) THEN Word1(Moved(addr, len, n - 1))
                                 ELSE Byte1(Moved(addr, len, n - 1))
  <2>1. CASE n <= lead
    <3>1. (p \o q \o r)[n] = p[n] /\ n \in 1 .. lead /\ ~ AsWord(addr, len, n)
      BY <1>1, <1>6, <1>9, <1>10, <1>11, <2>1
    <3>2. Moved(addr, len, n - 1) = n - 1
      BY <1>1, <1>5, <1>11, <2>1
    <3>3. QED BY <1>4, <3>1, <3>2
  <2>2. CASE lead < n /\ n <= lead + words
    <3>1. (p \o q \o r)[n] = q[n - lead] /\ n - lead \in 1 .. words /\ AsWord(addr, len, n)
      BY <1>1, <1>6, <1>9, <1>10, <1>11, <2>2
    <3>2. Moved(addr, len, n - 1) = lead + 4 * (n - lead - 1)
      BY <1>1, <1>5, <1>11, <2>2
    <3>3. QED BY <1>4, <3>1, <3>2
  <2>3. CASE lead + words < n
    <3>1. (p \o q \o r)[n] = r[n - (lead + words)] /\ n - (lead + words) \in 1 .. tail /\
                ~ AsWord(addr, len, n)
      BY <1>1, <1>6, <1>10, <1>11, <2>3
    <3>2. Moved(addr, len, n - 1) = lead + 4 * words + (n - (lead + words)) - 1
      BY <1>1, <1>5, <1>11, <2>3
    <3>3. QED BY <1>4, <3>1, <3>2
  <2>4. n <= lead \/ (lead < n /\ n <= lead + words) \/ lead + words < n
    BY <1>1, <1>11
  <2>5. QED BY <2>1, <2>2, <2>3, <2>4
<1>12. QED BY <1>2, <1>3, <1>10, <1>11 DEF Byte1, Word1

\* The addresses of a chunk are different and stay addresses.
LEMMA ChunkAddresses ==
  ASSUME NEW addr \in Addr, NEW len \in 0 .. AddrMod
  PROVE  /\ \A i \in 0 .. len : AddrAdd(addr, i) \in Addr
         /\ \A i, j \in 0 .. len - 1 : AddrAdd(addr, i) = AddrAdd(addr, j) => i = j
<1>1. addr \in Nat /\ addr < AddrMod /\ AddrMod \in Nat /\ len <= AddrMod /\ len \in Nat
  BY Sizes DEF Addr
<1>2. \A i \in 0 .. len : AddrAdd(addr, i) \in 0 .. AddrMod - 1
  BY <1>1 DEF AddrAdd
<1>3. \A i, j \in 0 .. len - 1 : AddrAdd(addr, i) = AddrAdd(addr, j) => i = j
  BY <1>1 DEF AddrAdd
<1>4. QED BY <1>2, <1>3 DEF Addr

\* Going on by so many bytes; a word's address is aligned.
LEMMA WordAt ==
  ASSUME NEW addr \in Addr, NEW len \in 0 .. AddrMod,
         NEW n \in 1 .. WriteCount(addr, len), AsWord(addr, len, n)
  PROVE  LET a == AddrAdd(addr, Moved(addr, len, n - 1)) IN
         /\ a \in Addr /\ a % 4 = 0
         /\ \A k \in Lane : AddrAdd(addr, Moved(addr, len, n - 1) + k) = a + k
<1> DEFINE lead == Leading(addr, len)
           e == Moved(addr, len, n - 1)
           a == AddrAdd(addr, e)
<1>1. addr \in Nat /\ addr < AddrMod /\ AddrMod \in Nat /\ AddrMod % 4 = 0 /\ len \in Nat
  BY Sizes DEF Addr
<1>2. lead \in Nat /\ (addr + lead) % 4 = 0
  <2>1. Words(addr, len) > 0
    BY <1>1, Parts DEF AsWord
  <2>2. QED BY <1>1, <2>1, Parts
<1>3. /\ e = lead + 4 * (n - 1 - lead) /\ n - 1 - lead \in Nat
      /\ e + 4 <= len /\ e \in Nat
  <2>1. e = lead + 4 * (n - 1 - lead) /\ e \in Nat /\ Moved(addr, len, n) = e + 4 /\
              Moved(addr, len, n) <= len
    BY <1>1, MovedGrows
  <2>2. n - 1 - lead \in Nat
    BY <1>2 DEF AsWord
  <2>3. QED BY <2>1, <2>2
<1> HIDE DEF e, lead
<1>4. (addr + e) % 4 = 0
  <2>1. addr + e = (addr + lead) + 4 * (n - 1 - lead)
    BY <1>1, <1>2, <1>3
  <2>2. \A x, y \in Nat : x % 4 = 0 => (x + 4 * y) % 4 = 0
    OBVIOUS
  <2>3. addr + lead \in Nat
    BY <1>1, <1>2
  <2>4. QED BY <1>2, <1>3, <2>1, <2>2, <2>3
<1>5. addr + e < 2 * AddrMod /\ len <= AddrMod
  BY <1>1, <1>3
<1>6. a \in Addr
  BY <1>1, <1>3, <1>5 DEF AddrAdd, Addr
<1>7. a % 4 = 0
  BY <1>1, <1>3, <1>4 DEF AddrAdd
<1>8. ASSUME NEW k \in Lane PROVE AddrAdd(addr, e + k) = a + k
  <2>1. k \in 0 .. 3
    BY DEF Lane
  <2>2. CASE addr + e < AddrMod
    <3>1. a = addr + e /\ addr + e + k < AddrMod
      <4>1. a + k \in Addr /\ a = addr + e
        BY <1>6, <1>7, <2>2, WordWithin DEF AddrAdd
      <4>2. QED BY <1>1, <1>3, <2>1, <4>1 DEF Addr
    <3>2. QED BY <1>1, <1>3, <2>1, <3>1 DEF AddrAdd
  <2>3. CASE ~ (addr + e < AddrMod)
    BY <1>1, <1>3, <2>1, <2>3 DEF AddrAdd
  <2>4. QED BY <2>2, <2>3
<1>9. QED BY <1>6, <1>7, <1>8 DEF e

\* What of a chunk is in the DRAM after its first n writes.
SegmentSoFar(v, mem, addr, dst, len, m) ==
  /\ v \in Written
  /\ (\A i \in 0 .. m - 1 : AddrAdd(addr, i) \in DramAddrs) => v.resp = "OKAY"
  /\ v.resp = "OKAY" => \A i \in 0 .. m - 1 : AddrAdd(addr, i) \in DramAddrs \cup WriteRegAddrs
  /\ \A x \in DramAddrs :
       (\A i \in 0 .. m - 1 : x # AddrAdd(addr, i)) => v.mem[x - DramBase] = mem[x - DramBase]
  /\ v.resp = "OKAY" =>
       \A i \in 0 .. m - 1 : Lands(addr, len, i) /\ AddrAdd(addr, i) \in DramAddrs
         => v.mem[AddrAdd(addr, i) - DramBase] = dst[i]

\* One write of a chunk.
LEMMA ChunkStep ==
  ASSUME NEW mem, NEW addr \in Addr, NEW len \in 0 .. AddrMod, NEW dst \in [0 .. len - 1 -> Byte],
         NEW n \in 1 .. WriteCount(addr, len), NEW v, NEW hostTakes,
         SegmentSoFar(v, mem, addr, dst, len, Moved(addr, len, n - 1))
  PROVE  SegmentSoFar(IF v.resp = "OKAY"
                      THEN MapWrite(v.mem, ChunkWrites(addr, dst, len)[n], hostTakes) ELSE v,
                      mem, addr, dst, len, Moved(addr, len, n))
<1> DEFINE e == Moved(addr, len, n - 1)
           m == Moved(addr, len, n)
           w == ChunkWrites(addr, dst, len)[n]
           out == MapWrite(v.mem, w, hostTakes)
           At(i) == AddrAdd(addr, i)
<1>1. len \in Nat /\ e \in Nat /\ m \in Nat /\ m <= len /\ e < m
  <2>1. len \in Nat
    BY Sizes
  <2>2. QED BY <2>1, MovedGrows
<1>2. v \in Written /\ v.mem \in Backing
  BY DEF SegmentSoFar, Written
<1>3. /\ \A i \in 0 .. m - 1 : At(i) \in Addr
      /\ \A i, j \in 0 .. m - 1 : At(i) = At(j) => i = j
  <2>1. 0 .. m - 1 \subseteq 0 .. len - 1 /\ 0 .. m - 1 \subseteq 0 .. len
    BY <1>1
  <2>2. QED BY <2>1, ChunkAddresses
<1>4. 0 .. m - 1 = (0 .. e - 1) \cup (e .. m - 1)
  BY <1>1
\* What the write does to its own bytes and to the others.
<1>5. ASSUME v.resp = "OKAY"
      PROVE  /\ out \in Written
             /\ (\A i \in e .. m - 1 : At(i) \in DramAddrs) => out.resp = "OKAY"
             /\ out.resp = "OKAY" => \A i \in e .. m - 1 : At(i) \in DramAddrs \cup WriteRegAddrs
             /\ \A x \in DramAddrs : (\A i \in e .. m - 1 : x # At(i))
                  => out.mem[x - DramBase] = v.mem[x - DramBase]
             /\ \A i \in e .. m - 1 : At(i) \in DramAddrs /\ Lands(addr, len, i)
                  => out.mem[At(i) - DramBase] = dst[i]
  <2>1. CASE AsWord(addr, len, n)
    <3> DEFINE a == At(e)
               bytes == [k \in Lane |-> dst[e + k]]
    <3>1. w = WordWrite(a, bytes)
      BY <1>1, <2>1, ChunkIs
    <3>2. m = e + 4
      BY <1>1, <2>1, MovedGrows
    <3>3. /\ a \in Addr /\ a % 4 = 0
          /\ \A k \in Lane : At(e + k) = a + k
      BY <2>1, WordAt
    <3>4. \A k \in Lane : e + k \in e .. m - 1 /\ e + k \in 0 .. len - 1
      BY <1>1, <3>2 DEF Lane
    <3>5. \A i \in e .. m - 1 : i - e \in Lane /\ i = e + (i - e)
      BY <1>1, <3>2 DEF Lane
    <3>6. bytes \in Word
      BY <3>4 DEF Word
    <3>7. a \in Nat
      BY <3>3, Sizes DEF Addr
    <3> HIDE DEF a, bytes, w
    <3>8. /\ MapWrite(v.mem, WordWrite(a, bytes), hostTakes) \in Written
          /\ a \in DramAddrs => MapWrite(v.mem, WordWrite(a, bytes), hostTakes).resp = "OKAY"
          /\ MapWrite(v.mem, WordWrite(a, bytes), hostTakes).resp = "OKAY"
               => a \in DramAddrs \cup WriteRegAddrs
          /\ \A x \in DramAddrs :
               MapWrite(v.mem, WordWrite(a, bytes), hostTakes).mem[x - DramBase] =
                 IF x \in a .. a + 3 THEN bytes[x - a] ELSE v.mem[x - DramBase]
      BY <1>2, <3>3, <3>6, WordLands
    <3>9. \A i \in e .. m - 1 : /\ At(i) \in DramAddrs <=> a \in DramAddrs
                                /\ At(i) \in WriteRegAddrs <=> a \in WriteRegAddrs
      <4>1. SUFFICES ASSUME NEW i \in e .. m - 1
                     PROVE  /\ At(i) \in DramAddrs <=> a \in DramAddrs
                            /\ At(i) \in WriteRegAddrs <=> a \in WriteRegAddrs
        OBVIOUS
      <4>2. i - e \in Lane /\ At(i) = a + (i - e)
        BY <3>3, <3>5
      <4>3. QED BY <3>3, <4>2, RegistersIn, WordWithin
    <3>10. /\ (\A i \in e .. m - 1 : At(i) \in DramAddrs) => a \in DramAddrs
           /\ a \in DramAddrs \cup WriteRegAddrs =>
                \A i \in e .. m - 1 : At(i) \in DramAddrs \cup WriteRegAddrs
      <4>1. e \in e .. m - 1
        BY <1>1
      <4>2. QED BY <3>9, <4>1
    <3>11. \A x : x \in a .. a + 3 => \E i \in e .. m - 1 : x = At(i)
      <4>1. \A x : x \in a .. a + 3 => x - a \in Lane /\ x = a + (x - a)
        BY <3>7 DEF Lane
      <4>2. QED BY <3>3, <3>4, <4>1
    <3>12. \A i \in e .. m - 1 : At(i) \in a .. a + 3 /\ At(i) - a = i - e
      <4>1. \A k \in Lane : a + k \in a .. a + 3 /\ (a + k) - a = k
        BY <3>7 DEF Lane
      <4>2. QED BY <3>3, <3>5, <4>1
    <3>13. \A i \in e .. m - 1 : bytes[i - e] = dst[i]
      BY <3>5 DEF bytes
    <3> HIDE DEF At, e, m
    <3>14. QED BY <3>1, <3>8, <3>10, <3>11, <3>12, <3>13 DEF out
  <2>2. CASE ~ AsWord(addr, len, n)
    <3> DEFINE a == At(e)
    <3>1. w = ByteWrite(a, dst[e])
      BY <1>1, <2>2, ChunkIs
    <3>2. m = e + 1 /\ e \notin Leading(addr, len) .. Leading(addr, len) + 4 * Words(addr, len) - 1
      BY <1>1, <2>2, MovedGrows
    <3>3. e .. m - 1 = {e}
      BY <1>1, <3>2
    <3>4. dst[e] \in Byte /\ a \in Addr
      <4>1. e \in 0 .. len - 1 /\ e \in 0 .. m - 1
        BY <1>1
      <4>2. QED BY <1>3, <4>1
    <3>5. Lands(addr, len, e) => a % 4 = 0
      BY <3>2 DEF Lands
    <3> HIDE DEF a, w
    <3>6. /\ MapWrite(v.mem, ByteWrite(a, dst[e]), hostTakes) \in Written
          /\ a \in DramAddrs => MapWrite(v.mem, ByteWrite(a, dst[e]), hostTakes).resp = "OKAY"
          /\ MapWrite(v.mem, ByteWrite(a, dst[e]), hostTakes).resp = "OKAY"
               => a \in DramAddrs \cup WriteRegAddrs
          /\ \A x \in DramAddrs :
               MapWrite(v.mem, ByteWrite(a, dst[e]), hostTakes).mem[x - DramBase] =
                 IF x = a /\ a % 4 = 0 THEN dst[e] ELSE v.mem[x - DramBase]
      BY <1>2, <3>4, ByteLands
    <3>7. \A i \in e .. m - 1 : i = e /\ At(i) = a
      BY <3>3 DEF a
    <3>8. e \in e .. m - 1
      BY <3>3
    <3> HIDE DEF At, e, m
    <3>9. QED BY <3>1, <3>5, <3>6, <3>7, <3>8 DEF out
  <2>3. QED BY <2>1, <2>2
<1>6. CASE v.resp = "OKAY"
  <2>1. \A i \in 0 .. e - 1 : At(i) \in DramAddrs \cup WriteRegAddrs /\ i \in 0 .. m - 1 /\
              \A j \in e .. m - 1 : At(i) # At(j)
    <3>1. \A i \in 0 .. e - 1 : At(i) \in DramAddrs \cup WriteRegAddrs
      BY <1>6 DEF SegmentSoFar
    <3>2. \A i \in 0 .. e - 1, j \in e .. m - 1 : i \in 0 .. m - 1 /\ j \in 0 .. m - 1 /\ i # j
      BY <1>1
    <3>3. e \in e .. m - 1
      BY <1>1
    <3>4. QED BY <1>3, <3>1, <3>2, <3>3
  <2>2. \A x \in DramAddrs : (\A i \in 0 .. e - 1 : x # At(i)) =>
              v.mem[x - DramBase] = mem[x - DramBase]
    BY DEF SegmentSoFar
  <2>3. \A i \in 0 .. e - 1 : Lands(addr, len, i) /\ At(i) \in DramAddrs => v.mem[At(i) - DramBase] = dst[i]
    BY <1>6 DEF SegmentSoFar
  <2> HIDE DEF At, e, m, out, w
  <2>4. /\ (\A i \in 0 .. m - 1 : At(i) \in DramAddrs) => out.resp = "OKAY"
        /\ out.resp = "OKAY" => \A i \in 0 .. m - 1 : At(i) \in DramAddrs \cup WriteRegAddrs
    BY <1>4, <1>5, <1>6, <2>1
  <2>5. \A x \in DramAddrs : (\A i \in 0 .. m - 1 : x # At(i)) =>
              out.mem[x - DramBase] = mem[x - DramBase]
    BY <1>4, <1>5, <1>6, <2>2
  <2>6. out.resp = "OKAY" =>
          \A i \in 0 .. m - 1 : Lands(addr, len, i) /\ At(i) \in DramAddrs
            => out.mem[At(i) - DramBase] = dst[i]
    <3>1. ASSUME NEW i \in 0 .. e - 1, Lands(addr, len, i), At(i) \in DramAddrs
          PROVE  out.mem[At(i) - DramBase] = dst[i]
      BY <1>5, <1>6, <2>1, <2>3, <3>1
    <3>2. QED BY <1>4, <1>5, <1>6, <3>1
  <2>7. QED BY <1>5, <1>6, <2>4, <2>5, <2>6 DEF SegmentSoFar, At, m, out, w
<1>7. CASE v.resp # "OKAY"
  <2>1. ~ \A i \in 0 .. m - 1 : At(i) \in DramAddrs
    <3>1. ~ \A i \in 0 .. e - 1 : At(i) \in DramAddrs
      BY <1>7 DEF SegmentSoFar
    <3>2. QED BY <1>4, <3>1
  <2>2. \A x \in DramAddrs : (\A i \in 0 .. m - 1 : x # At(i)) =>
              v.mem[x - DramBase] = mem[x - DramBase]
    <3>1. \A x \in DramAddrs : (\A i \in 0 .. e - 1 : x # At(i)) =>
                v.mem[x - DramBase] = mem[x - DramBase]
      BY DEF SegmentSoFar
    <3>2. QED BY <1>4, <3>1
  <2>3. QED BY <1>2, <1>7, <2>1, <2>2 DEF SegmentSoFar
<1>8. QED BY <1>6, <1>7

\* A segment's chunk goes through as far as the DRAM has its bytes.
LEMMA ChunkWritten ==
  ASSUME NEW mem \in Backing, NEW addr \in Addr, NEW len \in 0 .. AddrMod,
         NEW dst \in [0 .. len - 1 -> Byte], NEW hostTakes
  PROVE  SegmentSoFar(WriteSegment(mem, addr, dst, len, hostTakes), mem, addr, dst, len, len)
<1> DEFINE N == WriteCount(addr, len)
           writes == ChunkWrites(addr, dst, len)
           start == [resp |-> "OKAY", mem |-> mem]
           After(h) == [n \in 0 .. Len(writes) |->
                          IF n = 0 THEN start
                          ELSE IF h[n - 1].resp = "OKAY" THEN MapWrite(h[n - 1].mem, writes[n], hostTakes)
                          ELSE h[n - 1]]
           g == CHOOSE h : h = After(h)
           step == [n \in 1 .. N |->
                      [v \in Written |-> IF v.resp = "OKAY" THEN MapWrite(v.mem, writes[n], hostTakes) ELSE v]]
           So(v, n) == SegmentSoFar(v, mem, addr, dst, len, Moved(addr, len, n))
<1>1. len \in Nat /\ N \in Nat /\ Len(writes) = N
  <2>1. len \in Nat
    BY Sizes
  <2>2. QED BY <2>1, Parts, ChunkIs
<1>2. start \in Written
  BY DEF Written
<1>3. ASSUME NEW n \in 1 .. N, NEW v \in Written PROVE MapWrite(v.mem, writes[n], hostTakes) \in Written
  <2>1. v.mem \in Backing
    BY DEF Written
  <2>2. CASE AsWord(addr, len, n)
    <3>1. writes[n] = WordWrite(AddrAdd(addr, Moved(addr, len, n - 1)),
                                [k \in Lane |-> dst[Moved(addr, len, n - 1) + k]])
      BY <1>1, <2>2, ChunkIs
    <3>2. \A k \in Lane : Moved(addr, len, n - 1) + k \in 0 .. len - 1
      <4>1. \A k \in Lane : Moved(addr, len, n - 1) + k \in Leading(addr, len) ..
                  Leading(addr, len) + 4 * Words(addr, len) - 1
        BY <1>1, <2>2, MovedGrows
      <4>2. \A x \in Leading(addr, len) .. Leading(addr, len) + 4 * Words(addr, len) - 1 :
                  x \in 0 .. len - 1
        <5>1. Leading(addr, len) \in Nat /\ Words(addr, len) \in Nat /\
                    Leading(addr, len) + 4 * Words(addr, len) \in 0 .. len
          BY <1>1, Parts
        <5>2. QED BY <1>1, <5>1
      <4>3. QED BY <4>1, <4>2
    <3>3. [k \in Lane |-> dst[Moved(addr, len, n - 1) + k]] \in Word
      BY <3>2 DEF Word
    <3>4. AddrAdd(addr, Moved(addr, len, n - 1)) \in Addr /\
                AddrAdd(addr, Moved(addr, len, n - 1)) % 4 = 0
      BY <2>2, WordAt
    <3> HIDE DEF writes
    <3>5. QED BY <2>1, <3>1, <3>3, <3>4, WordLands
  <2>3. CASE ~ AsWord(addr, len, n)
    <3>1. writes[n] = ByteWrite(AddrAdd(addr, Moved(addr, len, n - 1)),
                                dst[Moved(addr, len, n - 1)])
      BY <1>1, <2>3, ChunkIs
    <3>2. Moved(addr, len, n - 1) \in 0 .. len - 1 /\ Moved(addr, len, n - 1) \in 0 .. len
      BY <1>1, <2>3, MovedGrows
    <3>3. dst[Moved(addr, len, n - 1)] \in Byte /\ AddrAdd(addr, Moved(addr, len, n - 1)) \in Addr
      BY <3>2, ChunkAddresses
    <3> HIDE DEF writes
    <3>4. QED BY <2>1, <3>1, <3>3, ByteLands
  <2>4. QED BY <2>2, <2>3
<1> HIDE DEF N, start, writes
<1>4. step \in [1 .. N -> [Written -> Written]]
  BY <1>3
<1>5. PICK f \in [0 .. N -> Written] : f[0] = start /\ \A n \in 1 .. N : f[n] = step[n][f[n - 1]]
  <2> HIDE DEF step
  <2>1. N \in Nat
    BY <1>1
  <2>2. Solvable(N, Written, start, step)
    BY <1>2, <1>4, <2>1, RecursionExists
  <2>3. QED BY <2>2 DEF Solvable
<1>6. \A n \in 1 .. N : f[n] = IF f[n - 1].resp = "OKAY" THEN MapWrite(f[n - 1].mem, writes[n], hostTakes)
                               ELSE f[n - 1]
  <2>1. \A n \in 1 .. N : f[n - 1] \in Written
    BY <1>1
  <2>2. QED BY <1>5, <2>1
<1>7. f = After(f)
  <2>1. \A n \in 0 .. N : n # 0 => n \in 1 .. N
    BY <1>1
  <2>2. \A n \in 0 .. N : f[n] = IF n = 0 THEN start
                                 ELSE IF f[n - 1].resp = "OKAY"
                                 THEN MapWrite(f[n - 1].mem, writes[n], hostTakes)
                                 ELSE f[n - 1]
    BY <1>5, <1>6, <2>1
  <2>3. f = [n \in 0 .. N |-> f[n]]
    BY <1>5
  <2>4. QED BY <1>1, <2>2, <2>3
<1>8. g = After(g)
  <2> HIDE DEF After
  <2>1. QED BY <1>7
<1>9. WriteSegment(mem, addr, dst, len, hostTakes) = g[N]
  BY <1>1 DEF WriteSegment, writes, start
<1> HIDE DEF g
<1>10. /\ g[0] = start
       /\ \A n \in 1 .. N : g[n] = IF g[n - 1].resp = "OKAY" THEN MapWrite(g[n - 1].mem, writes[n], hostTakes)
                                   ELSE g[n - 1]
  <2>1. 0 \in 0 .. N /\ \A n \in 1 .. N : n \in 0 .. N /\ n # 0
    BY <1>1
  <2>2. QED BY <1>1, <1>8, <2>1
<1>11. 0 .. N \subseteq {n \in 0 .. N : So(g[n], n)}
  <2> DEFINE S == {n \in 0 .. N : So(g[n], n)}
  <2>1. 0 \in S
    <3>1. So(start, 0)
      <4>1. Moved(addr, len, 0) = 0 /\ 0 .. 0 - 1 = {}
        BY <1>1, MovedEnds
      <4>2. SegmentSoFar(start, mem, addr, dst, len, 0)
        BY <1>2, <4>1 DEF SegmentSoFar, start
      <4>3. QED BY <4>1, <4>2
    <3> HIDE DEF So
    <3>2. QED BY <1>1, <1>10, <3>1
  <2>2. \A n \in 1 .. N : n - 1 \in S => n \in S
    <3>1. SUFFICES ASSUME NEW n \in 1 .. N, n - 1 \in S PROVE n \in S
      OBVIOUS
    <3>2. So(g[n - 1], n - 1)
      BY <3>1
    <3>3. So(IF g[n - 1].resp = "OKAY" THEN MapWrite(g[n - 1].mem, writes[n], hostTakes) ELSE g[n - 1], n)
      BY <3>2, ChunkStep DEF N, writes
    <3>4. g[n] = IF g[n - 1].resp = "OKAY" THEN MapWrite(g[n - 1].mem, writes[n], hostTakes) ELSE g[n - 1]
      BY <1>10
    <3> HIDE DEF So
    <3>5. So(g[n], n)
      BY <3>3, <3>4
    <3>6. QED BY <1>1, <3>5
  <2> HIDE DEF S
  <2>3. 0 .. N \subseteq S
    BY <1>1, <2>1, <2>2, UpTo
  <2>4. QED BY <2>3 DEF S
<1>12. So(g[N], N)
  <2> HIDE DEF So
  <2>1. N \in 0 .. N
    BY <1>1
  <2>2. QED BY <1>11, <2>1
<1>13. Moved(addr, len, N) = len
  BY <1>1, MovedEnds DEF N
<1>14. QED BY <1>9, <1>12, <1>13

-----------------------------------------------------------------------------
(* The accesses of the core are those of a byte memory.                     *)

LEMMA AddrIsNat == \A addr \in Addr : addr \in Nat
  BY Sizes DEF Addr

\* Where an aligned access lies.
LEMMA AccessWithin ==
  ASSUME NEW addr \in Addr, NEW len \in MemLen, addr % len = 0
  PROVE  /\ ByteMem!Bytes(addr, len) \subseteq DramAddrs <=> addr \in DramAddrs
         /\ ByteMem!Bytes(addr, len) \subseteq RomAddrs \cup DramAddrs
              <=> addr \in RomAddrs \cup DramAddrs
         /\ addr \in RomAddrs => ByteMem!Bytes(addr, len) \subseteq RomAddrs
         /\ addr \in ByteMem!Bytes(addr, len)
         /\ ByteMem!Bytes(addr, len) \subseteq ReadRegAddrs <=> addr \in ReadRegAddrs
         /\ ByteMem!Bytes(addr, len) \subseteq WriteRegAddrs <=> addr \in WriteRegAddrs
<1>1. addr \in Nat /\ len \in Nat \ {0}
  BY AddrIsNat DEF MemLen
<1>2. (DramBase + DramSize) % 4 = 0 /\ DramBase + DramSize \in Nat
  BY Sizes
<1>3. addr < RomSize => addr + len <= RomSize
  BY Alignment, Sizes
<1>4. addr < DramBase + DramSize => addr + len <= DramBase + DramSize
  BY <1>2, Alignment
<1>5. addr \in ByteMem!Bytes(addr, len)
  BY <1>1 DEF ByteMem!Bytes
<1>6. addr \in RomAddrs => ByteMem!Bytes(addr, len) \subseteq RomAddrs
  BY <1>1, <1>3, Sizes DEF ByteMem!Bytes, RomAddrs
<1>7. addr \in DramAddrs => ByteMem!Bytes(addr, len) \subseteq DramAddrs
  BY <1>1, <1>4, Sizes DEF ByteMem!Bytes, DramAddrs
<1>8. ASSUME NEW x \in ByteMem!Bytes(addr, len) PROVE x \in Addr /\ x - (x % 4) = addr - (addr % 4)
  <2>1. x \in Nat /\ addr <= x /\ x < addr + len /\ addr + len <= AddrMod
    BY <1>1, Alignment DEF ByteMem!Bytes
  <2>2. x \in Addr
    BY <1>1, <2>1, Sizes DEF Addr
  <2>3. CASE len = 1
    BY <1>1, <2>1, <2>2, <2>3
  <2>4. CASE len = 2
    BY <1>1, <2>1, <2>2, <2>4
  <2>5. CASE len = 4
    BY <1>1, <2>1, <2>2, <2>5
  <2>6. QED BY <2>3, <2>4, <2>5 DEF MemLen
<1>9. /\ addr \in ReadRegAddrs => ByteMem!Bytes(addr, len) \subseteq ReadRegAddrs
      /\ addr \in WriteRegAddrs => ByteMem!Bytes(addr, len) \subseteq WriteRegAddrs
  BY <1>8 DEF ReadRegAddrs, WriteRegAddrs
<1>10. QED BY <1>5, <1>6, <1>7, <1>9

\* A store: where it stores, and the bytes it leaves.
LEMMA StoreIs ==
  ASSUME NEW mem \in Backing, NEW addr \in Addr, NEW len \in MemLen, addr % len = 0,
         NEW data \in Word, NEW hostTakes
  PROVE  LET out == MapWrite(mem, BridgeWrite(addr, ByteEnable(addr, len),
                                              StoreLanes(addr, len, data)), hostTakes)
         IN  /\ out \in Written
             /\ addr \in DramAddrs => out.resp = "OKAY"
             /\ out.resp = "OKAY" => addr \in DramAddrs \cup WriteRegAddrs
             /\ addr \notin DramAddrs => out.mem = mem
             /\ addr \in DramAddrs =>
                  \A x \in DramAddrs :
                    out.mem[x - DramBase] = IF x \in ByteMem!Bytes(addr, len) THEN data[x - addr]
                                            ELSE mem[x - DramBase]
<1> DEFINE w == BridgeWrite(addr, ByteEnable(addr, len), StoreLanes(addr, len, data))
           out == MapWrite(mem, w, hostTakes)
<1>1. addr \in Nat /\ len \in Nat /\ DramBase \in Nat
  BY AddrIsNat, Sizes DEF MemLen
<1>2. /\ w = [addr |-> addr, width |-> len, strb |-> w.strb, value |-> w.value]
      /\ w.strb = 0 .. len - 1 /\ w.value \in Word
      /\ \A i \in 0 .. len - 1 : w.value[i] = data[i]
  BY <1>1, StoreArrives
<1> HIDE DEF w
<1>3. w.addr = addr /\ w.width = len
  BY <1>2
<1>4. w \in AlignedWrites
  <2>1. 0 .. len - 1 \subseteq Lane /\ (len = 4 => 0 .. len - 1 = Lane)
    BY DEF MemLen, Lane
  <2>2. w \in [addr : Addr, width : MemLen, strb : SUBSET Lane, value : Word]
    <3>1. \A s \in SUBSET Lane, v \in Word : [addr |-> addr, width |-> len, strb |-> s, value |-> v]
             \in [addr : Addr, width : MemLen, strb : SUBSET Lane, value : Word]
      OBVIOUS
    <3>2. w.strb \in SUBSET Lane /\ w.value \in Word
      BY <1>2, <2>1
    <3>3. QED BY <1>2, <3>1, <3>2
  <2>3. QED BY <1>2, <1>3, <2>1, <2>2 DEF AlignedWrites
<1>5. CASE addr \in DramAddrs
  <2>1. out = [resp |-> "OKAY", mem |-> Stored(mem, addr - DramBase, len, w.value, 0 .. len - 1)]
    <3>1. out = [resp |-> "OKAY",
                 mem |-> Stored(mem, w.addr - DramBase, w.width, w.value, w.strb)]
      BY <1>3, <1>4, <1>5, WriteReaches
    <3>2. QED BY <1>2, <1>3, <3>1
  <2>2. ASSUME NEW x \in DramAddrs
        PROVE  Stored(mem, addr - DramBase, len, w.value, 0 .. len - 1)[x - DramBase] =
                 IF x \in ByteMem!Bytes(addr, len) THEN data[x - addr] ELSE mem[x - DramBase]
    <3>1. x \in Nat /\ x - DramBase \in 0 .. DramSize - 1
      BY <2>2, Sizes DEF DramAddrs
    <3>2. x - DramBase - (addr - DramBase) = x - addr
      BY <1>1, <3>1
    <3>3. x - DramBase \in DOMAIN mem
      BY <3>1 DEF Backing
    <3>4. x - addr \in 0 .. len - 1 <=> x \in ByteMem!Bytes(addr, len)
      BY <1>1, <3>1 DEF ByteMem!Bytes
    <3>5. Stored(mem, addr - DramBase, len, w.value, 0 .. len - 1)[x - DramBase] =
            IF x - addr \in 0 .. len - 1 THEN w.value[x - addr] ELSE mem[x - DramBase]
      BY <3>2, <3>3 DEF Stored
    <3>6. QED BY <1>2, <3>4, <3>5
  <2>3. out \in Written
    BY <1>4, WriteReaches
  <2>4. /\ out.resp = "OKAY"
        /\ out.mem = Stored(mem, addr - DramBase, len, w.value, 0 .. len - 1)
    BY <2>1
  <2> HIDE DEF out
  <2>5. QED BY <1>5, <2>2, <2>3, <2>4 DEF w, out
<1>6. CASE addr \notin DramAddrs
  <2>1. out \in Written /\ out.mem = mem /\ (out.resp = "OKAY" => addr \in WriteRegs)
    BY <1>3, <1>4, <1>6, WriteReaches
  <2>2. addr \in WriteRegs => addr \in WriteRegAddrs
    BY RegistersAligned, RegistersIn
  <2> HIDE DEF out
  <2>3. QED BY <1>6, <2>1, <2>2 DEF w, out
<1>7. QED BY <1>5, <1>6

\* What the memory behind the map holds.
Held(mem) ==
  [a \in RomAddrs \cup DramAddrs |-> IF a \in RomAddrs THEN Rom[a] ELSE mem[a - DramBase]]

LEMMA HeldTypes == ASSUME NEW mem \in Backing PROVE Held(mem) \in [RomAddrs \cup DramAddrs -> Byte]
<1>1. \A a \in RomAddrs : Rom[a] \in Byte
  BY Sizes DEF RomAddrs
<1>2. \A a \in DramAddrs : a - DramBase \in 0 .. DramSize - 1
  BY Sizes DEF DramAddrs
<1>3. \A a \in DramAddrs : mem[a - DramBase] \in Byte
  BY <1>2 DEF Backing
<1>4. QED BY <1>1, <1>3 DEF Held

\* A word read behind the map.
LEMMA ReadIs ==
  ASSUME NEW mem \in Backing, NEW addr \in Addr, addr % 4 = 0, NEW io
  PROVE  /\ addr \in RomAddrs \cup DramAddrs =>
              MapRead(mem, addr, 4, io) = Okay([i \in Lane |-> Held(mem)[addr + i]])
         /\ addr \in ReadRegs =>
              addr \notin RomAddrs \cup DramAddrs /\ MapRead(mem, addr, 4, io) = Okay(io)
         /\ addr \notin RomAddrs \cup DramAddrs \cup ReadRegs =>
              MapRead(mem, addr, 4, io) \in {Slverr, Decerr}
<1>1. addr \in Nat
  BY AddrIsNat
<1>2. /\ addr \in RomAddrs => MapRead(mem, addr, 4, io) = Okay([i \in Lane |-> Rom[addr + i]])
      /\ addr \in DramAddrs =>
           MapRead(mem, addr, 4, io) = Okay([i \in Lane |-> mem[addr - DramBase + i]])
      /\ addr \in ReadRegs =>
           addr \notin RomAddrs \cup DramAddrs /\ MapRead(mem, addr, 4, io) = Okay(io)
      /\ addr \notin RomAddrs \cup DramAddrs \cup ReadRegs =>
           MapRead(mem, addr, 4, io) \in {Slverr, Decerr}
  BY ReadReaches
<1>3. \A i \in Lane : addr + i \in ByteMem!Bytes(addr, 4)
  BY <1>1 DEF ByteMem!Bytes, Lane
<1>4. CASE addr \in RomAddrs
  <2>1. \A i \in Lane : addr + i \in RomAddrs
    BY <1>3, <1>4, AccessWithin DEF MemLen
  <2>2. \A i \in Lane : Held(mem)[addr + i] = Rom[addr + i]
    BY <2>1 DEF Held
  <2>3. [i \in Lane |-> Held(mem)[addr + i]] = [i \in Lane |-> Rom[addr + i]]
    BY <2>2
  <2>4. QED BY <1>2, <1>4, <2>3
<1>5. CASE addr \in DramAddrs
  <2>1. \A i \in Lane : addr + i \in DramAddrs
    BY <1>3, <1>5, AccessWithin DEF MemLen
  <2>2. \A a \in DramAddrs : a \notin RomAddrs
    BY Sizes DEF RomAddrs, DramAddrs
  <2>3. \A i \in Lane : (addr + i) - DramBase = addr - DramBase + i
    BY <1>1, Sizes DEF Lane
  <2>4. \A i \in Lane : Held(mem)[addr + i] = mem[addr - DramBase + i]
    <3>1. \A a \in DramAddrs : Held(mem)[a] = mem[a - DramBase]
      BY <2>2 DEF Held
    <3>2. \A i \in Lane : Held(mem)[addr + i] = mem[(addr + i) - DramBase]
      <4>1. SUFFICES ASSUME NEW i \in Lane
                     PROVE  Held(mem)[addr + i] = mem[(addr + i) - DramBase]
        OBVIOUS
      <4> DEFINE x == addr + i
      <4>2. x \in DramAddrs
        BY <2>1
      <4> HIDE DEF x
      <4>3. Held(mem)[x] = mem[x - DramBase]
        BY <3>1, <4>2
      <4>4. QED BY <4>3 DEF x
    <3>3. QED BY <2>3, <3>2
  <2>5. [i \in Lane |-> Held(mem)[addr + i]] = [i \in Lane |-> mem[addr - DramBase + i]]
    BY <2>4
  <2>6. QED BY <1>2, <1>5, <2>5
<1>6. CASE addr \notin RomAddrs \cup DramAddrs
  BY <1>2, <1>6
<1>7. QED BY <1>4, <1>5, <1>6

\* ByteMemory has the lanes by definitions of its own, which are the same.
LEMMA SameLanes ==
  /\ ByteMem!Lane = Lane /\ ByteMem!Zero = Zero /\ ByteMem!MemLen = MemLen /\ ByteMem!Word = Word
  /\ \A b : ByteMem!SignOf(b) = SignOf(b)
  /\ \A len : ByteMem!Extensions(len) = Extensions(len)
  /\ \A status, value : ByteMem!Reply(status, value) = Reply(status, value)
  /\ ByteMem!NoAccess = NoAccess
  BY DEF ByteMem!Lane, Lane, ByteMem!Zero, Zero, ByteMem!MemLen, MemLen, ByteMem!SignOf, SignOf,
         ByteMem!Extensions, Extensions, ByteMem!Reply, Reply, ByteMem!Word, Word, ByteMem!Byte, Byte,
         ByteMem!NoAccess, NoAccess

LEMMA LoadedIs ==
  \A read, len, s : ByteMem!Loaded(read, len, s) =
    [i \in Lane |-> IF i < len THEN read[i] ELSE IF s THEN SignOf(read[len - 1]) ELSE 0]
  BY SameLanes DEF ByteMem!Loaded

\* What the filter makes of a register's word is a word, with its upper bytes from
\* the sign.
LEMMA FilterIs ==
  ASSUME NEW addr \in Nat, NEW len \in MemLen, addr % len = 0, NEW w \in Word, NEW s \in BOOLEAN
  PROVE  /\ LoadFilter(addr, w, len, s) \in Word
         /\ ByteMem!Loaded(LoadFilter(addr, w, len, s), len, s) = LoadFilter(addr, w, len, s)
<1> DEFINE k == addr % 4
           f == LoadFilter(addr, w, len, s)
<1>1. f = [i \in Lane |-> IF i < len THEN w[k + i] ELSE IF s THEN SignOf(w[k + (len - 1)]) ELSE 0]
  BY LoadArrives
<1>2. \A i \in Lane : i < len => k + i \in Lane
  <2>1. CASE len = 1
    BY <2>1 DEF Lane
  <2>2. CASE len = 2
    BY <2>2 DEF Lane
  <2>3. CASE len = 4
    BY <2>3 DEF Lane
  <2>4. QED BY <2>1, <2>2, <2>3 DEF MemLen
<1>3. len - 1 \in Lane /\ len - 1 < len
  BY DEF MemLen, Lane
<1> HIDE DEF f, k
<1>4. \A b : SignOf(b) \in Byte
  BY DEF SignOf, Byte
<1>5. 0 \in Byte /\ \A i \in Lane : w[i] \in Byte
  BY DEF Byte, Word
<1>6. f \in Word
  BY <1>1, <1>2, <1>4, <1>5 DEF Word
<1>7. f[len - 1] = w[k + (len - 1)]
  BY <1>1, <1>3
<1>8. \A i \in Lane : i < len => f[i] = w[k + i]
  BY <1>1
<1>9. ByteMem!Loaded(f, len, s) =
        [i \in Lane |-> IF i < len THEN f[i] ELSE IF s THEN SignOf(f[len - 1]) ELSE 0]
  BY LoadedIs
<1>10. ByteMem!Loaded(f, len, s) = f
  BY <1>1, <1>7, <1>8, <1>9
<1>11. QED BY <1>6, <1>10 DEF f

\* A load: the word that holds its bytes is read, and they are taken out of it.
LEMMA LoadIs ==
  ASSUME NEW mem \in Backing, NEW addr \in Addr, NEW len \in MemLen, addr % len = 0,
         NEW s \in BOOLEAN, NEW io
  PROVE  LET out == MapRead(mem, BridgeReadAddr(addr), 4, io) IN
         /\ addr \in RomAddrs \cup DramAddrs =>
              /\ out.resp = "OKAY"
              /\ LoadFilter(addr, out.value, len, s) =
                   [i \in Lane |-> IF i < len THEN Held(mem)[addr + i]
                                   ELSE IF s THEN SignOf(Held(mem)[addr + len - 1]) ELSE 0]
         /\ addr \in ReadRegAddrs =>
              addr \notin RomAddrs \cup DramAddrs /\ out.resp = "OKAY" /\ out.value = io
         /\ addr \notin RomAddrs \cup DramAddrs \cup ReadRegAddrs => out.resp # "OKAY"
<1> DEFINE b == BridgeReadAddr(addr)
           k == addr % 4
           rdata == [i \in Lane |-> Held(mem)[b + i]]
<1>1. addr \in Nat /\ addr < AddrMod
  BY AddrIsNat, Sizes DEF Addr
<1>2. k \in Lane /\ b \in Nat /\ b % 4 = 0 /\ b + k = addr
  BY <1>1 DEF BridgeReadAddr, Lane
<1>3. b \in Addr
  BY <1>1, <1>2, Sizes DEF Addr, Lane
<1>4. \A i \in 0 .. len - 1 : k + i \in Lane /\ b + (k + i) = addr + i
  <2> HIDE DEF b
  <2>1. CASE len = 1
    BY <1>1, <1>2, <2>1 DEF Lane
  <2>2. CASE len = 2
    BY <1>1, <1>2, <2>2 DEF Lane
  <2>3. CASE len = 4
    BY <1>1, <1>2, <2>3 DEF Lane
  <2>4. QED BY <2>1, <2>2, <2>3 DEF MemLen
<1> HIDE DEF b, k
<1>5. b \in RomAddrs \cup DramAddrs <=> addr \in RomAddrs \cup DramAddrs
  <2>1. addr \in DramAddrs <=> b \in DramAddrs
    BY <1>2, <1>3, WordWithin
  <2>2. addr \in RomAddrs <=> b \in RomAddrs
    <3>1. \A a, m \in Nat : m % 4 = 0 /\ a % 4 = 0 => \A j \in Lane : a + j < m <=> a < m
      BY DEF Lane
    <3>2. addr < RomSize <=> b < RomSize
      BY <1>2, <3>1, Sizes
    <3>3. QED BY <1>1, <1>2, <3>2, Sizes DEF RomAddrs
  <2>3. QED BY <2>1, <2>2
<1>6. b \in ReadRegs <=> addr \in ReadRegAddrs
  BY <1>2, <1>3, WordWithin
<1>7. ASSUME addr \in RomAddrs \cup DramAddrs
      PROVE  /\ MapRead(mem, b, 4, io).resp = "OKAY"
             /\ LoadFilter(addr, MapRead(mem, b, 4, io).value, len, s) =
                  [i \in Lane |-> IF i < len THEN Held(mem)[addr + i]
                                  ELSE IF s THEN SignOf(Held(mem)[addr + len - 1]) ELSE 0]
  <2>1. MapRead(mem, b, 4, io) = Okay(rdata)
    BY <1>2, <1>3, <1>5, <1>7, ReadIs
  <2>2. MapRead(mem, b, 4, io).resp = "OKAY" /\ MapRead(mem, b, 4, io).value = rdata
    BY <2>1 DEF Okay
  <2>3. \A i \in 0 .. len - 1 : rdata[k + i] = Held(mem)[addr + i]
    BY <1>4
  <2> HIDE DEF rdata
  <2>4. LoadFilter(addr, rdata, len, s) =
          [i \in Lane |-> IF i < len THEN rdata[k + i]
                          ELSE IF s THEN SignOf(rdata[k + (len - 1)]) ELSE 0]
    BY <1>1, LoadArrives DEF k
  <2>5. \A i \in Lane : i < len => i \in 0 .. len - 1
    BY DEF Lane, MemLen
  <2>6. len - 1 \in 0 .. len - 1 /\ addr + (len - 1) = addr + len - 1
    BY <1>1 DEF MemLen
  <2>7. \A i \in Lane : (IF i < len THEN rdata[k + i]
              ELSE IF s THEN SignOf(rdata[k + (len - 1)]) ELSE 0)
          = (IF i < len THEN Held(mem)[addr + i]
                ELSE IF s THEN SignOf(Held(mem)[addr + len - 1]) ELSE 0)
    BY <2>3, <2>5, <2>6
  <2>8. QED BY <2>2, <2>4, <2>7
<1>8. ASSUME addr \in ReadRegAddrs
      PROVE  addr \notin RomAddrs \cup DramAddrs /\ MapRead(mem, b, 4, io) = Okay(io)
  BY <1>2, <1>3, <1>5, <1>6, <1>8, ReadIs
<1>9. ASSUME addr \notin RomAddrs \cup DramAddrs \cup ReadRegAddrs
      PROVE  MapRead(mem, b, 4, io).resp # "OKAY"
  <2>1. MapRead(mem, b, 4, io) \in {Slverr, Decerr}
    BY <1>2, <1>3, <1>5, <1>6, <1>9, ReadIs
  <2>2. QED BY <2>1 DEF Slverr, Decerr
<1>10. QED BY <1>7, <1>8, <1>9 DEF b, Okay

-----------------------------------------------------------------------------
(* The invariant: where the loader is, and what follows for the DRAM.       *)

\* How the loader's state, its result and the core's first access go together.
LoaderPhases ==
  /\ loader.rc = "none" <=> loader.state \in {"headers", "segment"}
  /\ loader.rc = "0" <=> loader.state = "done"
  /\ loader.state # "done" => access = NoAccess /\ stores = 0

IInv == TypeOK /\ LoaderPhases /\ FaultsOutside /\ LoadedExactly

LEMMA ZeroIsWord == Zero \in Word
  BY DEF Zero, Word, Byte

LEMMA InitInv == Init => IInv
<1> SUFFICES ASSUME Init PROVE IInv
  OBVIOUS
<1>1. ZeroBacking \in Backing /\ \A a \in DramAddrs : ZeroBacking[a - DramBase] = 0
  <2>1. \A a \in DramAddrs : a - DramBase \in 0 .. DramSize - 1
    BY Sizes DEF DramAddrs
  <2>2. QED BY <2>1 DEF ZeroBacking, Backing, Byte
<1>2. TypeOK
  <2>1. loader \in Loader
    BY Sizes, PathAssumption DEF Init, Loader, Addr
  <2>2. QED BY <1>1, <2>1, ZeroIsWord, PathAssumption DEF Init, TypeOK, Reply, NoAccess
<1>3. LoaderPhases /\ FaultsOutside
  BY DEF Init, LoaderPhases, FaultsOutside, Reply
<1>4. LoadedExactly
  BY <1>1 DEF Init, LoadedExactly
<1>5. QED BY <1>2, <1>3, <1>4 DEF IInv

\* Steps of the loader that write nothing.
LEMMA HeaderStep ==
  ASSUME IInv, NEW addr \in Addr, NEW n \in 1 .. MaxSegment, SegmentHeader(addr, n)
  PROVE  IInv'
<1>1. n \in 0 .. MaxSegment /\ MaxSegment \in Nat /\ MaxSegments \in Nat
  BY Sizes, PathAssumption
<1>2. loader' = [loader EXCEPT !.state = "segment", !.addr = addr, !.remaining = n,
                               !.segments = loader.segments + 1]
      /\ loader \in Loader /\ loader.state = "headers" /\ loader.segments < MaxSegments
      /\ UNCHANGED <<backing, access, reply, stores, image>>
  BY DEF IInv, TypeOK, SegmentHeader
<1>3. loader' \in Loader /\ loader'.state = "segment" /\ loader'.rc = loader.rc
  <2>1. loader.segments + 1 \in 0 .. MaxSegments
    BY <1>1, <1>2 DEF Loader
  <2>2. QED BY <1>1, <1>2, <2>1 DEF Loader
<1>4. TypeOK'
  BY <1>2, <1>3 DEF IInv, TypeOK
<1>5. LoaderPhases'
  BY <1>2, <1>3 DEF IInv, LoaderPhases
<1>6. FaultsOutside' /\ LoadedExactly'
  BY <1>2, <1>3 DEF IInv, FaultsOutside, LoadedExactly
<1>7. QED BY <1>4, <1>5, <1>6 DEF IInv

LEMMA EndStep ==
  ASSUME IInv, NEW state \in {"failed", "done"}, NEW rc \in {"0", "EIO", "EINVAL", "ENOMEM"},
         state = "done" <=> rc = "0",
         loader.state \in {"headers", "segment"},
         loader' = [loader EXCEPT !.state = state, !.rc = rc],
         UNCHANGED <<backing, access, reply, stores, image>>
  PROVE  IInv'
<1>1. loader' \in Loader /\ loader'.state = state /\ loader'.rc = rc
  BY DEF IInv, TypeOK, Loader
<1>2. TypeOK'
  BY <1>1 DEF IInv, TypeOK
<1>3. LoaderPhases'
  BY <1>1 DEF IInv, LoaderPhases
<1>4. FaultsOutside'
  <2>1. loader.rc # "EFAULT" /\ rc # "EFAULT"
    BY DEF IInv, LoaderPhases
  <2>2. QED BY <1>1, <2>1 DEF IInv, FaultsOutside
<1>5. LoadedExactly'
  <2>1. loader.state # "failed"
    OBVIOUS
  <2>2. QED BY <1>1, <2>1 DEF IInv, LoadedExactly
<1>6. QED BY <1>2, <1>3, <1>4, <1>5 DEF IInv

\* A chunk: the DRAM gets it or the loader reports the fault.
LEMMA ChunkKeeps ==
  ASSUME IInv, NEW hostTakes, LoadChunk(hostTakes)
  PROVE  IInv'
<1> DEFINE n == IF loader.remaining > CHUNK THEN CHUNK ELSE loader.remaining
           dst == Dst(loader.addr, n)
           out == WriteSegment(backing, loader.addr, dst, n, hostTakes)
           lead == Leading(loader.addr, n)
           word == 4 * Words(loader.addr, n)
           at(i) == AddrAdd(loader.addr, i)
           single == {at(i) : i \in (0 .. n - 1) \ (lead .. lead + word - 1)}
           new == {at(i) : i \in 0 .. n - 1}
<1>1. /\ loader \in Loader /\ loader.addr \in Addr /\ loader.remaining \in 0 .. MaxSegment
      /\ backing \in Backing
  BY DEF IInv, TypeOK, Loader
<1>2. n \in 0 .. AddrMod /\ n \in 0 .. loader.remaining
  <2>1. CHUNK \in Nat /\ MaxSegment \in 0 .. AddrMod /\ loader.remaining \in Nat
    BY <1>1, Sizes, PathAssumption
  <2>2. QED BY <1>1, <2>1, Sizes
<1>3. /\ loader.state = "segment" /\ backing' = out.mem
      /\ loader' = IF out.resp # "OKAY" THEN [loader EXCEPT !.state = "failed", !.rc = "EFAULT"]
                   ELSE [loader EXCEPT !.addr = at(n), !.remaining = loader.remaining - n,
                             !.state = IF loader.remaining = n THEN "headers" ELSE "segment"]
      /\ image' = [whole |-> image.whole \cup new,
                   loose |-> image.loose \cup {a \in single : a % 4 # 0}]
      /\ UNCHANGED <<access, reply, stores>>
  BY DEF LoadChunk
<1>4. loader.rc = "none" /\ access = NoAccess /\ stores = 0
  BY <1>3 DEF IInv, LoaderPhases
<1>5. /\ \A i \in 0 .. n : at(i) \in Addr
      /\ 0 .. n - 1 \subseteq 0 .. n /\ n \in 0 .. n
  <2>1. n \in Nat
    BY <1>2, Sizes
  <2>2. QED BY <1>1, <1>2, <2>1, ChunkAddresses
<1>6. dst \in [0 .. n - 1 -> Byte] /\ \A i \in 0 .. n - 1 : dst[i] = FileByte[at(i)]
  <2>1. FileByte \in [Addr -> Byte]
    BY PathAssumption
  <2>2. QED BY <1>5, <2>1 DEF Dst
<1>7. SegmentSoFar(out, backing, loader.addr, dst, n, n)
  <2> HIDE DEF n, dst
  <2>1. QED BY <1>1, <1>2, <1>6, ChunkWritten
<1> HIDE DEF n, out, dst, at
<1>8. /\ new \subseteq DramAddrs => out.resp = "OKAY"
      /\ out.resp = "OKAY" => new \subseteq DramAddrs \cup WriteRegAddrs
  <2>1. /\ (\A i \in 0 .. n - 1 : at(i) \in DramAddrs) => out.resp = "OKAY"
        /\ out.resp = "OKAY" => \A i \in 0 .. n - 1 : at(i) \in DramAddrs \cup WriteRegAddrs
    BY <1>7 DEF SegmentSoFar, at
  <2>2. QED BY <2>1
<1>9. loader' \in Loader
  <2>1. CASE out.resp # "OKAY"
    BY <1>1, <1>3, <2>1 DEF Loader
  <2>2. CASE out.resp = "OKAY"
    <3>1. at(n) \in Addr /\ loader.remaining - n \in 0 .. MaxSegment
      BY <1>1, <1>2, <1>5, PathAssumption, Sizes
    <3>2. QED BY <1>1, <1>3, <2>2, <3>1 DEF Loader
  <2>3. QED BY <2>1, <2>2
<1>10. /\ out.resp # "OKAY" => loader'.state = "failed" /\ loader'.rc = "EFAULT"
       /\ out.resp = "OKAY" => loader'.state \in {"headers", "segment"} /\ loader'.rc = "none"
  BY <1>1, <1>3, <1>4 DEF Loader
<1>11. TypeOK'
  <2>1. backing' \in Backing
    BY <1>3, <1>7 DEF SegmentSoFar, Written
  <2>2. image'.whole = image.whole \cup new /\
              image'.loose = image.loose \cup {a \in single : a % 4 # 0}
    BY <1>3
  <2>3. new \subseteq Addr /\ single \subseteq new
    BY <1>5
  <2>4. QED BY <1>3, <1>9, <2>1, <2>2, <2>3 DEF IInv, TypeOK
<1>12. LoaderPhases'
  BY <1>3, <1>4, <1>10 DEF LoaderPhases
<1>13. FaultsOutside'
  <2>1. image.whole \subseteq DramAddrs \cup WriteRegAddrs
    BY <1>4 DEF IInv, FaultsOutside
  <2>2. image'.whole = image.whole \cup new
    BY <1>3
  <2>3. QED BY <1>8, <1>10, <2>1, <2>2 DEF FaultsOutside
<1>14. LoadedExactly'
  <2>1. SUFFICES ASSUME NEW a \in DramAddrs
                 PROVE  /\ a \notin image'.whole => backing'[a - DramBase] = 0
                        /\ a \in image'.whole \ image'.loose /\ loader'.state # "failed"
                             => backing'[a - DramBase] = FileByte[a]
    BY DEF LoadedExactly
  <2>2. /\ image'.whole = image.whole \cup new
        /\ image'.loose = image.loose \cup {b \in single : b % 4 # 0}
    BY <1>3
  <2>3. a \notin new => backing'[a - DramBase] = backing[a - DramBase]
    <3>1. a \notin new => \A i \in 0 .. n - 1 : a # at(i)
      OBVIOUS
    <3>2. (\A i \in 0 .. n - 1 : a # at(i)) => out.mem[a - DramBase] = backing[a - DramBase]
      BY <1>7 DEF SegmentSoFar, at
    <3>3. QED BY <1>3, <3>1, <3>2
  <2>4. /\ a \notin image.whole => backing[a - DramBase] = 0
        /\ a \in image.whole \ image.loose => backing[a - DramBase] = FileByte[a]
    BY <1>3, <1>4 DEF IInv, LoadedExactly
  <2>5. ASSUME a \in new, a \notin image'.loose, loader'.state # "failed"
        PROVE  backing'[a - DramBase] = FileByte[a]
    <3>1. PICK i \in 0 .. n - 1 : a = at(i)
      BY <2>5
    <3>2. Lands(loader.addr, n, i)
      <4>1. i \notin lead .. lead + word - 1 => a \in single
        BY <3>1
      <4>2. i \notin lead .. lead + word - 1 => at(i) % 4 = 0
        BY <2>2, <2>5, <3>1, <4>1
      <4>3. QED BY <4>2 DEF Lands, at
    <3>3. out.resp = "OKAY"
      BY <1>10, <2>5
    <3>4. out.mem[at(i) - DramBase] = dst[i]
      BY <1>7, <3>1, <3>2, <3>3 DEF SegmentSoFar, at
    <3>5. QED BY <1>3, <1>6, <3>1, <3>4
  <2>6. QED BY <2>2, <2>3, <2>4, <2>5
<1>15. QED BY <1>11, <1>12, <1>13, <1>14 DEF IInv

\* The core's accesses.
LEMMA AccessKeeps ==
  ASSUME IInv, loader.state = "done", UNCHANGED <<loader, image>>,
         backing' \in Backing, stores' \in 0 .. MaxStores,
         access'.kind \in {"none", "store", "load"},
         reply'.status \in {"none", "okay", "error", "misaligned"}, reply'.value \in Word,
         stores' = 0 => backing' = backing /\ stores = 0
  PROVE  IInv'
<1>1. TypeOK'
  BY DEF IInv, TypeOK
<1>2. LoaderPhases' /\ FaultsOutside'
  BY DEF IInv, LoaderPhases, FaultsOutside
<1>3. LoadedExactly'
  BY DEF IInv, LoadedExactly
<1>4. QED BY <1>1, <1>2, <1>3 DEF IInv

LEMMA StoreKeeps ==
  ASSUME IInv, NEW addr \in Addr, NEW len \in MemLen, NEW data \in StoreData, Store(addr, len, data)
  PROVE  IInv'
<1>1. backing \in Backing /\ stores \in 0 .. MaxStores /\ MaxStores \in Nat /\ data \in Word
  BY PathAssumption DEF IInv, TypeOK
<1>2. /\ loader.state = "done" /\ UNCHANGED <<loader, image>> /\ stores' \in 0 .. MaxStores
      /\ stores' # 0 /\ access'.kind = "store"
  BY <1>1 DEF Store, StoreOf
<1>3. CASE Misaligned(addr, len)
  BY <1>1, <1>2, <1>3, AccessKeeps, ZeroIsWord DEF Misaligned, Reply
<1>4. ASSUME NEW hostTakes, SendStore(addr, len, data, hostTakes) PROVE IInv'
  <2> DEFINE out == MapWrite(backing, BridgeWrite(addr, ByteEnable(addr, len),
                                                  StoreLanes(addr, len, data)), hostTakes)
  <2>1. addr % len = 0
    BY <1>4 DEF SendStore, LsuMisaligned
  <2>2. out \in Written
    BY <1>1, <2>1, StoreIs
  <2>3. backing' = out.mem /\ reply' = Reply(StatusOf(out.resp), Zero)
    BY <1>4 DEF SendStore
  <2> HIDE DEF out
  <2>4. backing' \in Backing /\ reply'.status \in {"okay", "error", "misaligned"} /\
              reply'.value \in Word
    BY <2>2, <2>3, ZeroIsWord DEF Written, Reply, StatusOf
  <2>5. QED BY <1>2, <2>4, AccessKeeps
<1>5. QED BY <1>3, <1>4 DEF Store

LEMMA LoadKeeps ==
  ASSUME IInv, NEW addr \in Addr, NEW len \in MemLen, NEW s \in BOOLEAN, Load(addr, len, s)
  PROVE  IInv'
<1>1. backing \in Backing /\ stores \in 0 .. MaxStores
  BY DEF IInv, TypeOK
<1>2. loader.state = "done" /\ UNCHANGED <<loader, image, stores>> /\ access'.kind = "load"
  BY DEF Load, LoadOf
<1>3. CASE Misaligned(addr, len)
  <2>1. reply'.status = "misaligned" /\ reply'.value = Zero /\ backing' = backing
    BY <1>3 DEF Misaligned, Reply
  <2>2. QED BY <1>1, <1>2, <2>1, AccessKeeps, ZeroIsWord
<1>4. ASSUME NEW io \in Word, SendLoad(addr, len, s, io) PROVE IInv'
  <2> DEFINE out == MapRead(backing, BridgeReadAddr(addr), 4, io)
             value == IF out.resp = "OKAY" THEN LoadFilter(addr, out.value, len, s) ELSE Zero
  <2>1. addr % len = 0
    BY <1>4 DEF SendLoad, LsuMisaligned
  <2>2. backing' = backing /\ reply' = Reply(StatusOf(out.resp), value)
    BY <1>4 DEF SendLoad
  <2>3. /\ addr \in RomAddrs \cup DramAddrs =>
             /\ out.resp = "OKAY"
             /\ LoadFilter(addr, out.value, len, s) =
                  [i \in Lane |-> IF i < len THEN Held(backing)[addr + i]
                                  ELSE IF s THEN SignOf(Held(backing)[addr + len - 1]) ELSE 0]
        /\ addr \in ReadRegAddrs => out.value = io
        /\ addr \notin RomAddrs \cup DramAddrs \cup ReadRegAddrs => out.resp # "OKAY"
    BY <1>1, <2>1, LoadIs
  <2>4. \A i \in Lane : i < len /\ addr \in RomAddrs \cup DramAddrs =>
              Held(backing)[addr + i] \in Byte
    <3>1. \A i \in Lane : i < len => addr + i \in ByteMem!Bytes(addr, len)
      BY AddrIsNat DEF Lane, MemLen, ByteMem!Bytes
    <3>2. addr \in RomAddrs \cup DramAddrs =>
                ByteMem!Bytes(addr, len) \subseteq RomAddrs \cup DramAddrs
      BY <2>1, AccessWithin
    <3>3. QED BY <1>1, <3>1, <3>2, HeldTypes
  <2>5. value \in Word
    <3>1. \A b : SignOf(b) \in Byte
      BY DEF SignOf, Byte
    <3>2. 0 \in Byte
      BY DEF Byte
    <3>3. CASE addr \in RomAddrs \cup DramAddrs
      <4> DEFINE v == [i \in Lane |-> IF i < len THEN Held(backing)[addr + i]
                                      ELSE IF s THEN SignOf(Held(backing)[addr + len - 1]) ELSE 0]
      <4>1. v \in Word
        BY <2>4, <3>1, <3>2, <3>3 DEF Word
      <4>2. value = v
        BY <2>3, <3>3
      <4>3. QED BY <4>1, <4>2
    <3>4. CASE addr \in ReadRegAddrs
      <4>1. out.value = io
        BY <2>3, <3>4
      <4>2. LoadFilter(addr, io, len, s) \in Word
        BY <2>1, AddrIsNat, FilterIs
      <4> HIDE DEF out
      <4>3. QED BY <4>1, <4>2, ZeroIsWord
    <3>5. CASE addr \notin RomAddrs \cup DramAddrs \cup ReadRegAddrs
      BY <2>3, <3>5, ZeroIsWord
    <3>6. QED BY <3>3, <3>4, <3>5
  <2> HIDE DEF out, value
  <2>6. reply'.status \in {"okay", "error", "misaligned"} /\ reply'.value \in Word
    BY <2>2, <2>5 DEF Reply, StatusOf
  <2>7. QED BY <1>1, <1>2, <2>2, <2>6, AccessKeeps
<1>5. IoData \subseteq Word
  BY SocAssumption
<1>6. QED BY <1>3, <1>4, <1>5 DEF Load

LEMMA FetchKeeps ==
  ASSUME IInv, NEW addr \in Addr, NEW io \in Word, Fetch(addr, io)
  PROVE  IInv'
<1> DEFINE out == MapRead(backing, addr, 4, io)
<1>1. backing \in Backing /\ stores \in 0 .. MaxStores
  BY DEF IInv, TypeOK
<1>2. /\ loader.state = "done" /\ addr % 4 = 0 /\ UNCHANGED <<backing, loader, stores, image>>
      /\ reply' = Reply(StatusOf(out.resp), out.value) /\ access'.kind = "load"
  BY DEF Fetch, LoadOf
<1>3. /\ addr \in RomAddrs \cup DramAddrs => out = Okay([i \in Lane |-> Held(backing)[addr + i]])
      /\ addr \in ReadRegs => out = Okay(io)
      /\ addr \notin RomAddrs \cup DramAddrs \cup ReadRegs => out \in {Slverr, Decerr}
  BY <1>1, <1>2, ReadIs
<1>4. ASSUME addr \in RomAddrs \cup DramAddrs
      PROVE  [i \in Lane |-> Held(backing)[addr + i]] \in Word
  <2>1. \A i \in Lane : addr + i \in ByteMem!Bytes(addr, 4)
    BY AddrIsNat DEF Lane, ByteMem!Bytes
  <2>2. ByteMem!Bytes(addr, 4) \subseteq RomAddrs \cup DramAddrs
    BY <1>2, <1>4, AccessWithin DEF MemLen
  <2>3. \A i \in Lane : Held(backing)[addr + i] \in Byte
    BY <1>1, <2>1, <2>2, HeldTypes
  <2>4. QED BY <2>3 DEF Word
<1> HIDE DEF out
<1>5. out.value \in Word
  <2>1. CASE addr \in RomAddrs \cup DramAddrs
    BY <1>3, <1>4, <2>1 DEF Okay
  <2>2. CASE addr \in ReadRegs
    BY <1>3, <2>2 DEF Okay
  <2>3. CASE addr \notin RomAddrs \cup DramAddrs \cup ReadRegs
    BY <1>3, <2>3, ZeroIsWord DEF Slverr, Decerr
  <2>4. QED BY <2>1, <2>2, <2>3
<1>6. reply'.status \in {"okay", "error", "misaligned"} /\ reply'.value \in Word
  BY <1>2, <1>5 DEF Reply, StatusOf
<1>7. QED BY <1>1, <1>2, <1>6, AccessKeeps

LEMMA RetireKeeps ==
  ASSUME IInv, Retires
  PROVE  IInv'
<1>1. /\ UNCHANGED <<backing, loader, stores, image>>
      /\ access'.kind = "none" /\ reply'.status = "none" /\ reply'.value = Zero
  BY DEF Retires, NoAccess, Reply
<1>2. backing \in Backing /\ stores \in 0 .. MaxStores
  BY DEF IInv, TypeOK
<1>3. loader.state = "done"
  BY DEF IInv, LoaderPhases, Retires
<1>4. QED BY <1>1, <1>2, <1>3, AccessKeeps, ZeroIsWord

LEMMA NextInv == IInv /\ [Next]_vars => IInv'
<1> SUFFICES ASSUME IInv, [Next]_vars PROVE IInv'
  OBVIOUS
<1>1. CASE \E addr \in Addr, n \in 1 .. MaxSegment : SegmentHeader(addr, n)
  BY <1>1, HeaderStep
<1>2. CASE \E hostTakes \in BOOLEAN : LoadChunk(hostTakes)
  BY <1>2, ChunkKeeps
<1>3. CASE \E rc \in {"EIO", "EINVAL", "ENOMEM"} : FileFails(rc)
  <2>1. PICK rc \in {"EIO", "EINVAL", "ENOMEM"} : FileFails(rc)
    BY <1>3
  <2>2. loader.state \in {"headers", "segment"}
    BY <2>1 DEF FileFails
  <2>3. QED BY <2>1, <2>2, EndStep DEF FileFails
<1>4. CASE LoadEnds
  BY <1>4, EndStep DEF LoadEnds
<1>5. CASE \E addr \in Addr, len \in MemLen, data \in StoreData : Store(addr, len, data)
  BY <1>5, StoreKeeps
<1>6. CASE \E addr \in Addr, len \in MemLen : \E signext \in Extensions(len) :
            Load(addr, len, signext)
  <2>1. \A len : Extensions(len) \subseteq BOOLEAN
    BY DEF Extensions
  <2>2. QED BY <1>6, <2>1, LoadKeeps
<1>7. CASE \E addr \in Addr, io \in IoData : Fetch(addr, io)
  <2>1. IoData \subseteq Word
    BY SocAssumption
  <2>2. QED BY <1>7, <2>1, FetchKeeps
<1>8. CASE Retires
  BY <1>8, RetireKeeps
<1>9. CASE UNCHANGED vars
  BY <1>9 DEF vars, IInv, TypeOK, LoaderPhases, FaultsOutside, LoadedExactly
<1>10. QED BY <1>1, <1>2, <1>3, <1>4, <1>5, <1>6, <1>7, <1>8, <1>9 DEF Next, LoadStep, CoreStep

LEMMA PathInvariant == Spec => []IInv
<1>1. QED BY InitInv, NextInv, PTL DEF Spec

\* No access, no segment and no chunk of the loader leaves the arrays behind the map.
THEOREM PathTypesHold == Spec => []TypeOK
<1>1. IInv => TypeOK
  BY DEF IInv
<1>2. QED BY <1>1, PathInvariant, PTL

\* load_elf reports -EFAULT for no program whose segments are inside the DRAM, and for
\* every one with a byte, of a segment that it has come to, that is neither in the DRAM
\* nor in a register that can be written: whatever the chunk, the alignment and the
\* length of the segment, and for segments that wrap at the last address as well.
THEOREM FaultsAreOutside == Spec => []FaultsOutside
<1>1. IInv => FaultsOutside
  BY DEF IInv
<1>2. QED BY <1>1, PathInvariant, PTL

\* Until the core stores, the DRAM holds the bytes that load_elf wrote in words or at
\* lane 0, each in its place, and zeroes where no segment is.
THEOREM SegmentsInPlace == Spec => []LoadedExactly
<1>1. IInv => LoadedExactly
  BY DEF IInv
<1>2. QED BY <1>1, PathInvariant, PTL

-----------------------------------------------------------------------------
(* The refinement of ByteMemory.                                            *)

\* The bytes of the abstract memory.
LEMMA HeldIs == Held(backing) = [a \in RomAddrs \cup DramAddrs |->
                                   IF a \in RomAddrs THEN Rom[a] ELSE backing[a - DramBase]]
  BY DEF Held

LEMMA RefineInit == ASSUME Init PROVE ByteMem!Init
<1>1. ZeroBacking \in Backing
  BY DEF ZeroBacking, Backing, Byte
<1>2. Held(backing) \in [RomAddrs \cup DramAddrs -> ByteMem!Byte]
  BY <1>1, HeldTypes DEF Init, Byte, ByteMem!Byte
<1>3. /\ reply = ByteMem!Reply("none", ByteMem!Zero) /\ access = ByteMem!NoAccess
      /\ (loader.state = "done") = FALSE
  BY SameLanes DEF Init
<1>4. QED BY <1>2, <1>3, HeldIs DEF ByteMem!Init

LEMMA StoreRefines ==
  ASSUME IInv, NEW addr \in Addr, NEW len \in MemLen, NEW data \in StoreData, Store(addr, len, data)
  PROVE  ByteMem!StoreAs(addr, len, data)
<1>1. backing \in Backing /\ data \in Word
  BY PathAssumption DEF IInv, TypeOK
<1>2. CASE Misaligned(addr, len)
  <2>1. addr % len # 0 /\ reply' = Reply("misaligned", Zero) /\ backing' = backing
    BY <1>2 DEF Misaligned, LsuMisaligned
  <2>2. QED BY <2>1, SameLanes DEF ByteMem!StoreAs
<1>3. ASSUME NEW hostTakes, SendStore(addr, len, data, hostTakes)
      PROVE  ByteMem!StoreAs(addr, len, data)
  <2> DEFINE out == MapWrite(backing, BridgeWrite(addr, ByteEnable(addr, len),
                                                  StoreLanes(addr, len, data)), hostTakes)
  <2>1. addr % len = 0
    BY <1>3 DEF SendStore, LsuMisaligned
  <2>2. backing' = out.mem /\ reply' = Reply(StatusOf(out.resp), Zero)
    BY <1>3 DEF SendStore
  <2>3. /\ addr \in DramAddrs => out.resp = "OKAY"
        /\ out.resp = "OKAY" => addr \in DramAddrs \cup WriteRegAddrs
        /\ addr \notin DramAddrs => out.mem = backing
        /\ addr \in DramAddrs =>
             \A x \in DramAddrs :
               out.mem[x - DramBase] = IF x \in ByteMem!Bytes(addr, len) THEN data[x - addr]
                                       ELSE backing[x - DramBase]
    BY <1>1, <2>1, StoreIs
  <2> HIDE DEF out
  <2>4. CASE addr \in DramAddrs
    <3>1. reply' = Reply("okay", Zero)
      BY <2>2, <2>3, <2>4 DEF StatusOf
    <3>2. ByteMem!Bytes(addr, len) \subseteq DramAddrs
      BY <2>1, <2>4, AccessWithin
    <3>3. \A a \in RomAddrs : a \notin DramAddrs
      BY Sizes DEF RomAddrs, DramAddrs
    <3>4. ASSUME NEW a \in RomAddrs \cup DramAddrs
          PROVE  (IF a \in RomAddrs THEN Rom[a] ELSE backing'[a - DramBase]) =
                   IF a \in ByteMem!Bytes(addr, len) THEN data[a - addr]
                   ELSE IF a \in RomAddrs THEN Rom[a] ELSE backing[a - DramBase]
      <4>1. CASE a \in RomAddrs
        BY <3>2, <3>3, <4>1
      <4>2. CASE a \notin RomAddrs
        <5>1. a \in DramAddrs
          BY <4>2
        <5>2. QED BY <2>2, <2>3, <2>4, <4>2, <5>1
      <4>3. QED BY <4>1, <4>2
    <3>5. [a \in RomAddrs \cup DramAddrs |->
             IF a \in RomAddrs THEN Rom[a] ELSE backing'[a - DramBase]]
          = [a \in RomAddrs \cup DramAddrs |->
               IF a \in ByteMem!Bytes(addr, len) THEN data[a - addr]
               ELSE [b \in RomAddrs \cup DramAddrs |->
                       IF b \in RomAddrs THEN Rom[b] ELSE backing[b - DramBase]][a]]
      BY <3>4
    <3>6. QED BY <2>1, <3>1, <3>2, <3>5, SameLanes DEF ByteMem!StoreAs
  <2>5. CASE addr \notin DramAddrs
    <3>1. /\ backing' = backing
          /\ \/ reply' = Reply("error", Zero)
             \/ addr \in WriteRegAddrs /\ reply' = Reply("okay", Zero)
      BY <2>2, <2>3, <2>5 DEF StatusOf
    <3>2. /\ ~ (ByteMem!Bytes(addr, len) \subseteq DramAddrs)
          /\ addr \in WriteRegAddrs => ByteMem!Bytes(addr, len) \subseteq WriteRegAddrs
      BY <2>1, <2>5, AccessWithin
    <3>3. QED BY <2>1, <3>1, <3>2, SameLanes DEF ByteMem!StoreAs
  <2>6. QED BY <2>4, <2>5
<1>4. QED BY <1>2, <1>3 DEF Store

LEMMA LoadRefines ==
  ASSUME IInv, NEW addr \in Addr, NEW len \in MemLen, NEW s \in BOOLEAN, Load(addr, len, s)
  PROVE  ByteMem!LoadAs(addr, len, s)
<1>1. backing \in Backing /\ IoData \subseteq Word
  BY SocAssumption DEF IInv, TypeOK
<1>2. CASE Misaligned(addr, len)
  <2>1. addr % len # 0 /\ reply' = Reply("misaligned", Zero) /\ backing' = backing
    BY <1>2 DEF Misaligned, LsuMisaligned
  <2>2. QED BY <2>1, SameLanes DEF ByteMem!LoadAs
<1>3. ASSUME NEW io \in Word, SendLoad(addr, len, s, io) PROVE ByteMem!LoadAs(addr, len, s)
  <2> DEFINE out == MapRead(backing, BridgeReadAddr(addr), 4, io)
             value == [i \in Lane |-> IF i < len THEN Held(backing)[addr + i]
                                      ELSE IF s THEN SignOf(Held(backing)[addr + len - 1]) ELSE 0]
             filtered == LoadFilter(addr, io, len, s)
             held == [a \in RomAddrs \cup DramAddrs |->
                        IF a \in RomAddrs THEN Rom[a] ELSE backing[a - DramBase]]
             read == [i \in 0 .. len - 1 |-> held[addr + i]]
  <2>1. addr % len = 0 /\ addr \in Nat
    BY <1>3, AddrIsNat DEF SendLoad, LsuMisaligned
  <2>2. /\ backing' = backing
        /\ reply' = Reply(StatusOf(out.resp),
                          IF out.resp = "OKAY" THEN LoadFilter(addr, out.value, len, s) ELSE Zero)
    BY <1>3 DEF SendLoad
  <2>3. /\ addr \in RomAddrs \cup DramAddrs =>
             out.resp = "OKAY" /\ LoadFilter(addr, out.value, len, s) = value
        /\ addr \in ReadRegAddrs =>
             addr \notin RomAddrs \cup DramAddrs /\ out.resp = "OKAY" /\ out.value = io
        /\ addr \notin RomAddrs \cup DramAddrs \cup ReadRegAddrs => out.resp # "OKAY"
    BY <1>1, <2>1, LoadIs
  <2>4. /\ ByteMem!Bytes(addr, len) \subseteq RomAddrs \cup DramAddrs <=>
              addr \in RomAddrs \cup DramAddrs
        /\ ByteMem!Bytes(addr, len) \subseteq ReadRegAddrs <=> addr \in ReadRegAddrs
    BY <2>1, AccessWithin
  <2>5. ByteMem!Loaded(read, len, s) = value
    <3>1. ByteMem!Loaded(read, len, s) =
            [i \in Lane |-> IF i < len THEN read[i] ELSE IF s THEN SignOf(read[len - 1]) ELSE 0]
      BY LoadedIs
    <3>2. \A i \in Lane : i < len => i \in 0 .. len - 1
      BY DEF Lane, MemLen
    <3>3. \A i \in 0 .. len - 1 : read[i] = Held(backing)[addr + i]
      BY HeldIs
    <3>4. len - 1 \in 0 .. len - 1 /\ addr + (len - 1) = addr + len - 1
      BY <2>1 DEF MemLen
    <3>5. read[len - 1] = Held(backing)[addr + len - 1]
      BY <3>3, <3>4
    <3> HIDE DEF read
    <3>6. \A i \in Lane : (IF i < len THEN read[i] ELSE IF s THEN SignOf(read[len - 1]) ELSE 0)
            = (IF i < len THEN Held(backing)[addr + i]
               ELSE IF s THEN SignOf(Held(backing)[addr + len - 1]) ELSE 0)
      BY <3>2, <3>3, <3>5
    <3>7. QED BY <3>1, <3>6
  <2>6. filtered \in Word /\ ByteMem!Loaded(filtered, len, s) = filtered
    BY <2>1, FilterIs
  <2> HIDE DEF out, value, filtered, held
  <2>7. CASE addr \in RomAddrs \cup DramAddrs
    <3>1. reply' = Reply("okay", value)
      BY <2>2, <2>3, <2>7 DEF StatusOf
    <3>2. reply' = ByteMem!Reply("okay", ByteMem!Loaded(read, len, s))
      BY <2>5, <3>1, SameLanes
    <3>3. QED BY <2>1, <2>2, <2>4, <2>7, <3>2 DEF ByteMem!LoadAs, held
  <2>8. CASE addr \in ReadRegAddrs
    <3>1. reply' = Reply("okay", filtered)
      BY <2>2, <2>3, <2>8 DEF StatusOf, filtered
    <3>2. reply'.value = filtered
      BY <3>1 DEF Reply
    <3>3. reply' = ByteMem!Reply("okay", ByteMem!Loaded(reply'.value, len, s)) /\
                reply'.value \in ByteMem!Word
      BY <2>6, <3>1, <3>2, SameLanes
    <3>4. addr \notin RomAddrs \cup DramAddrs
      BY <2>3, <2>8
    <3>5. QED BY <2>1, <2>2, <2>4, <2>8, <3>3, <3>4 DEF ByteMem!LoadAs
  <2>9. CASE addr \notin RomAddrs \cup DramAddrs \cup ReadRegAddrs
    <3>1. reply' = ByteMem!Reply("error", ByteMem!Zero)
      BY <2>2, <2>3, <2>9, SameLanes DEF StatusOf
    <3>2. QED BY <2>1, <2>2, <2>4, <2>9, <3>1 DEF ByteMem!LoadAs
  <2>10. QED BY <2>7, <2>8, <2>9
<1>4. QED BY <1>1, <1>2, <1>3 DEF Load

LEMMA FetchRefines ==
  ASSUME IInv, NEW addr \in Addr, NEW io \in Word, Fetch(addr, io)
  PROVE  ByteMem!LoadAs(addr, 4, FALSE)
<1> DEFINE out == MapRead(backing, addr, 4, io)
           value == [i \in Lane |-> Held(backing)[addr + i]]
           held == [a \in RomAddrs \cup DramAddrs |->
                      IF a \in RomAddrs THEN Rom[a] ELSE backing[a - DramBase]]
           read == [i \in 0 .. 4 - 1 |-> held[addr + i]]
<1>1. backing \in Backing
  BY DEF IInv, TypeOK
<1>2. /\ addr % 4 = 0 /\ UNCHANGED <<backing, loader, stores, image>>
      /\ reply' = Reply(StatusOf(out.resp), out.value)
  BY DEF Fetch
<1>3. /\ addr \in RomAddrs \cup DramAddrs => out = Okay(value)
      /\ addr \in ReadRegs => addr \notin RomAddrs \cup DramAddrs /\ out = Okay(io)
      /\ addr \notin RomAddrs \cup DramAddrs \cup ReadRegs => out \in {Slverr, Decerr}
  BY <1>1, <1>2, ReadIs
<1>4. /\ ByteMem!Bytes(addr, 4) \subseteq RomAddrs \cup DramAddrs <=>
            addr \in RomAddrs \cup DramAddrs
      /\ ByteMem!Bytes(addr, 4) \subseteq ReadRegAddrs <=> addr \in ReadRegs
  BY <1>2, AccessWithin, RegistersIn DEF MemLen
<1>5. \A i \in Lane : i < 4 /\ i \in 0 .. 4 - 1
  BY DEF Lane
<1>6. \A v : ByteMem!Loaded(v, 4, FALSE) = [i \in Lane |-> v[i]]
  BY <1>5, LoadedIs
<1>7. ByteMem!Loaded(read, 4, FALSE) = value
  <2>1. held = Held(backing)
    BY HeldIs
  <2> HIDE DEF held
  <2>2. \A i \in Lane : read[i] = Held(backing)[addr + i]
    BY <1>5, <2>1
  <2>3. ByteMem!Loaded(read, 4, FALSE) = [i \in Lane |-> read[i]]
    BY <1>6
  <2> HIDE DEF read
  <2>4. QED BY <2>2, <2>3
<1>8. ByteMem!Loaded(io, 4, FALSE) = io
  BY <1>6 DEF Word
<1> HIDE DEF out, value, held
<1>9. CASE addr \in RomAddrs \cup DramAddrs
  <2>1. reply' = ByteMem!Reply("okay", ByteMem!Loaded(read, 4, FALSE))
    <3>1. reply' = Reply("okay", value)
      BY <1>2, <1>3, <1>9 DEF StatusOf, Okay
    <3> HIDE DEF read
    <3>2. QED BY <1>7, <3>1, SameLanes
  <2>2. QED BY <1>2, <1>4, <1>9, <2>1 DEF ByteMem!LoadAs, held
<1>10. CASE addr \in ReadRegs
  <2>1. reply' = Reply("okay", io)
    BY <1>2, <1>3, <1>10 DEF StatusOf, Okay
  <2>2. reply'.value = io
    BY <2>1 DEF Reply
  <2>3. reply' = ByteMem!Reply("okay", ByteMem!Loaded(reply'.value, 4, FALSE)) /\
              reply'.value \in ByteMem!Word
    BY <1>8, <2>1, <2>2, SameLanes
  <2>4. addr \notin RomAddrs \cup DramAddrs
    BY <1>3, <1>10
  <2>5. QED BY <1>2, <1>4, <1>10, <2>3, <2>4 DEF ByteMem!LoadAs
<1>11. CASE addr \notin RomAddrs \cup DramAddrs \cup ReadRegs
  <2>1. reply' = ByteMem!Reply("error", ByteMem!Zero)
    BY <1>2, <1>3, <1>11, SameLanes DEF StatusOf, Slverr, Decerr
  <2>2. QED BY <1>2, <1>4, <1>11, <2>1 DEF ByteMem!LoadAs
<1>12. QED BY <1>9, <1>10, <1>11

\* The loader's steps are the boot of the abstract memory, which the last one ends.
LEMMA LoaderRefines ==
  ASSUME IInv, LoadStep
  PROVE  ByteMem!Boot
<1>1. loader.state # "done" /\ UNCHANGED <<access, reply>>
  BY DEF LoadStep, SegmentHeader, LoadChunk, FileFails, LoadEnds
<1>2. QED BY <1>1 DEF ByteMem!Boot, RomAddrs, DramAddrs

\* An access of the core is the one that the abstract memory answers.
LEMMA CoreRefines ==
  ASSUME IInv, CoreStep
  PROVE  ByteMem!Answers \/ ByteMem!Retires
<1>1. CASE \E addr \in Addr, len \in MemLen, data \in StoreData : Store(addr, len, data)
  <2>1. PICK addr \in Addr, len \in MemLen, data \in StoreData : Store(addr, len, data)
    BY <1>1
  <2>2. ByteMem!StoreAs(addr, len, data)
    BY <2>1, StoreRefines
  <2>3. /\ loader.state = "done" /\ loader' = loader /\ access = NoAccess
        /\ access' = [kind |-> "store", addr |-> addr, len |-> len, data |-> data]
    BY <2>1 DEF Store, StoreOf
  <2>4. access' \in ByteMem!Stores
    BY <2>3, SameLanes DEF ByteMem!Stores
  <2>5. ByteMem!StoreAs(access'.addr, access'.len, access'.data)
    <3>1. addr = access'.addr /\ len = access'.len /\ data = access'.data
      BY <2>3
    <3>2. QED BY <2>2, <3>1 DEF ByteMem!StoreAs
  <2>6. /\ (loader.state = "done") = TRUE /\ (loader'.state = "done") = TRUE
        /\ access = ByteMem!NoAccess
    BY <2>3, SameLanes
  <2>7. QED BY <2>4, <2>5, <2>6 DEF ByteMem!Answers
<1>2. ASSUME NEW addr \in Addr, NEW len \in MemLen, NEW s \in BOOLEAN,
             loader.state = "done", loader' = loader, access = NoAccess,
             access' = LoadOf(addr, len, s), ByteMem!LoadAs(addr, len, s)
      PROVE  ByteMem!Answers
  <2>1. access' = [kind |-> "load", addr |-> addr, len |-> len, signext |-> s]
    BY <1>2 DEF LoadOf
  <2>2. access' \in ByteMem!Loads
    BY <2>1, SameLanes DEF ByteMem!Loads
  <2>3. ByteMem!LoadAs(access'.addr, access'.len, access'.signext)
    <3>1. access'.addr = addr /\ access'.len = len /\ access'.signext = s
      BY <2>1
    <3>2. QED BY <1>2, <3>1
  <2>4. QED BY <1>2, <2>2, <2>3, SameLanes DEF ByteMem!Answers
<1>3. CASE \E addr \in Addr, len \in MemLen : \E signext \in Extensions(len) :
            Load(addr, len, signext)
  <2> PICK addr \in Addr, len \in MemLen : \E signext \in Extensions(len) : Load(addr, len, signext)
    BY <1>3
  <2>1. PICK s \in Extensions(len) : Load(addr, len, s)
    OBVIOUS
  <2>2. s \in BOOLEAN
    BY DEF Extensions
  <2>3. ByteMem!LoadAs(addr, len, s)
    BY <2>1, <2>2, LoadRefines
  <2>4. QED BY <1>2, <2>1, <2>2, <2>3 DEF Load
<1>4. CASE \E addr \in Addr, io \in IoData : Fetch(addr, io)
  <2>1. PICK addr \in Addr, io \in Word : Fetch(addr, io)
    BY <1>4, SocAssumption
  <2>2. ByteMem!LoadAs(addr, 4, FALSE)
    BY <2>1, FetchRefines
  <2>3. 4 \in MemLen
    BY DEF MemLen
  <2>4. QED BY <1>2, <2>1, <2>2, <2>3 DEF Fetch
<1>5. CASE Retires
  <2>1. access # NoAccess => loader.state = "done"
    BY DEF IInv, LoaderPhases
  <2>2. QED BY <1>5, <2>1, SameLanes DEF Retires, ByteMem!Retires
<1>6. QED BY <1>1, <1>3, <1>4, <1>5 DEF CoreStep

LEMMA RefineNext ==
  ASSUME IInv, [Next]_vars
  PROVE  \/ ByteMem!Next
         \/ UNCHANGED <<backing, access, reply, loader>>
<1>1. CASE LoadStep
  BY <1>1, LoaderRefines DEF ByteMem!Next
<1>2. CASE CoreStep
  BY <1>2, CoreRefines DEF ByteMem!Next
<1>3. CASE UNCHANGED vars
  BY <1>3 DEF vars
<1>4. QED BY <1>1, <1>2, <1>3 DEF Next

\* Stores, loads and fetches of every length at every address, through the LSU, the
\* bridge, the memory map and the device, are those of a byte memory beside registers.
THEOREM MemoryIsBytes == Spec => ImplementsByteMemory
<1> DEFINE held == [a \in RomAddrs \cup DramAddrs |->
                      IF a \in RomAddrs THEN Rom[a] ELSE backing[a - DramBase]]
           booted == loader.state = "done"
<1>1. Init => ByteMem!Init
  BY RefineInit
<1>2. IInv /\ [Next]_vars => [ByteMem!Next]_<<held, access, reply, booted>>
  BY RefineNext
<1>3. QED BY <1>1, <1>2, PathInvariant, PTL DEF Spec, ImplementsByteMemory, ByteMem!Spec

-----------------------------------------------------------------------------
\* What the two tests are meant to decide.
Span(addr, width) == {a \in Nat : addr <= a /\ a < addr + width}
Covers(u, addr, width) == Span(addr, width) \subseteq Span(u.base, u.size)
BelowTop(a, n) == a + n < AddrMod

\* Of units that end below the last address the overlap test is exact: it holds
\* if and only if they have an address in common.
THEOREM OverlapIsExact ==
  ASSUME NEW a \in Unit, NEW b \in Unit,
         BelowTop(a.base, a.size), BelowTop(b.base, b.size)
  PROVE  RangesOverlap(a, b) <=> Span(a.base, a.size) \cap Span(b.base, b.size) # {}
<1>1. /\ a.base \in Nat /\ a.size \in Nat \ {0}
      /\ b.base \in Nat /\ b.size \in Nat \ {0}
      /\ AddrMod \in Nat
  BY AddrModAssumption DEF Unit, Addr
<1>2. RangesOverlap(a, b) <=> a.base < b.base + b.size /\ b.base < a.base + a.size
  BY <1>1 DEF RangesOverlap, AddrAdd, BelowTop
<1>3. ASSUME RangesOverlap(a, b)
      PROVE  Span(a.base, a.size) \cap Span(b.base, b.size) # {}
  <2>1. CASE a.base <= b.base
    <3>1. b.base \in Span(a.base, a.size) \cap Span(b.base, b.size)
      BY <1>1, <1>2, <1>3, <2>1 DEF Span
    <3>2. QED BY <3>1
  <2>2. CASE b.base <= a.base
    <3>1. a.base \in Span(a.base, a.size) \cap Span(b.base, b.size)
      BY <1>1, <1>2, <1>3, <2>2 DEF Span
    <3>2. QED BY <3>1
  <2>3. QED BY <2>1, <2>2, <1>1
<1>4. ASSUME NEW x \in Span(a.base, a.size) \cap Span(b.base, b.size)
      PROVE  RangesOverlap(a, b)
  BY <1>1, <1>2, <1>4 DEF Span
<1>5. QED BY <1>3, <1>4

\* A lookup finds a unit below the last address exactly when the unit has all
\* the bytes of the access, if the access does not reach the last address either.
THEOREM MatchIsExact ==
  ASSUME NEW u \in Unit, NEW addr \in Addr, NEW width \in Nat \ {0},
         BelowTop(u.base, u.size), BelowTop(addr, width)
  PROVE  Matches(u, addr, width) <=> Covers(u, addr, width)
<1>1. /\ u.base \in Nat /\ u.size \in Nat \ {0} /\ addr \in Nat /\ AddrMod \in Nat
  BY AddrModAssumption DEF Unit, Addr
<1>2. Matches(u, addr, width) <=> u.base <= addr /\ addr + width <= u.base + u.size
  BY <1>1 DEF Matches, AddrAdd, BelowTop
<1>3. ASSUME Matches(u, addr, width)
      PROVE  Covers(u, addr, width)
  BY <1>1, <1>2, <1>3 DEF Covers, Span
<1>4. ASSUME Covers(u, addr, width)
      PROVE  Matches(u, addr, width)
  <2>1. addr \in Span(addr, width) /\ addr + width - 1 \in Span(addr, width)
    BY <1>1 DEF Span
  <2>2. addr \in Span(u.base, u.size) /\ addr + width - 1 \in Span(u.base, u.size)
    BY <2>1, <1>4 DEF Covers
  <2>3. QED BY <2>2, <1>1, <1>2 DEF Span
<1>5. QED BY <1>3, <1>4

\* An access that ends at the last address matches every unit that lies below
\* it, although none of them has a byte of it: the device is asked for an
\* offset beyond its size, and its own bounds check is the only one.
THEOREM WrapMatches ==
  ASSUME NEW u \in Unit, NEW addr \in Addr, NEW width \in Nat \ {0},
         BelowTop(u.base, u.size), addr + width = AddrMod, u.base + u.size <= addr
  PROVE  Matches(u, addr, width) /\ Span(addr, width) \cap Span(u.base, u.size) = {}
<1>1. /\ u.base \in Nat /\ u.size \in Nat \ {0} /\ addr \in Nat /\ AddrMod \in Nat
  BY AddrModAssumption DEF Unit, Addr
<1>2. Matches(u, addr, width)
  BY <1>1 DEF Matches, AddrAdd, BelowTop
<1>3. Span(addr, width) \cap Span(u.base, u.size) = {}
  BY <1>1 DEF Span
<1>4. QED BY <1>2, <1>3
=============================================================================
