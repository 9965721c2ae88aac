--------------------------- MODULE SnakeSocProofs ----------------------------
(***************************************************************************)
(* Proofs about SnakeSoc and the two parts of it that have a specification *)
(* of their own, the timer and the allocator: for every program, register  *)
(* width, set of deadlines, heap, string and failing allocation, and any   *)
(* number of constructions.                                                *)
(***************************************************************************)
EXTENDS SnakeSoc, WellFoundedInduction, FiniteSetTheorems, SequenceTheorems, TLAPS

-----------------------------------------------------------------------------
(* The timer.                                                               *)

\* mtimecmp at each point of the program: the deadline, or its upper half with
\* the largest lower one, or the target's upper half with it.
CompareInv ==
  /\ prog.pc \in {"idle", "retry", "lo", "again", "park"} => clint.mtimecmp = prog.deadline
  /\ prog.pc = "high" => clint.mtimecmp = [hi |-> prog.deadline.hi, lo |-> HalfMod - 1]
  /\ prog.pc = "low" => clint.mtimecmp = [hi |-> prog.target.hi, lo |-> HalfMod - 1]

\* The clock does not go back between the readings.
ReadingInv ==
  /\ prog.pc = "lo" => clint.mtime.hi >= prog.hi
  /\ prog.pc = "again" => /\ prog.at.hi >= prog.hi /\ prog.at.lo = prog.lo
                          /\ Reached(clint.mtime, prog.at)

TimerInv == TimerTypeOK /\ CompareInv /\ ReadingInv

-----------------------------------------------------------------------------
\* Before its last value the clock moves on to a later time.
LEMMA LaterIsLater ==
  ASSUME NEW t \in Time, t # AllOnes
  PROVE  /\ Later(t) \in Time /\ Reached(Later(t), t) /\ Later(t).hi >= t.hi
         /\ \A u \in Time : Reached(t, u) => Reached(Later(t), u)
<1>1. /\ t = [hi |-> t.hi, lo |-> t.lo] /\ t.hi \in Half /\ t.lo \in Half
      /\ HalfMod \in Nat /\ HalfMod > 1
  BY HalfModAssumption DEF Time
<1>2. CASE t.lo + 1 < HalfMod
  <2>1. Later(t) = [hi |-> t.hi, lo |-> t.lo + 1]
    BY <1>1, <1>2 DEF Later
  <2>2. QED BY <1>1, <1>2, <2>1 DEF Time, Half, Reached
<1>3. CASE ~(t.lo + 1 < HalfMod)
  <2>1. t.lo = HalfMod - 1
    BY <1>1, <1>3 DEF Half
  <2>2. t.hi # HalfMod - 1
    BY <1>1, <2>1 DEF AllOnes
  <2>3. t.hi + 1 < HalfMod
    BY <1>1, <2>2 DEF Half
  <2>4. Later(t) = [hi |-> t.hi + 1, lo |-> 0]
    BY <1>3, <2>3 DEF Later
  <2>5. QED BY <1>1, <2>3, <2>4 DEF Time, Half, Reached
<1>4. QED BY <1>2, <1>3

LEMMA ResetTypes == ClintReset \in ClintState /\ AllOnes \in Time
  BY HalfModAssumption DEF ClintReset, ClintState, AllOnes, Time, Half

\* What the registers of the clock hold.
LEMMA Values ==
  ASSUME TimerTypeOK
  PROVE  /\ ClintValue(clint, "MTIME_HI") = clint.mtime.hi
         /\ ClintValue(clint, "MTIME_LO") = clint.mtime.lo
         /\ clint.mtime.hi \in Half /\ clint.mtime.lo \in Half
  BY DEF ClintValue, TimerTypeOK, ClintState, Time

\* What a store to half of mtimecmp leaves.
LEMMA HalfStores ==
  ASSUME TimerTypeOK, NEW v \in Half
  PROVE  /\ ClintStored(clint, "MTIMECMP_LO", v)
              = [clint EXCEPT !.mtimecmp = [hi |-> clint.mtimecmp.hi, lo |-> v]]
         /\ ClintStored(clint, "MTIMECMP_HI", v)
              = [clint EXCEPT !.mtimecmp = [hi |-> v, lo |-> clint.mtimecmp.lo]]
         /\ ClintStored(clint, "MTIMECMP_LO", v) \in ClintState
         /\ ClintStored(clint, "MTIMECMP_HI", v) \in ClintState
<1>1. clint.mtimecmp = [hi |-> clint.mtimecmp.hi, lo |-> clint.mtimecmp.lo]
      /\ clint.mtimecmp.hi \in Half /\ clint.mtimecmp.lo \in Half
  BY DEF TimerTypeOK, ClintState, Time
<1>2. /\ [clint.mtimecmp EXCEPT !.lo = v] = [hi |-> clint.mtimecmp.hi, lo |-> v]
      /\ [clint.mtimecmp EXCEPT !.hi = v] = [hi |-> v, lo |-> clint.mtimecmp.lo]
  BY <1>1
<1>3. QED BY <1>1, <1>2 DEF ClintStored, TimerTypeOK, ClintState, Time

-----------------------------------------------------------------------------
LEMMA TimerInvInit == TimerInit => TimerInv
<1>1. SUFFICES ASSUME TimerInit PROVE TimerInv
  OBVIOUS
<1>2. ProgReset("none") \in Prog /\ ProgReset("none").pc = "none"
  BY ResetTypes, HalfModAssumption DEF ProgReset, Prog, ClintReset, ClintState, Half
<1>3. QED BY <1>1, <1>2, ResetTypes
  DEF TimerInit, TimerInv, TimerTypeOK, CompareInv, ReadingInv

\* Every step keeps the invariant.
LEMMA TimerInvStep == TimerInv /\ [TimerNext]_timerVars => TimerInv'
<1> SUFFICES ASSUME TimerInv, [TimerNext]_timerVars PROVE TimerInv'
  OBVIOUS
<1> USE DEF TimerInv
<1>0. TimerTypeOK
  OBVIOUS
<1>1. CASE Tick
  <2>1. /\ prog' = prog /\ clint' = [clint EXCEPT !.mtime = Later(clint.mtime)]
        /\ clint.mtime \in Time /\ clint.mtime # AllOnes
    BY <1>1 DEF Tick, ClintTick, TimerTypeOK, ClintState
  <2>2. /\ Later(clint.mtime) \in Time /\ Later(clint.mtime).hi >= clint.mtime.hi
        /\ \A u \in Time : Reached(clint.mtime, u) => Reached(Later(clint.mtime), u)
    BY <2>1, LaterIsLater
  <2>3. /\ clint' \in ClintState /\ clint'.mtime = Later(clint.mtime)
        /\ clint'.mtimecmp = clint.mtimecmp
    BY <2>1, <2>2 DEF TimerTypeOK, ClintState
  <2>4. TimerTypeOK'
    BY <2>1, <2>3 DEF TimerTypeOK
  <2>5. CompareInv'
    BY <2>1, <2>3 DEF CompareInv
  <2>6. ReadingInv'
    <3>1. prog.at \in Time /\ prog.hi \in Half /\ clint.mtime.hi \in Half
          /\ Later(clint.mtime).hi \in Half /\ HalfMod \in Nat
      BY <2>1, <2>2, HalfModAssumption DEF TimerTypeOK, Prog, Time
    <3>2. QED BY <2>1, <2>2, <2>3, <3>1 DEF ReadingInv, Half
  <2>7. QED BY <2>4, <2>5, <2>6
<1>2. CASE ReadsHigh
  <2>1. prog' = [prog EXCEPT !.pc = "lo", !.hi = clint.mtime.hi]
        /\ clint' = clint /\ clint.mtime.hi \in Half
    BY <1>0, <1>2, Values DEF ReadsHigh, Goto, TimerTypeOK, Prog
  <2>2. prog' \in Prog /\ prog'.pc = "lo" /\ prog'.hi = clint.mtime.hi
        /\ prog'.deadline = prog.deadline
    BY <2>1, <1>0 DEF TimerTypeOK, Prog
  <2>3. CompareInv'
    BY <1>2, <2>1, <2>2 DEF CompareInv, ReadsHigh
  <2>4. QED BY <2>1, <2>2, <2>3, <1>0, HalfModAssumption DEF TimerTypeOK, ReadingInv, Half
<1>3. CASE ReadsLow
  <2>1. prog' = [prog EXCEPT !.pc = "again", !.lo = clint.mtime.lo, !.at = clint.mtime]
        /\ clint' = clint /\ clint.mtime \in Time /\ clint.mtime.lo \in Half
    BY <1>0, <1>3, Values DEF ReadsLow, Goto, TimerTypeOK, Prog, ClintState
  <2>2. prog' \in Prog /\ prog'.pc = "again" /\ prog'.lo = clint.mtime.lo
        /\ prog'.at = clint.mtime /\ prog'.hi = prog.hi /\ prog'.deadline = prog.deadline
    BY <2>1, <1>0 DEF TimerTypeOK, Prog
  <2>3. CompareInv'
    BY <1>3, <2>1, <2>2 DEF CompareInv, ReadsLow
  <2>4. Reached(clint.mtime, clint.mtime)
    BY <2>1, HalfModAssumption DEF Reached, Time, Half
  <2>5. QED BY <1>3, <2>1, <2>2, <2>3, <2>4, <1>0 DEF TimerTypeOK, ReadingInv, ReadsLow
<1>4. CASE ReadsAgain
  <2>1. clint' = clint /\ \E pc \in {"idle", "retry"} : prog' = [prog EXCEPT !.pc = pc]
    BY <1>4 DEF ReadsAgain, Goto
  <2>2. prog' \in Prog /\ prog'.pc \in {"idle", "retry"} /\ prog'.deadline = prog.deadline
    BY <2>1, <1>0 DEF TimerTypeOK, Prog
  <2>3. QED BY <1>4, <2>1, <2>2, <1>0 DEF TimerTypeOK, CompareInv, ReadingInv, ReadsAgain
<1>5. ASSUME NEW t \in Deadlines, SetsTarget(t) PROVE TimerInv'
  <2>1. prog' = [prog EXCEPT !.pc = "park", !.target = t] /\ clint' = clint /\ t \in Time
    BY <1>0, <1>5, DeadlinesAssumption DEF SetsTarget, Goto, TimerTypeOK, Prog
  <2>2. prog' \in Prog /\ prog'.pc = "park" /\ prog'.deadline = prog.deadline
    BY <2>1, <1>0 DEF TimerTypeOK, Prog
  <2>3. QED BY <1>5, <2>1, <2>2, <1>0 DEF TimerTypeOK, CompareInv, ReadingInv, SetsTarget
<1>6. CASE Parks
  <2>1. HalfMod - 1 \in Half
    BY HalfModAssumption DEF Half
  <2>2. /\ clint' = [clint EXCEPT !.mtimecmp = [hi |-> clint.mtimecmp.hi, lo |-> HalfMod - 1]]
        /\ clint' \in ClintState /\ prog' = [prog EXCEPT !.pc = "high"]
        /\ clint.mtimecmp = prog.deadline
    BY <1>0, <1>6, <2>1, HalfStores DEF Parks, Goto, CompareInv
  <2>3. prog' \in Prog /\ prog'.pc = "high" /\ prog'.deadline = prog.deadline
    BY <2>2, <1>0 DEF TimerTypeOK, Prog
  <2>4. clint'.mtimecmp = [hi |-> prog.deadline.hi, lo |-> HalfMod - 1]
    BY <2>2, <1>0 DEF TimerTypeOK, ClintState
  <2>5. QED BY <2>2, <2>3, <2>4 DEF TimerTypeOK, CompareInv, ReadingInv
<1>7. CASE StoresHigh
  <2>1. prog.target.hi \in Half /\ prog.pc = "high"
    BY <1>0, <1>7 DEF TimerTypeOK, Prog, Time, StoresHigh
  <2>2. /\ clint' = [clint EXCEPT !.mtimecmp = [hi |-> prog.target.hi, lo |-> clint.mtimecmp.lo]]
        /\ clint' \in ClintState /\ prog' = [prog EXCEPT !.pc = "low"]
        /\ clint.mtimecmp.lo = HalfMod - 1
    BY <1>0, <1>7, <2>1, HalfStores DEF StoresHigh, Goto, CompareInv
  <2>3. prog' \in Prog /\ prog'.pc = "low" /\ prog'.target = prog.target
    BY <2>2, <1>0 DEF TimerTypeOK, Prog
  <2>4. clint'.mtimecmp = [hi |-> prog.target.hi, lo |-> HalfMod - 1]
    BY <2>2, <1>0 DEF TimerTypeOK, ClintState
  <2>5. QED BY <2>2, <2>3, <2>4 DEF TimerTypeOK, CompareInv, ReadingInv
<1>8. CASE StoresLow
  <2>1. /\ prog.target.lo \in Half /\ prog.target \in Time
        /\ clint.mtimecmp = [hi |-> prog.target.hi, lo |-> HalfMod - 1]
    BY <1>0, <1>8 DEF TimerTypeOK, Prog, Time, StoresLow, CompareInv
  <2>2. /\ clint' = [clint EXCEPT !.mtimecmp = [hi |-> clint.mtimecmp.hi, lo |-> prog.target.lo]]
        /\ clint' \in ClintState
        /\ prog' = [prog EXCEPT !.pc = "idle", !.deadline = prog.target]
    BY <1>0, <1>8, <2>1, HalfStores DEF StoresLow, Goto, TimerTypeOK, Prog
  <2>3. prog' \in Prog /\ prog'.pc = "idle" /\ prog'.deadline = prog.target
    BY <2>1, <2>2, <1>0 DEF TimerTypeOK, Prog
  <2>4. clint'.mtimecmp = prog.target
    BY <2>1, <2>2, <1>0 DEF TimerTypeOK, ClintState, Time
  <2>5. QED BY <2>2, <2>3, <2>4 DEF TimerTypeOK, CompareInv, ReadingInv
<1>9. CASE Restart
  <2>1. PICK pc \in {"none", "idle"} : clint' = ClintReset /\ prog' = ProgReset(pc)
    BY <1>9 DEF Restart
  <2>2. prog' \in Prog /\ prog'.pc \in {"none", "idle"} /\ prog'.deadline = AllOnes
    BY <2>1, ResetTypes, HalfModAssumption DEF ProgReset, Prog, ClintReset, ClintState, Half
  <2>3. clint' \in ClintState /\ clint'.mtimecmp = AllOnes
    BY <2>1, ResetTypes DEF ClintReset
  <2>4. QED BY <2>2, <2>3 DEF TimerTypeOK, CompareInv, ReadingInv
<1>10. CASE Foreign
  BY <1>0, <1>10 DEF Foreign, TimerTypeOK, CompareInv, ReadingInv
<1>11. CASE UNCHANGED timerVars
  BY <1>11 DEF timerVars, TimerTypeOK, CompareInv, ReadingInv, Reached
<1>12. QED
  BY <1>1, <1>2, <1>3, <1>4, <1>5, <1>6, <1>7, <1>8, <1>9, <1>10, <1>11
  DEF TimerNext, ProgStep

-----------------------------------------------------------------------------
LEMMA TimerInvImplies == TimerInv => NoEarlyTimer /\ TimeIsRead
<1> SUFFICES ASSUME TimerInv PROVE NoEarlyTimer /\ TimeIsRead
  OBVIOUS
<1>1. /\ clint.mtime \in Time /\ prog.deadline \in Time /\ prog.target \in Time
      /\ prog.at \in Time /\ prog.hi \in Half /\ prog.lo \in Half
      /\ prog.pc \in {"none", "idle", "retry", "lo", "again", "park", "high", "low"}
      /\ HalfMod \in Nat
  BY HalfModAssumption DEF TimerInv, TimerTypeOK, ClintState, Prog
<1>2. NoEarlyTimer
  <2>1. SUFFICES ASSUME prog.pc # "none", Mtip(clint)
                 PROVE  \/ Reached(clint.mtime, prog.deadline)
                        \/ prog.pc = "low" /\ Reached(clint.mtime, prog.target)
    BY DEF NoEarlyTimer
  <2>2. \A u \in Time : Reached(clint.mtime, [hi |-> u.hi, lo |-> HalfMod - 1])
                          => Reached(clint.mtime, u)
    BY <1>1 DEF Reached, Time, Half
  <2>3. QED BY <1>1, <2>1, <2>2 DEF TimerInv, CompareInv, Mtip
<1>3. TimeIsRead
  <2>1. SUFFICES ASSUME prog.pc = "again", clint.mtime.hi = prog.hi
                 PROVE  [hi |-> prog.hi, lo |-> prog.lo] = prog.at
    BY Values DEF TimeIsRead, Confirmed, TimerInv
  <2>2. prog.at.hi = prog.hi /\ prog.at.lo = prog.lo
    BY <1>1, <2>1 DEF TimerInv, ReadingInv, Reached, Time, Half
  <2>3. QED BY <1>1, <2>2 DEF Time
<1>4. QED BY <1>2, <1>3

\* Whatever the width of the registers and the deadlines, the timer's wire never
\* rises for a time that the program has not asked for.
THEOREM TimerNeverEarly == TimerSpec => []NoEarlyTimer
<1>1. TimerInv => NoEarlyTimer
  BY TimerInvImplies
<1>2. QED BY TimerInvInit, TimerInvStep, <1>1, PTL DEF TimerSpec

\* Whatever the width of the registers, a time that is read was the time.
THEOREM TimeReadIsTime == TimerSpec => []TimeIsRead
<1>1. TimerInv => TimeIsRead
  BY TimerInvImplies
<1>2. QED BY TimerInvInit, TimerInvStep, <1>1, PTL DEF TimerSpec

-----------------------------------------------------------------------------
(* The allocator.                                                           *)

\* Without an unpaired free the count is the number of blocks, all of which end
\* before the first free byte.
BumpInv ==
  /\ FirstFree % 4 = 0 /\ HeapStart <= FirstFree /\ FirstFree <= HeapEnd
  /\ allocated_cnt = Cardinality(Owned)
  /\ Owned = {} => FirstFree = HeapStart
  /\ \A h \in Owned : Ends(live[h]) <= FirstFree

HeapInv == HeapTypeOK /\ (~unpaired => BumpInv /\ BlocksDisjoint)

-----------------------------------------------------------------------------
\* Rounding up gives the next multiple of 4.
LEMMA AlignedProperties ==
  ASSUME NEW n \in Nat
  PROVE  /\ Aligned(n) \in Nat /\ n <= Aligned(n) /\ Aligned(n) % 4 = 0
         /\ \A m \in Nat : m % 4 = 0 => (m + Aligned(n)) % 4 = 0
  BY SMTT(30) DEF Aligned

LEMMA OwnedFinite == ASSUME HeapTypeOK PROVE Owned \subseteq Handle /\ IsFiniteSet(Owned)
<1>1. Owned \subseteq Handle
  BY DEF HeapTypeOK, Owned
<1>2. QED BY <1>1, HeapAssumption, FS_Subset

\* The space that comes back keeps the invariant: with a block less, it comes back
\* only when that was the last one.
LEMMA FreeKeepsInv ==
  ASSUME HeapInv, NEW h \in Handle, Free(h)
  PROVE  HeapInv'
<1> USE DEF HeapInv
<1>1. /\ h \in Owned /\ live' = [k \in Owned \ {h} |-> live[k]] /\ unpaired' = unpaired
      /\ Owned' = Owned \ {h} /\ allocated_cnt \in Nat /\ heap_ptr \in Nat
  BY DEF Free, Owned, HeapTypeOK
<1>2. /\ allocated_cnt' = IF allocated_cnt > 0 THEN allocated_cnt - 1 ELSE 0
      /\ heap_ptr' = IF allocated_cnt' = 0 THEN HeapStart ELSE heap_ptr
  BY DEF Free, Release
<1>3. HeapTypeOK'
  <2>1. live' \in [Owned \ {h} -> Block] /\ Owned \ {h} \in SUBSET Handle
    BY <1>1, OwnedFinite DEF HeapTypeOK, Owned
  <2>2. allocated_cnt' \in Nat /\ heap_ptr' \in Nat
    BY <1>1, <1>2, HeapAssumption
  <2>3. QED BY <2>1, <2>2, <1>1 DEF HeapTypeOK
<1>4. ASSUME ~unpaired'
      PROVE  BumpInv' /\ BlocksDisjoint'
  <2>1. BumpInv /\ BlocksDisjoint /\ ~unpaired
    BY <1>1, <1>4
  <2>2. IsFiniteSet(Owned) /\ Cardinality(Owned) = allocated_cnt
    BY <2>1, OwnedFinite DEF BumpInv
  <2>3. Cardinality(Owned \ {h}) = allocated_cnt - 1 /\ IsFiniteSet(Owned \ {h})
    BY <1>1, <2>2, FS_RemoveElement
  <2>4. allocated_cnt' = Cardinality(Owned')
    <3>1. allocated_cnt - 1 \in Nat
      BY <2>3, FS_CardinalityType
    <3>2. QED BY <1>1, <1>2, <2>3, <3>1
  <2>5. Owned' = {} <=> allocated_cnt' = 0
    BY <1>1, <2>3, <2>4, FS_EmptySet
  <2>6. \A k \in Owned' : k \in Owned /\ live'[k] = live[k]
    BY <1>1
  <2>7. BlocksDisjoint'
    BY <2>1, <2>6, <1>1, <1>4 DEF BlocksDisjoint, Ends
  <2>8. CASE allocated_cnt' = 0
    <3>1. FirstFree' = HeapStart /\ Owned' = {}
      BY <1>2, <2>5, <2>8 DEF FirstFree
    <3>2. QED BY <2>4, <2>7, <3>1, HeapAssumption DEF BumpInv
  <2>9. CASE allocated_cnt' # 0
    <3>1. FirstFree' = FirstFree /\ Owned' # {}
      BY <1>2, <2>5, <2>9 DEF FirstFree
    <3>2. QED BY <2>1, <2>4, <2>6, <2>7, <3>1 DEF BumpInv, Ends
  <2>10. QED BY <2>8, <2>9
<1>5. QED BY <1>3, <1>4

\* A new block begins where the last one ended, or nothing is handed out.
LEMMA MallocKeepsInv ==
  ASSUME HeapInv, NEW h \in Handle, NEW n \in Requests, Malloc(h, n)
  PROVE  HeapInv'
<1> USE DEF HeapInv
<1> DEFINE size == Aligned(n)
<1>1. /\ n \in Nat /\ size \in Nat /\ n <= size /\ size % 4 = 0
      /\ \A m \in Nat : m % 4 = 0 => (m + size) % 4 = 0
      /\ HeapStart \in Nat \ {0} /\ HeapStart % 4 = 0 /\ HeapEnd \in Nat
      /\ HeapStart <= HeapEnd
  BY HeapAssumption, AlignedProperties
<1>2. /\ heap_ptr \in Nat /\ FirstFree \in Nat \ {0} /\ allocated_cnt \in Nat
      /\ h \notin Owned /\ unpaired' = unpaired
  BY <1>1 DEF HeapTypeOK, FirstFree, Null, Malloc
<1> HIDE DEF size
<1>3. CASE FirstFree + size > HeapEnd
  <2>1. heap_ptr' = FirstFree /\ allocated_cnt' = allocated_cnt /\ live' = live
    BY <1>3 DEF Malloc, size
  <2>2. FirstFree' = FirstFree /\ Owned' = Owned
    BY <2>1, <1>2 DEF FirstFree, Null, Owned
  <2>3. QED BY <1>2, <2>1, <2>2 DEF HeapTypeOK, BumpInv, BlocksDisjoint, Ends
<1>4. CASE ~(FirstFree + size > HeapEnd)
  <2>1. /\ heap_ptr' = FirstFree + size /\ allocated_cnt' = allocated_cnt + 1
        /\ live' = [k \in Owned \cup {h} |->
                       IF k = h THEN [start |-> FirstFree, size |-> n] ELSE live[k]]
    BY <1>4 DEF Malloc, size
  <2>2. /\ Owned' = Owned \cup {h} /\ live'[h] = [start |-> FirstFree, size |-> n]
        /\ \A k \in Owned : live'[k] = live[k]
    BY <2>1, <1>2 DEF Owned
  <2>3. FirstFree' = FirstFree + size
    BY <2>1, <1>1, <1>2 DEF FirstFree, Null
  <2>4. HeapTypeOK'
    <3>1. \A k \in Owned : live[k] \in Block
      BY DEF HeapTypeOK, Owned
    <3>2. [start |-> FirstFree, size |-> n] \in Block
      BY <1>1, <1>2 DEF Block
    <3>3. live' \in [Owned \cup {h} -> Block] /\ Owned \cup {h} \in SUBSET Handle
      BY <2>1, <3>1, <3>2, OwnedFinite
    <3>4. heap_ptr' \in Nat /\ allocated_cnt' \in Nat /\ unpaired' \in BOOLEAN
      BY <2>1, <1>1, <1>2 DEF HeapTypeOK
    <3>5. QED BY <3>3, <3>4, <2>2 DEF HeapTypeOK
  <2>5. ASSUME ~unpaired'
        PROVE  BumpInv' /\ BlocksDisjoint'
    <3>1. BumpInv /\ BlocksDisjoint /\ ~unpaired
      BY <1>2, <2>5
    <3>2. allocated_cnt' = Cardinality(Owned')
      <4>1. Cardinality(Owned \cup {h}) = Cardinality(Owned) + 1
        BY <1>2, OwnedFinite, FS_AddElement
      <4>2. QED BY <2>1, <2>2, <3>1, <4>1 DEF BumpInv
    <3>3. /\ Ends(live'[h]) = FirstFree + n /\ live'[h].start = FirstFree
          /\ \A k \in Owned : /\ live[k].start \in Nat /\ live[k].size \in Nat
                              /\ Ends(live'[k]) = Ends(live[k])
      BY <2>2 DEF Ends, HeapTypeOK, Owned, Block
    <3>4. \A k \in Owned : Ends(live[k]) \in Nat /\ Ends(live[k]) <= FirstFree
      BY <3>1, <3>3 DEF BumpInv, Ends
    <3>5. BumpInv'
      <4>1. /\ FirstFree' % 4 = 0 /\ HeapStart <= FirstFree' /\ FirstFree' <= HeapEnd
            /\ FirstFree + n <= FirstFree' /\ FirstFree <= FirstFree'
        BY <1>1, <1>2, <1>4, <2>3, <3>1 DEF BumpInv
      <4>2. \A k \in Owned' : Ends(live'[k]) <= FirstFree'
        <5>1. TAKE k \in Owned'
        <5>2. CASE k = h
          BY <5>2, <3>3, <4>1
        <5>3. CASE k \in Owned
          BY <5>3, <3>3, <3>4, <4>1, <1>1, <1>2, <2>3
        <5>4. QED BY <5>2, <5>3, <2>2
      <4>3. Owned' # {}
        BY <2>2
      <4>4. QED BY <3>2, <4>1, <4>2, <4>3 DEF BumpInv, Ends
    <3>6. \A k \in Owned' : /\ HeapStart <= live'[k].start /\ Ends(live'[k]) <= HeapEnd
                           /\ live'[k].start % 4 = 0
      <4>1. TAKE k \in Owned'
      <4>2. CASE k = h
        BY <4>2, <3>1, <3>3, <1>1, <1>2, <1>4 DEF BumpInv
      <4>3. CASE k \in Owned
        BY <4>3, <3>1, <3>3, <2>2 DEF BlocksDisjoint
      <4>4. QED BY <4>2, <4>3, <2>2
    <3>7. \A k, m \in Owned' :
             k # m => Ends(live'[k]) <= live'[m].start \/ Ends(live'[m]) <= live'[k].start
      <4>1. TAKE k, m \in Owned'
      <4>2. CASE k \in Owned /\ m \in Owned
        BY <4>2, <3>1, <3>3, <2>2 DEF BlocksDisjoint
      <4>3. CASE k = h /\ m \in Owned
        BY <4>3, <3>3, <3>4
      <4>4. CASE k \in Owned /\ m = h
        BY <4>4, <3>3, <3>4
      <4>5. QED BY <4>2, <4>3, <4>4, <2>2
    <3>8. BlocksDisjoint'
      BY <3>6, <3>7 DEF BlocksDisjoint, Ends
    <3>9. QED BY <3>5, <3>8
  <2>6. QED BY <2>4, <2>5
<1>5. QED BY <1>3, <1>4

LEMMA FreeNullKeepsInv == HeapInv /\ FreeNull => HeapInv'
<1> SUFFICES ASSUME HeapInv, FreeNull PROVE HeapInv'
  OBVIOUS
<1> USE DEF HeapInv
<1>1. /\ live' = live /\ Owned' = Owned /\ unpaired' = (unpaired \/ Owned # {})
      /\ allocated_cnt' = IF allocated_cnt > 0 THEN allocated_cnt - 1 ELSE 0
      /\ heap_ptr' = IF allocated_cnt' = 0 THEN HeapStart ELSE heap_ptr
  BY DEF FreeNull, Release, Owned
<1>2. HeapTypeOK'
  BY <1>1, HeapAssumption DEF HeapTypeOK
<1>3. ASSUME ~unpaired'
      PROVE  BumpInv' /\ BlocksDisjoint'
  <2>1. Owned = {} /\ BumpInv /\ allocated_cnt = 0
    BY <1>1, <1>3, FS_EmptySet DEF BumpInv, HeapTypeOK
  <2>2. allocated_cnt' = 0 /\ FirstFree' = HeapStart
    BY <1>1, <2>1, HeapAssumption DEF FirstFree
  <2>3. QED BY <1>1, <2>1, <2>2, FS_EmptySet, HeapAssumption DEF BumpInv, BlocksDisjoint
<1>4. QED BY <1>2, <1>3

-----------------------------------------------------------------------------
LEMMA HeapInvInit == HeapInit => HeapInv
<1>1. SUFFICES ASSUME HeapInit PROVE HeapInv
  OBVIOUS
<1>2. Owned = {} /\ live \in [{} -> Block] /\ {} \in SUBSET Handle
  BY <1>1 DEF HeapInit, Owned
<1>3. HeapTypeOK
  <2>1. Owned \subseteq Handle /\ live \in [Owned -> Block]
    BY <1>2
  <2>2. QED BY <1>1, <2>1 DEF HeapInit, HeapTypeOK, Null
<1>4. BumpInv /\ BlocksDisjoint
  <2>1. FirstFree = HeapStart /\ allocated_cnt = 0
    BY <1>1 DEF HeapInit, FirstFree
  <2>2. Cardinality(Owned) = 0
    BY <1>2, FS_EmptySet
  <2>3. QED BY <1>2, <2>1, <2>2, HeapAssumption DEF BumpInv, BlocksDisjoint
<1>5. QED BY <1>3, <1>4 DEF HeapInv

LEMMA HeapInvStep == HeapInv /\ [HeapNext]_heapVars => HeapInv'
<1> SUFFICES ASSUME HeapInv, [HeapNext]_heapVars PROVE HeapInv'
  OBVIOUS
<1>1. CASE UNCHANGED heapVars
  BY <1>1 DEF heapVars, HeapInv, HeapTypeOK, BumpInv, BlocksDisjoint, FirstFree, Owned
<1>2. QED BY <1>1, MallocKeepsInv, FreeKeepsInv, FreeNullKeepsInv DEF HeapNext

\* For every heap, size and number of blocks: blocks in use never overlap.
THEOREM HeapBlocksDisjoint == HeapSpec => []BlocksDisjoint
<1>1. HeapInv => BlocksDisjoint
  BY DEF HeapInv, BlocksDisjoint
<1>2. QED BY HeapInvInit, HeapInvStep, <1>1, PTL DEF HeapSpec

\* And the whole heap is free again when the last of them is.
THEOREM HeapIsReused == HeapSpec => []HeapComesBack
<1>1. HeapInv => HeapComesBack
  BY DEF HeapInv, BumpInv, HeapComesBack
<1>2. QED BY HeapInvInit, HeapInvStep, <1>1, PTL DEF HeapSpec

-----------------------------------------------------------------------------
(* The SoC.                                                                 *)

\* The names of the stages, for the provers.
LEMMA StageNames ==
  /\ DOMAIN NextStage = {"soc", "dram", "backing", "map", "units", "regrow", "ticker"}
  /\ NextStage["soc"] = "dram" /\ NextStage["dram"] = "backing"
  /\ NextStage["backing"] = "map" /\ NextStage["map"] = "units"
  /\ NextStage["units"] = "regrow" /\ NextStage["regrow"] = "ticker"
  /\ NextStage["ticker"] = "tickables"
  BY DEF NextStage

-----------------------------------------------------------------------------
\* The terminal: its settings are saved while it is raw, and only then.
TerminalInv ==
  /\ terminal \in Terminal
  /\ terminal.saved \in {"none", "cooked"}
  /\ terminal.saved = "none" => terminal.mode = "cooked"
  /\ ~terminal.initialized => terminal.saved = "none"
  /\ terminal.exited => terminal.saved = "none" /\ at = "idle"

LEMMA TerminalInvInit == SocInit => TerminalInv
  BY DEF SocInit, TerminalInv, Terminal, Mode

LEMMA TerminalInvStep == TerminalInv /\ [SocNext]_vars => TerminalInv'
<1> SUFFICES ASSUME TerminalInv, [SocNext]_vars PROVE TerminalInv'
  OBVIOUS
<1>1. CASE UNCHANGED terminal /\ (at' = at \/ ~terminal.exited)
  BY <1>1 DEF TerminalInv
<1>2. CASE UNCHANGED terminal /\ at # "idle"
  BY <1>2 DEF TerminalInv
<1>3. CASE Allocates /\ at = "soc"
  <2>1. terminal' \in TerminalInit(terminal) /\ ~terminal.exited
    BY <1>3 DEF Allocates, ConstructsDevices, TerminalInv
  <2>2. CASE terminal.initialized
    BY <2>1, <2>2 DEF TerminalInit, TerminalInv
  <2>3. CASE ~terminal.initialized
    <3>1. terminal.saved = "none" /\ terminal.mode = "cooked"
      BY <2>3 DEF TerminalInv
    <3>2. \/ terminal' = [terminal EXCEPT !.initialized = TRUE]
          \/ terminal' = [terminal EXCEPT !.initialized = TRUE, !.saved = "cooked", !.mode = "raw"]
      BY <2>1, <2>3, <3>1 DEF TerminalInit, RawOrNot
    <3>3. QED BY <2>1, <3>1, <3>2 DEF TerminalInv, Terminal, Mode
  <2>4. QED BY <2>2, <2>3
<1>4. CASE Exit
  BY <1>4 DEF Exit, TerminalInv, Terminal, Mode
<1>5. CASE Construction /\ ~(Allocates /\ at = "soc")
  BY <1>1, <1>2, <1>5, StageNames
  DEF Construction, InitStarts, Allocates, FindsNoMemory, AddsTickables, LoadsElf, RefusesElf
<1>6. CASE Fini \/ Operation \/ UNCHANGED vars
  BY <1>1, <1>6
  DEF Fini, Operation, SocTick, TimerRuns, Writes, HeapRuns, TextRuns, HostTypes, vars, socVars
<1>7. QED
  BY <1>3, <1>4, <1>5, <1>6 DEF SocNext, Teardown

\* However many SoCs there were, the process gives the terminal back as it was.
THEOREM TerminalComesBack == SocSpec => []TerminalRestored
<1>1. TerminalInv => TerminalRestored
  BY DEF TerminalInv, TerminalRestored
<1>2. QED BY TerminalInvInit, TerminalInvStep, <1>1, PTL DEF SocSpec

-----------------------------------------------------------------------------
\* The memory: what is allocated at each point of a construction is what its error
\* path frees.
LeakInv ==
  /\ at \in {"idle", "tickables", "elf"} \cup DOMAIN NextStage
  /\ ~g_soc => tickables = <<>>
  /\ at \in DOMAIN NextStage =>
       ~g_soc /\ blocks = [k \in Kinds |-> IF k \in Undone(at) THEN 1 ELSE 0]
  /\ at = "elf" => g_soc
  /\ at = "tickables" =>
       ~g_soc /\ blocks = [k \in Kinds |-> IF k # "tickables" THEN 1 ELSE 0]
  /\ at \in {"idle", "elf"} =>
       blocks = [k \in Kinds |-> IF g_soc /\ k \in Reachable THEN 1 ELSE 0]

\* Every failure leaves the blocks that were there, less those it frees.
LEMMA UndoneIsBuilt ==
  /\ Undone("soc") = {} /\ Undone("dram") = {"soc"}
  /\ Undone("backing") = {"soc", "dram"} /\ Undone("map") = {"soc", "dram", "backing"}
  /\ Undone("units") = {"soc", "dram", "backing", "map"}
  /\ Undone("regrow") = {"soc", "dram", "backing", "map", "units"}
  /\ Undone("ticker") = {"soc", "dram", "backing", "map", "units"}
  BY DEF Undone

LEMMA LeakInvInit == SocInit => LeakInv
  BY DEF SocInit, LeakInv, NextStage, Reachable

\* What the destructors free is everything there is.
LEMMA DestructsAll ==
  ASSUME LeakInv, at \in {"idle", "elf"}, g_soc, Destructs
  PROVE  blocks' = [k \in Kinds |-> 0] /\ ~g_soc' /\ tickables' = <<>>
  BY DEF LeakInv, Destructs, Freed

LEMMA LeakInvStep == LeakInv /\ [SocNext]_vars => LeakInv'
<1> SUFFICES ASSUME LeakInv, [SocNext]_vars PROVE LeakInv'
  OBVIOUS
<1>1. CASE InitStarts
  <2>1. at' = "soc" /\ ~g_soc' /\ tickables' = <<>> /\ blocks' = [k \in Kinds |-> 0]
    BY <1>1, DestructsAll DEF InitStarts, LeakInv
  <2>2. QED BY <2>1, StageNames, UndoneIsBuilt DEF LeakInv
<1>2. CASE Allocates
  <2>1. /\ ~g_soc' /\ tickables' = <<>> /\ at \in DOMAIN NextStage /\ at' = NextStage[at]
        /\ blocks = [k \in Kinds |-> IF k \in Undone(at) THEN 1 ELSE 0]
        /\ blocks' = IF at = "regrow" THEN blocks ELSE [blocks EXCEPT ![at] = @ + 1]
    BY <1>2 DEF Allocates, LeakInv
  <2>2. CASE at = "regrow"
    BY <2>1, <2>2, StageNames, UndoneIsBuilt DEF LeakInv
  <2>3. CASE at \in {"soc", "dram", "backing", "map", "units"}
    <3>1. at' \in DOMAIN NextStage /\ Undone(at') = Undone(at) \cup {at} /\ at \notin Undone(at)
      BY <2>1, <2>3, StageNames, UndoneIsBuilt
    <3>2. blocks' = [k \in Kinds |-> IF k \in Undone(at') THEN 1 ELSE 0]
      BY <2>1, <2>3, <3>1 DEF Kinds
    <3>3. QED BY <2>1, <3>1, <3>2, StageNames DEF LeakInv
  <2>4. CASE at = "ticker"
    <3>1. blocks' = [k \in Kinds |-> IF k # "tickables" THEN 1 ELSE 0]
      <4>1. /\ "ticker" \in Kinds /\ "ticker" \notin Undone("ticker")
            /\ \A k \in Kinds : k \in Undone("ticker") \/ k = "ticker" <=> k # "tickables"
        BY UndoneIsBuilt DEF Kinds
      <4>2. blocks' = [blocks EXCEPT !["ticker"] = blocks["ticker"] + 1]
        BY <2>1, <2>4
      <4>3. QED BY <2>1, <2>4, <4>1, <4>2
    <3>2. QED BY <2>1, <2>4, <3>1, StageNames DEF LeakInv
  <2>5. QED BY <2>1, <2>2, <2>3, <2>4, StageNames
<1>3. CASE FindsNoMemory
  <2>1. blocks' = [k \in Kinds |-> 0] /\ ~g_soc' /\ at' = "idle" /\ tickables' = <<>>
    BY <1>3 DEF FindsNoMemory, Freed, LeakInv
  <2>2. QED BY <2>1, StageNames DEF LeakInv
<1>4. CASE AddsTickables
  <2>1. PICK failures \in 0 .. 3 :
          /\ tickables' = SubSeq(AllTickables, failures + 1, 3)
          /\ blocks' = IF failures < 3 THEN [blocks EXCEPT !["tickables"] = @ + 1] ELSE blocks
    BY <1>4 DEF AddsTickables
  <2>2. /\ g_soc' /\ at' = "elf"
        /\ blocks = [k \in Kinds |-> IF k # "tickables" THEN 1 ELSE 0]
    BY <1>4 DEF AddsTickables, LeakInv
  <2>3. tickables' = <<>> <=> failures = 3
    BY <2>1, SubSeqProperties DEF AllTickables
  <2>4. blocks' = [k \in Kinds |-> IF k \in Reachable' THEN 1 ELSE 0]
    BY <2>1, <2>2, <2>3 DEF Reachable, Kinds
  <2>5. QED BY <2>2, <2>4, StageNames DEF LeakInv
<1>5. CASE LoadsElf
  BY <1>5, StageNames DEF LoadsElf, LeakInv, Reachable
<1>6. CASE RefusesElf \/ Fini
  <2>1. at' = "idle" /\ ~g_soc' /\ tickables' = <<>> /\ blocks' = [k \in Kinds |-> 0]
    <3>1. at \in {"idle", "elf"} /\ at' = "idle" /\ Destructs
      BY <1>6 DEF RefusesElf, Fini
    <3>2. g_soc
      BY <1>6, <3>1 DEF RefusesElf, Fini, LeakInv
    <3>3. QED BY <3>1, <3>2, DestructsAll
  <2>2. QED BY <2>1, StageNames DEF LeakInv
<1>7. CASE Exit
  BY <1>7, StageNames DEF Exit, LeakInv
<1>8. CASE UNCHANGED <<at, g_soc, tickables, blocks>>
  BY <1>8 DEF LeakInv, Reachable
<1>9. QED
  BY <1>1, <1>2, <1>3, <1>4, <1>5, <1>6, <1>7, <1>8
  DEF SocNext, Construction, Teardown, Operation, SocTick, TimerRuns, Writes, HeapRuns,
      TextRuns, HostTypes, vars, socVars

\* Whichever allocations fail, and however often, no block is lost or freed twice.
THEOREM MemoryIsReturned == SocSpec => []NothingLeaks
<1>1. LeakInv => NothingLeaks
  BY DEF LeakInv, NothingLeaks
<1>2. QED BY LeakInvInit, LeakInvStep, <1>1, PTL DEF SocSpec

-----------------------------------------------------------------------------
\* The heap of a program begins anew with each of them.
LEMMA SocHeapStep == HeapInv /\ [SocNext]_vars => HeapInv'
<1> SUFFICES ASSUME HeapInv, [SocNext]_vars PROVE HeapInv'
  OBVIOUS
<1>1. HeapInit' => HeapInv'
  BY HeapInvInit, PTL
<1>2. ASSUME NEW p, NEW pc, Program(p, pc) PROVE HeapInit'
  BY <1>2 DEF Program, HeapInit
<1>3. CASE Destructs \/ Exit \/ LoadsElf
  BY <1>1, <1>2, <1>3 DEF Destructs, Exit, LoadsElf
<1>4. CASE HeapRuns \/ UNCHANGED heapVars
  BY <1>4, HeapInvStep DEF HeapRuns
<1>5. QED
  BY <1>3, <1>4
  DEF SocNext, Construction, Teardown, Operation, InitStarts, Allocates, ConstructsDevices,
      FindsNoMemory, AddsTickables, RefusesElf, Fini, SocTick, TimerRuns, Writes, TextRuns,
      HostTypes, vars

\* What is proved of the allocator holds in the simulator, whatever the SoCs and
\* the programs that come one after the other.
THEOREM SocHeapIsSafe == SocSpec => [](BlocksDisjoint /\ HeapComesBack)
<1>1. SocInit => HeapInv
  BY HeapInvInit DEF SocInit
<1>2. HeapInv => BlocksDisjoint /\ HeapComesBack
  BY DEF HeapInv, BumpInv, BlocksDisjoint, HeapComesBack
<1>3. QED BY <1>1, SocHeapStep, <1>2, PTL DEF SocSpec

-----------------------------------------------------------------------------
\* The devices: without an SoC, and while one is made, the CLINT stands as a
\* constructor leaves it, and only the timer program has a place in Timer.
InsideInv ==
  /\ TimerTypeOK
  /\ ~g_soc \/ at # "idle" => clint = ClintReset /\ prog = ProgReset("none")
  /\ software # "timer" => prog.pc = "none"
  /\ \E k \in 0 .. 3 : tickables = SubSeq(AllTickables, k + 1, 3)
  /\ at \in DOMAIN NextStage \cup {"tickables"} => ~g_soc
  /\ at = "elf" => g_soc

LEMMA ResetPrograms ==
  ASSUME NEW pc \in {"none", "idle"}
  PROVE  ProgReset(pc) \in Prog /\ ProgReset(pc).pc = pc
  BY ResetTypes, HalfModAssumption DEF ProgReset, Prog, ClintReset, ClintState, Half

\* A device at each place of the ticker: the CLINT at the first one or nowhere.
LEMMA TickerPlaces ==
  ASSUME NEW k \in 0 .. 3, tickables = SubSeq(AllTickables, k + 1, 3)
  PROVE  /\ Nth(1) \in {"clint", "uart", "irq_agg", "none"}
         /\ Nth(2) \in {"uart", "irq_agg", "none"} /\ Nth(3) \in {"irq_agg", "none"}
         /\ Nth(1) = "clint" <=> "clint" \in Range(tickables)
<1>1. /\ AllTickables[1] = "clint" /\ AllTickables[2] = "uart" /\ AllTickables[3] = "irq_agg"
  BY DEF AllTickables
<1>2. /\ tickables \in Seq({"clint", "uart", "irq_agg"}) /\ Len(tickables) = 3 - k
      /\ \A n \in 1 .. 3 - k : tickables[n] = AllTickables[n + k]
  <2>1. \A i \in k + 1 .. 3 : AllTickables[i] \in {"clint", "uart", "irq_agg"}
    BY <1>1
  <2>2. /\ tickables \in Seq({"clint", "uart", "irq_agg"})
        /\ Len(tickables) = IF k + 1 <= 3 THEN 3 - (k + 1) + 1 ELSE 0
        /\ \A n \in 1 .. 3 - (k + 1) + 1 : tickables[n] = AllTickables[(k + 1) + n - 1]
    BY <2>1, SubSeqProperties
  <2>3. QED BY <2>2
<1>3. \A n \in 1 .. 3 : Nth(n) = IF n + k <= 3 THEN AllTickables[n + k] ELSE "none"
  BY <1>2 DEF Nth
<1>4. Range(tickables) = {AllTickables[n + k] : n \in 1 .. 3 - k}
  <2>1. DOMAIN tickables = 1 .. 3 - k
    BY <1>2
  <2>2. QED BY <1>2, <2>1 DEF Range
<1>5. "clint" \in Range(tickables) <=> k = 0
  BY <1>1, <1>4
<1>6. QED BY <1>1, <1>3, <1>5

\* One tick of the SoC is one tick of its CLINT, if that is in the ticker.
LEMMA TickedClint ==
  ASSUME NEW k \in 0 .. 3, tickables = SubSeq(AllTickables, k + 1, 3)
  PROVE  Ticked(HwNow).clint
           = IF "clint" \in Range(tickables) THEN ClintTick(clint) ELSE clint
<1>1. /\ Nth(1) \in {"clint", "uart", "irq_agg", "none"}
      /\ Nth(2) \in {"uart", "irq_agg", "none"} /\ Nth(3) \in {"irq_agg", "none"}
      /\ Nth(1) = "clint" <=> "clint" \in Range(tickables)
  BY TickerPlaces
<1>2. ASSUME NEW hw, DOMAIN hw = {"io", "clint"}, NEW d \in {"uart", "irq_agg", "none"}
      PROVE  DOMAIN TickedBy(hw, d) = {"io", "clint"} /\ TickedBy(hw, d).clint = hw.clint
  BY <1>2 DEF TickedBy
<1> DEFINE one == TickedBy(HwNow, Nth(1))
           two == TickedBy(one, Nth(2))
<1>3. /\ DOMAIN one = {"io", "clint"}
      /\ one.clint = IF Nth(1) = "clint" THEN ClintTick(clint) ELSE clint
  <2>1. DOMAIN HwNow = {"io", "clint"} /\ HwNow.clint = clint
    BY DEF HwNow
  <2>2. CASE Nth(1) = "clint"
    BY <2>1, <2>2 DEF TickedBy
  <2>3. CASE Nth(1) # "clint"
    BY <1>1, <1>2, <2>1, <2>3
  <2>4. QED BY <2>2, <2>3
<1>4. DOMAIN two = {"io", "clint"} /\ two.clint = one.clint
  <2> HIDE DEF one
  <2>1. QED BY <1>1, <1>2, <1>3
<1>5. Ticked(HwNow).clint = two.clint
  <2>1. Ticked(HwNow) = TickedBy(two, Nth(3))
    BY DEF Ticked
  <2> HIDE DEF two
  <2>2. QED BY <1>1, <1>2, <1>4, <2>1
<1>6. QED BY <1>1, <1>3, <1>4, <1>5

\* No step of the program takes it or the CLINT out of its states.
LEMMA ProgTypes == TimerTypeOK /\ ProgStep => TimerTypeOK'
<1> SUFFICES ASSUME TimerTypeOK, ProgStep PROVE TimerTypeOK'
  OBVIOUS
<1>1. /\ HalfMod - 1 \in Half /\ prog.target.hi \in Half /\ prog.target.lo \in Half
      /\ prog.target \in Time /\ clint.mtime \in Time
  BY HalfModAssumption DEF Half, TimerTypeOK, Prog, Time, ClintState
<1>2. CASE ReadsHigh \/ ReadsLow \/ ReadsAgain
  BY <1>1, <1>2, Values DEF ReadsHigh, ReadsLow, ReadsAgain, Goto, TimerTypeOK, Prog
<1>3. ASSUME NEW t \in Deadlines, SetsTarget(t) PROVE TimerTypeOK'
  BY <1>3, DeadlinesAssumption DEF SetsTarget, Goto, TimerTypeOK, Prog
<1>4. CASE Parks \/ StoresHigh \/ StoresLow
  BY <1>1, <1>4, HalfStores, ZenonT(60) DEF Parks, StoresHigh, StoresLow,
         Goto, TimerTypeOK, Prog
<1>5. QED BY <1>2, <1>3, <1>4 DEF ProgStep

LEMMA TickTypes == ASSUME NEW c \in ClintState PROVE ClintTick(c) \in ClintState
<1>1. c.mtime \in Time /\ c.mtime.hi \in Half /\ c.mtime.lo \in Half
  BY DEF ClintState, Time
<1>2. Later(c.mtime) \in Time
  BY <1>1, HalfModAssumption DEF Later, Time, Half
<1>3. QED BY <1>2 DEF ClintTick, ClintState

\* No store takes the CLINT out of its states.
LEMMA StoreTypes ==
  ASSUME NEW s \in Stores, NEW taken \in BOOLEAN, clint \in ClintState
  PROVE  RegWrite(HwNow, s, taken).hw.clint \in ClintState
<1>1. s.unit \in {"uart", "irq_agg", "clint"} /\ s.value \in Half
  BY DEF Stores, Store, RegsOf
<1>2. \A reg \in ClintReg : ClintStored(clint, reg, s.value) \in ClintState
  BY <1>1 DEF ClintStored, ClintReg, ClintState, Time
<1>3. CASE s.unit = "uart"
  BY <1>3 DEF RegWrite, UartWrite, Prints, Accepted, Refused, HwNow
<1>4. CASE s.unit = "irq_agg"
  BY <1>4 DEF RegWrite, IrqAggWrite, Accepted, Refused, HwNow
<1>5. CASE s.unit = "clint"
  <2>1. RegWrite(HwNow, s, taken) = ClintWrite(HwNow, s)
    BY <1>5 DEF RegWrite
  <2>2. QED BY <1>2, <2>1 DEF ClintWrite, Accepted, Refused, HwNow
<1>6. QED BY <1>1, <1>3, <1>4, <1>5

LEMMA InsideInvInit == SocInit => InsideInv
<1>1. SubSeq(AllTickables, 4, 3) = <<>>
  BY SubSeqEmpty
<1>2. SocInit => \E k \in 0 .. 3 : tickables = SubSeq(AllTickables, k + 1, 3)
  BY <1>1 DEF SocInit
<1>3. QED BY <1>2, ResetPrograms, ResetTypes, StageNames
  DEF SocInit, TimerInit, InsideInv, TimerTypeOK, NextStage, ProgReset

\* Every step of the SoC is a step of Timer or leaves it alone.
LEMMA InsideInvStep ==
  InsideInv /\ [SocNext]_vars => InsideInv' /\ [TimerNext]_timerVars
<1> SUFFICES ASSUME InsideInv, [SocNext]_vars PROVE InsideInv' /\ [TimerNext]_timerVars
  OBVIOUS
<1>0. at' = "elf" => g_soc'
  <2>1. CASE Construction
    BY <2>1, StageNames DEF Construction, InitStarts, Allocates, FindsNoMemory, AddsTickables,
                            LoadsElf, RefusesElf
  <2>2. CASE Teardown
    BY <2>2 DEF Teardown, Fini, Exit
  <2>3. CASE Operation \/ UNCHANGED vars
    BY <2>3 DEF InsideInv, Operation, SocTick, TimerRuns, Writes, HeapRuns, TextRuns,
                HostTypes, vars, socVars
  <2>4. QED BY <2>1, <2>2, <2>3 DEF SocNext
<1>1. SubSeq(AllTickables, 4, 3) = <<>> /\ \E k \in 0 .. 3 : <<>> = SubSeq(AllTickables, k + 1, 3)
  <2>1. SubSeq(AllTickables, 4, 3) = <<>>
    BY SubSeqEmpty
  <2>2. <<>> = SubSeq(AllTickables, 3 + 1, 3)
    BY <2>1
  <2>3. QED BY <2>1, <2>2
<1>2. ASSUME NEW pc \in {"none", "idle"}, clint' = ClintReset, prog' = ProgReset(pc)
      PROVE  TimerTypeOK' /\ prog'.pc = pc /\ Restart
  BY <1>2, ResetPrograms, ResetTypes DEF TimerTypeOK, Restart
<1>3. ASSUME clint' = ClintReset, prog' = ProgReset("none"), tickables' = <<>>,
             ~g_soc'
      PROVE  InsideInv' /\ [TimerNext]_timerVars
  BY <1>0, <1>1, <1>2, <1>3 DEF InsideInv, TimerNext
<1>4. CASE Destructs
  BY <1>3, <1>4 DEF Destructs, FreshDevices, Program
<1>5. CASE Exit
  BY <1>3, <1>5 DEF Exit, Program
<1>6. CASE Construction /\ ~Destructs /\ ~LoadsElf
  <2>1. clint = ClintReset /\ prog = ProgReset("none")
    BY <1>6, StageNames DEF InsideInv, Construction, InitStarts, Allocates, FindsNoMemory,
                            AddsTickables, RefusesElf
  <2>2. clint' = clint /\ prog' = prog /\ software' = software
    BY <1>6, <2>1 DEF Construction, InitStarts, Allocates, FindsNoMemory, AddsTickables,
                      RefusesElf, ConstructsDevices, FreshDevices, timerVars
  <2>3. \E k \in 0 .. 3 : tickables' = SubSeq(AllTickables, k + 1, 3)
    BY <1>6 DEF InsideInv, Construction, InitStarts, Allocates, FindsNoMemory,
                AddsTickables, RefusesElf
  <2>4. /\ at' \in DOMAIN NextStage \cup {"tickables"} => ~g_soc'
        /\ at' = "elf" => g_soc'
    BY <1>6, StageNames DEF InsideInv, Construction, InitStarts, Allocates, FindsNoMemory,
                            AddsTickables, RefusesElf
  <2>5. QED BY <2>1, <2>2, <2>3, <2>4 DEF InsideInv, TimerTypeOK, timerVars
<1>7. CASE LoadsElf
  <2>1. PICK p \in Programs : Program(p, IF p = "timer" THEN "idle" ELSE "none")
    BY <1>7 DEF LoadsElf
  <2>2. /\ clint' = ClintReset /\ software' = p /\ at' = "idle" /\ tickables' = tickables
        /\ prog' = ProgReset(IF p = "timer" THEN "idle" ELSE "none") /\ g_soc' = g_soc
    BY <1>7, <2>1 DEF LoadsElf, Program, InsideInv
  <2>3. TimerTypeOK' /\ Restart /\ (p # "timer" => prog'.pc = "none")
    BY <1>2, <2>2
  <2>4. g_soc'
    BY <1>7, <2>2 DEF LoadsElf, InsideInv
  <2>5. QED BY <2>2, <2>3, <2>4, StageNames DEF InsideInv, TimerNext
<1>8. CASE SocTick
  <2>1. PICK k \in 0 .. 3 : tickables = SubSeq(AllTickables, k + 1, 3)
    BY DEF InsideInv
  <2>2. /\ clint' = IF "clint" \in Range(tickables) THEN ClintTick(clint) ELSE clint
        /\ prog' = prog /\ g_soc /\ at = "idle"
        /\ UNCHANGED <<g_soc, at, tickables, software>>
    BY <1>8, <2>1, TickedClint DEF SocTick, BecomesHw, Running
  <2>3. clint' \in ClintState
    BY <2>2, TickTypes DEF InsideInv, TimerTypeOK
  <2>4. InsideInv'
    BY <2>2, <2>3 DEF InsideInv, TimerTypeOK
  <2>5. Tick \/ Foreign \/ UNCHANGED timerVars
    BY <1>8, <2>2, <2>3 DEF SocTick, Tick, Foreign, InsideInv, timerVars
  <2>6. QED BY <2>4, <2>5 DEF TimerNext
<1>9. CASE Writes
  <2>1. PICK s \in Stores, hostTakes \in BOOLEAN :
          clint' = RegWrite(HwNow, s, hostTakes).hw.clint
    BY <1>9 DEF Writes, BecomesHw
  <2>2. clint' \in ClintState
    BY <2>1, StoreTypes DEF InsideInv, TimerTypeOK
  <2>3. /\ UNCHANGED <<prog, g_soc, at, tickables, software>> /\ prog.pc = "none"
        /\ g_soc /\ at = "idle"
    BY <1>9 DEF Writes, Running, InsideInv
  <2>4. QED BY <2>2, <2>3 DEF InsideInv, TimerTypeOK, Foreign, TimerNext
<1>10. CASE TimerRuns
  <2>1. ProgStep /\ UNCHANGED socVars /\ g_soc /\ at = "idle" /\ software = "timer"
    BY <1>10 DEF TimerRuns, Running
  <2>2. TimerTypeOK'
    BY <2>1, ProgTypes DEF InsideInv
  <2>3. QED BY <2>1, <2>2 DEF InsideInv, TimerNext, socVars
<1>11. CASE UNCHANGED <<timerVars, g_soc, at, tickables, software>>
  BY <1>11 DEF timerVars, InsideInv, TimerTypeOK
<1>12. QED
  BY <1>4, <1>5, <1>6, <1>7, <1>8, <1>9, <1>10, <1>11
  DEF SocNext, Construction, Teardown, Fini, Operation, HeapRuns, TextRuns, HostTypes, vars,
      socVars

\* The timer program and the CLINT of the SoC implement Timer, whatever registers,
\* deadlines and constructions there are.
THEOREM SocRunsTimer == SocSpec => TimerInside
<1>1. SocInit => TimerInit
  BY DEF SocInit
<1>2. QED BY InsideInvInit, InsideInvStep, <1>1, PTL DEF SocSpec, TimerInside, TimerSpec

\* So the timer's wire of an SoC rises for no time but one its program asked for.
COROLLARY SocTimerNeverEarly == SocSpec => []NoEarlyTimer
  BY SocRunsTimer, TimerNeverEarly, PTL DEF TimerInside

-----------------------------------------------------------------------------
(* The devices and the registers.                                           *)

\* What one tick of a ticker without its first k devices does to each device.
IoTicked(d, k)    == IF k <= 1 THEN IrqAggTick(UartTick(d)) ELSE IF k = 2 THEN IrqAggTick(d) ELSE d
ClintTicked(c, k) == IF k = 0 THEN ClintTick(c) ELSE c

LEMMA TickedParts ==
  ASSUME NEW k \in 0 .. 3, tickables = SubSeq(AllTickables, k + 1, 3), NEW d, NEW c
  PROVE  Ticked([io |-> d, clint |-> c]) = [io |-> IoTicked(d, k), clint |-> ClintTicked(c, k)]
<1> DEFINE hw == [io |-> d, clint |-> c]
<1>1. /\ AllTickables[1] = "clint" /\ AllTickables[2] = "uart" /\ AllTickables[3] = "irq_agg"
  BY DEF AllTickables
<1>2. Len(tickables) = 3 - k /\ \A n \in 1 .. 3 - k : tickables[n] = AllTickables[n + k]
  <2>1. /\ Len(tickables) = IF k + 1 <= 3 THEN 3 - (k + 1) + 1 ELSE 0
        /\ \A n \in 1 .. 3 - (k + 1) + 1 : tickables[n] = AllTickables[(k + 1) + n - 1]
    <3>1. \A i \in k + 1 .. 3 : AllTickables[i] \in {"clint", "uart", "irq_agg"}
      BY <1>1
    <3>2. QED BY <3>1, SubSeqProperties
  <2>2. QED BY <2>1
<1>3. \A n \in 1 .. 3 : Nth(n) = IF n + k <= 3 THEN AllTickables[n + k] ELSE "none"
  BY <1>2 DEF Nth
<1>4. \A x, y :
             /\ TickedBy([io |-> x, clint |-> y], "clint") = [io |-> x, clint |-> ClintTick(y)]
             /\ TickedBy([io |-> x, clint |-> y], "uart") = [io |-> UartTick(x), clint |-> y]
             /\ TickedBy([io |-> x, clint |-> y], "irq_agg") = [io |-> IrqAggTick(x), clint |-> y]
             /\ TickedBy([io |-> x, clint |-> y], "none") = [io |-> x, clint |-> y]
  BY DEF TickedBy
<1>5. CASE k = 0
  <2>1. Nth(1) = "clint" /\ Nth(2) = "uart" /\ Nth(3) = "irq_agg"
    BY <1>1, <1>3, <1>5
  <2>2. Ticked(hw) = TickedBy(TickedBy(TickedBy(hw, "clint"), "uart"), "irq_agg")
    BY <2>1 DEF Ticked
  <2>3. Ticked(hw) = [io |-> IrqAggTick(UartTick(d)), clint |-> ClintTick(c)]
    <3>1. TickedBy(hw, "clint") = [io |-> d, clint |-> ClintTick(c)]
      BY <1>4
    <3>2. TickedBy([io |-> d, clint |-> ClintTick(c)], "uart")
            = [io |-> UartTick(d), clint |-> ClintTick(c)]
      BY <1>4
    <3>3. TickedBy([io |-> UartTick(d), clint |-> ClintTick(c)], "irq_agg")
            = [io |-> IrqAggTick(UartTick(d)), clint |-> ClintTick(c)]
      BY <1>4
    <3>4. QED BY <2>2, <3>1, <3>2, <3>3
  <2>4. QED BY <1>5, <2>3 DEF IoTicked, ClintTicked
<1>6. CASE k = 1
  <2>1. Nth(1) = "uart" /\ Nth(2) = "irq_agg" /\ Nth(3) = "none"
    BY <1>1, <1>3, <1>6
  <2>2. Ticked(hw) = TickedBy(TickedBy(TickedBy(hw, "uart"), "irq_agg"), "none")
    BY <2>1 DEF Ticked
  <2>3. Ticked(hw) = [io |-> IrqAggTick(UartTick(d)), clint |-> c]
    <3>1. TickedBy(hw, "uart") = [io |-> UartTick(d), clint |-> c]
      BY <1>4
    <3>2. TickedBy([io |-> UartTick(d), clint |-> c], "irq_agg")
            = [io |-> IrqAggTick(UartTick(d)), clint |-> c]
      BY <1>4
    <3>3. TickedBy([io |-> IrqAggTick(UartTick(d)), clint |-> c], "none")
            = [io |-> IrqAggTick(UartTick(d)), clint |-> c]
      BY <1>4
    <3>4. QED BY <2>2, <3>1, <3>2, <3>3
  <2>4. QED BY <1>6, <2>3 DEF IoTicked, ClintTicked
<1>7. CASE k = 2
  <2>1. Nth(1) = "irq_agg" /\ Nth(2) = "none" /\ Nth(3) = "none"
    BY <1>1, <1>3, <1>7
  <2>2. Ticked(hw) = TickedBy(TickedBy(TickedBy(hw, "irq_agg"), "none"), "none")
    BY <2>1 DEF Ticked
  <2>3. Ticked(hw) = [io |-> IrqAggTick(d), clint |-> c]
    BY <1>4, <2>2
  <2>4. QED BY <1>7, <2>3 DEF IoTicked, ClintTicked
<1>8. CASE k = 3
  <2>1. Nth(1) = "none" /\ Nth(2) = "none" /\ Nth(3) = "none"
    BY <1>3, <1>8
  <2>2. Ticked(hw) = TickedBy(TickedBy(TickedBy(hw, "none"), "none"), "none")
    BY <2>1 DEF Ticked
  <2>3. Ticked(hw) = [io |-> d, clint |-> c]
    BY <1>4, <2>2
  <2>4. QED BY <1>8, <2>3 DEF IoTicked, ClintTicked
<1>9. QED BY <1>5, <1>6, <1>7, <1>8

\* No tick takes the UART, the host's queue or the aggregator out of its states.
LEMMA UartTickTypes == ASSUME NEW d \in Device PROVE UartTick(d) \in Device
<1>1. CASE d.stdin # <<>>
  <2>1. d.stdin \in Seq(Byte)
    BY DEF Device
  <2>2. Head(d.stdin) \in Byte /\ Tail(d.stdin) \in Seq(Byte)
    BY <1>1, <2>1, HeadTailProperties
  <2>3. QED BY <2>2 DEF UartTick, Device
<1>2. QED BY <1>1 DEF UartTick

LEMMA IoTickTypes == ASSUME NEW d \in Device, NEW k \in 0 .. 3 PROVE IoTicked(d, k) \in Device
<1>1. ASSUME NEW e \in Device PROVE IrqAggTick(e) \in Device
  BY DEF IrqAggTick, Device
<1>2. UartTick(d) \in Device
  BY UartTickTypes
<1>3. QED BY <1>1, <1>2 DEF IoTicked

LEMMA ResetDevice == DevicesReset \in Device
<1>1. <<>> \in Seq(Byte)
  OBVIOUS
<1>2. QED BY <1>1 DEF DevicesReset, Device

\* Nor does a store.
LEMMA IoStoreTypes ==
  ASSUME NEW s \in Stores, NEW taken \in BOOLEAN, io \in Device
  PROVE  RegWrite(HwNow, s, taken).hw.io \in Device
<1>1. s.unit \in {"uart", "irq_agg", "clint"}
  BY DEF Stores, Store, RegsOf
<1>2. /\ Pop(io) \in Device
      /\ \A b \in BOOLEAN : ClearPending(io, b) \in Device /\ SetEnable(io, b) \in Device
  BY DEF Pop, ClearPending, SetEnable, Device
<1>3. \A b : Bit(s.value, b) \in BOOLEAN
  BY DEF Bit
<1>4. CASE s.unit = "uart"
  BY <1>2, <1>4 DEF RegWrite, UartWrite, Prints, Accepted, Refused, HwNow
<1>5. CASE s.unit = "irq_agg"
  BY <1>2, <1>3, <1>5 DEF RegWrite, IrqAggWrite, Accepted, Refused, HwNow
<1>6. CASE s.unit = "clint"
  BY <1>6 DEF RegWrite, ClintWrite, Accepted, Refused, HwNow
<1>7. QED BY <1>1, <1>4, <1>5, <1>6

LEMMA DevicesStep == InsideInv /\ io \in Device /\ [SocNext]_vars => io' \in Device
<1> SUFFICES ASSUME InsideInv, io \in Device, [SocNext]_vars PROVE io' \in Device
  OBVIOUS
<1>1. ASSUME io' = [DevicesReset EXCEPT !.stdin = io.stdin] PROVE io' \in Device
  BY <1>1, ResetDevice DEF Device
<1>2. CASE Destructs
  BY <1>1, <1>2 DEF Destructs, FreshDevices
<1>3. CASE Construction /\ ~Destructs
  BY <1>1, <1>3 DEF Construction, InitStarts, Allocates, ConstructsDevices, FreshDevices,
                    FindsNoMemory, AddsTickables, LoadsElf, RefusesElf
<1>4. CASE Teardown /\ ~Destructs
  BY <1>4, ResetDevice DEF Teardown, Fini, Exit
<1>5. CASE SocTick
  <2>1. PICK k \in 0 .. 3 : tickables = SubSeq(AllTickables, k + 1, 3)
    BY DEF InsideInv
  <2>2. Ticked(HwNow) = [io |-> IoTicked(io, k), clint |-> ClintTicked(clint, k)]
    BY <2>1, TickedParts DEF HwNow
  <2>3. io' = IoTicked(io, k)
    BY <1>5, <2>2 DEF SocTick, BecomesHw
  <2>4. QED BY <2>3, IoTickTypes
<1>6. CASE Writes
  BY <1>6, IoStoreTypes DEF Writes, BecomesHw
<1>7. CASE HostTypes
  <2>1. PICK b \in Byte : io' = [io EXCEPT !.stdin = <<b>>]
    BY <1>7 DEF HostTypes
  <2>2. <<b>> \in Seq(Byte)
    OBVIOUS
  <2>3. QED BY <2>1, <2>2 DEF Device
<1>8. QED
  BY <1>2, <1>3, <1>4, <1>5, <1>6, <1>7
  DEF SocNext, Operation, TimerRuns, HeapRuns, TextRuns, vars, socVars

\* A setting that is stored again and a tick: the order does not matter, the second
\* store finds nothing to do, and no other register shows the store.
LEMMA EnableCommutes ==
  ASSUME NEW d \in Device, NEW k \in 0 .. 3, NEW b \in BOOLEAN
  PROVE  /\ IoTicked(SetEnable(d, b), k) = SetEnable(IoTicked(d, k), b)
         /\ SetEnable(SetEnable(d, b), b) = SetEnable(d, b)
<1>1. \A e \in Device :
        /\ IrqAggTick(SetEnable(e, b)) = SetEnable(IrqAggTick(e), b)
        /\ UartTick(SetEnable(e, b)) = SetEnable(UartTick(e), b)
        /\ SetEnable(SetEnable(e, b), b) = SetEnable(e, b)
  BY DEF IrqAggTick, UartTick, SetEnable, Device
<1>2. UartTick(d) \in Device
  BY UartTickTypes
<1>3. QED BY <1>1, <1>2 DEF IoTicked

LEMMA SettingCommutes ==
  ASSUME NEW c \in ClintState, NEW k \in 0 .. 3, NEW v \in Half,
         NEW reg \in {"MSIP", "MTIMECMP_LO", "MTIMECMP_HI"}
  PROVE  /\ ClintTicked(ClintStored(c, reg, v), k) = ClintStored(ClintTicked(c, k), reg, v)
         /\ ClintStored(ClintStored(c, reg, v), reg, v) = ClintStored(c, reg, v)
<1> DEFINE is(m, t, h, l) == [msip |-> m, mtime |-> t, mtimecmp |-> [hi |-> h, lo |-> l]]
<1>1. PICK m, t, h, l : c = is(m, t, h, l)
  <2>1. c = [msip |-> c.msip, mtime |-> c.mtime, mtimecmp |-> c.mtimecmp] /\ c.mtimecmp \in Time
    BY DEF ClintState
  <2>2. c.mtimecmp = [hi |-> c.mtimecmp.hi, lo |-> c.mtimecmp.lo]
    BY <2>1 DEF Time
  <2>3. c = is(c.msip, c.mtime, c.mtimecmp.hi, c.mtimecmp.lo)
    BY <2>1, <2>2
  <2>4. QED BY <2>3
<1>2. \A m1, t1, h1, l1 :
        /\ ClintStored(is(m1, t1, h1, l1), "MSIP", v) = is(v % 2 = 1, t1, h1, l1)
        /\ ClintStored(is(m1, t1, h1, l1), "MTIMECMP_LO", v) = is(m1, t1, h1, v)
        /\ ClintStored(is(m1, t1, h1, l1), "MTIMECMP_HI", v) = is(m1, t1, v, l1)
        /\ ClintTick(is(m1, t1, h1, l1)) = is(m1, Later(t1), h1, l1)
  BY DEF ClintStored, ClintTick
<1> HIDE DEF is
<1>3. CASE reg = "MSIP"
  <2>1. /\ ClintStored(c, reg, v) = is(v % 2 = 1, t, h, l)
        /\ ClintTick(c) = is(m, Later(t), h, l)
    BY <1>1, <1>2, <1>3
  <2>2. QED BY <1>2, <1>3, <2>1 DEF ClintTicked
<1>4. CASE reg = "MTIMECMP_LO"
  <2>1. ClintStored(c, reg, v) = is(m, t, h, v) /\ ClintTick(c) = is(m, Later(t), h, l)
    BY <1>1, <1>2, <1>4
  <2>2. QED BY <1>2, <1>4, <2>1 DEF ClintTicked
<1>5. CASE reg = "MTIMECMP_HI"
  <2>1. ClintStored(c, reg, v) = is(m, t, v, l) /\ ClintTick(c) = is(m, Later(t), h, l)
    BY <1>1, <1>2, <1>5
  <2>2. QED BY <1>2, <1>5, <2>1 DEF ClintTicked
<1>6. QED BY <1>3, <1>4, <1>5

\* What the registers of a CLINT show after a store.
LEMMA SettingShows ==
  ASSUME NEW c \in ClintState, NEW v \in Half, NEW reg \in {"MSIP", "MTIMECMP_LO", "MTIMECMP_HI"}
  PROVE  /\ ClintValue(ClintStored(c, reg, v), reg) = IF reg = "MSIP" THEN v % 2 ELSE v
         /\ \A r \in ClintReg \ {reg} : ClintValue(ClintStored(c, reg, v), r) = ClintValue(c, r)
<1>1. c.mtimecmp \in Time /\ v \in Nat
  BY HalfModAssumption DEF ClintState, Half
<1>2. v % 2 = 1 \/ v % 2 = 0
  BY <1>1
<1>3. CASE reg = "MSIP"
  BY <1>1, <1>2, <1>3 DEF ClintStored, ClintValue, ClintReg, ClintState
<1>4. CASE reg = "MTIMECMP_LO"
  BY <1>1, <1>4 DEF ClintStored, ClintValue, ClintReg, ClintState, Time
<1>5. CASE reg = "MTIMECMP_HI"
  BY <1>1, <1>5 DEF ClintStored, ClintValue, ClintReg, ClintState, Time
<1>6. QED BY <1>3, <1>4, <1>5

\* What the registers of the other two show after a store to ENABLE.
LEMMA EnableShows ==
  ASSUME NEW d \in Device, NEW b \in BOOLEAN
  PROVE  /\ IrqAggRead(SetEnable(d, b), "ENABLE", 4) = Answer(IF b THEN 1 ELSE 0)
         /\ \A r \in RegsOf["irq_agg"] \ {"ENABLE"} : \A width :
              IrqAggRead(SetEnable(d, b), r, width) = IrqAggRead(d, r, width)
         /\ \A r, width : UartRead(SetEnable(d, b), r, width) = UartRead(d, r, width)
<1>1. /\ SetEnable(d, b).pending = d.pending /\ SetEnable(d, b).rx_valid = d.rx_valid
      /\ SetEnable(d, b).rx_byte = d.rx_byte /\ SetEnable(d, b).enable = b
  BY DEF SetEnable, Device
<1>2. RegsOf["irq_agg"] \ {"ENABLE"} = {"PENDING", "none"}
  BY DEF RegsOf
<1> DEFINE e == SetEnable(d, b)
<1> HIDE DEF e
<1>3. e.pending = d.pending /\ e.rx_valid = d.rx_valid /\ e.rx_byte = d.rx_byte /\ e.enable = b
  BY <1>1 DEF e
<1>4. IrqAggRead(e, "ENABLE", 4) = Answer(IF b THEN 1 ELSE 0)
  BY <1>3 DEF IrqAggRead
<1>5. \A r \in {"PENDING", "none"} : \A width : IrqAggRead(e, r, width) = IrqAggRead(d, r, width)
  BY <1>3 DEF IrqAggRead
<1>6. \A r, width : UartRead(e, r, width) = UartRead(d, r, width)
  BY <1>3 DEF UartRead, Status, RxData
<1>7. QED BY <1>2, <1>4, <1>5, <1>6 DEF e

\* A read reaches the device of its unit.
LEMMA ReadsOfUnits ==
  ASSUME NEW hw, NEW reg, NEW width
  PROVE  /\ RegRead(hw, "uart", reg, width) = UartRead(hw.io, reg, width)
         /\ RegRead(hw, "irq_agg", reg, width) = IrqAggRead(hw.io, reg, width)
         /\ RegRead(hw, "clint", reg, width) = ClintRead(hw.clint, reg, width)
  BY DEF RegRead

\* What SafeToRepeat says of one store to one setting.
LEMMA RepeatIsNothing ==
  ASSUME NEW k \in 0 .. 3, tickables = SubSeq(AllTickables, k + 1, 3),
         io \in Device, clint \in ClintState,
         NEW s \in Stores, s.reg \in Settings, WordTakes(s)
  PROVE  LET after == Ticked(RegWrite(HwNow, s, TRUE).hw)
         IN  /\ RegWrite(after, s, TRUE).hw = after
             /\ RegRead(after, s.unit, s.reg, 4) = Answer(Kept(s))
             /\ \A u \in DOMAIN RegsOf : \A r \in RegsOf[u] \ {s.reg} : \A width \in Widths :
                  RegRead(after, u, r, width) = RegRead(Ticked(HwNow), u, r, width)
<1> DEFINE after == Ticked(RegWrite(HwNow, s, TRUE).hw)
           without == Ticked(HwNow)
           is(d, c) == [io |-> d, clint |-> c]
           d0 == IoTicked(io, k)
           c0 == ClintTicked(clint, k)
<1>1. /\ s.value \in Half /\ s.value \in Nat /\ s.unit \in DOMAIN RegsOf
      /\ s.reg \in RegsOf[s.unit] /\ DOMAIN RegsOf = {"uart", "irq_agg", "clint"}
  BY HalfModAssumption DEF Stores, Store, Half, RegsOf
<1>0. \A r, d, c : r = is(d, c) => r.io = d /\ r.clint = c
  OBVIOUS
<1>2. without.io = d0 /\ without.clint = c0
  <2>1. without = is(d0, c0)
    BY TickedParts DEF HwNow
  <2> HIDE DEF without, is, d0, c0
  <2>2. QED BY <1>0, <2>1
<1>3. d0 \in Device /\ c0 \in ClintState
  BY IoTickTypes, TickTypes DEF ClintTicked
<1>4. CASE s.reg = "ENABLE"
  <2> DEFINE b == Bit(s.value, 0)
             e0 == SetEnable(d0, b)
  <2>1. s.unit = "irq_agg" /\ b \in BOOLEAN
    BY <1>1, <1>4 DEF RegsOf, ClintReg, Bit
  <2>2. \A x, y : RegWrite(is(x, y), s, TRUE).hw = is(SetEnable(x, b), y)
    BY <1>4, <2>1 DEF RegWrite, IrqAggWrite, Accepted
  <2>3. after = is(e0, c0)
    <3>1. RegWrite(HwNow, s, TRUE).hw = is(SetEnable(io, b), clint)
      BY <2>2 DEF HwNow
    <3>2. Ticked(is(SetEnable(io, b), clint)) = is(IoTicked(SetEnable(io, b), k), c0)
      BY TickedParts
    <3>3. QED BY <2>1, <3>1, <3>2, EnableCommutes
  <2>4. SetEnable(e0, b) = e0
    BY <1>3, <2>1, EnableCommutes
  <2>5. /\ IrqAggRead(e0, "ENABLE", 4) = Answer(IF b THEN 1 ELSE 0)
        /\ \A r \in RegsOf["irq_agg"] \ {"ENABLE"} : \A width :
             IrqAggRead(e0, r, width) = IrqAggRead(d0, r, width)
        /\ \A r, width : UartRead(e0, r, width) = UartRead(d0, r, width)
    BY <1>3, <2>1, EnableShows
  <2>6. (IF b THEN 1 ELSE 0) = Kept(s)
    <3>1. 2 ^ 0 = 1
      OBVIOUS
    <3>2. s.value % 2 \in {0, 1} /\ (b <=> s.value % 2 = 1)
      BY <1>1, <3>1 DEF Bit
    <3>3. QED BY <1>4, <3>2 DEF Kept
  <2>7. after.io = e0 /\ after.clint = c0
    <3> HIDE DEF after, is, e0, c0
    <3>1. QED BY <1>0, <2>3
  <2> HIDE DEF after, without, d0, c0, e0, b
  <2>8. RegWrite(after, s, TRUE).hw = after
    BY <2>2, <2>3, <2>4
  <2>9. RegRead(after, s.unit, s.reg, 4) = Answer(Kept(s))
    BY <1>4, <2>1, <2>5, <2>6, <2>7, ReadsOfUnits
  <2>10. \A u \in DOMAIN RegsOf : \A r \in RegsOf[u] \ {s.reg} : \A width \in Widths :
           RegRead(after, u, r, width) = RegRead(without, u, r, width)
    BY <1>1, <1>2, <1>4, <2>5, <2>7, ReadsOfUnits
  <2>11. QED BY <2>8, <2>9, <2>10 DEF after, without
<1>5. CASE s.reg \in {"MSIP", "MTIMECMP_LO", "MTIMECMP_HI"}
  <2> DEFINE f0 == ClintStored(c0, s.reg, s.value)
  <2>1. s.unit = "clint" /\ s.reg \in ClintReg
    BY <1>1, <1>5 DEF RegsOf, ClintReg
  <2>2. \A x, y : RegWrite(is(x, y), s, TRUE).hw = is(x, ClintStored(y, s.reg, s.value))
    BY <2>1 DEF RegWrite, ClintWrite, Accepted
  <2>3. after = is(d0, f0)
    <3>1. RegWrite(HwNow, s, TRUE).hw = is(io, ClintStored(clint, s.reg, s.value))
      BY <2>2 DEF HwNow
    <3>2. Ticked(is(io, ClintStored(clint, s.reg, s.value)))
            = is(d0, ClintTicked(ClintStored(clint, s.reg, s.value), k))
      BY TickedParts
    <3>3. QED BY <1>1, <1>5, <3>1, <3>2, SettingCommutes
  <2>4. ClintStored(f0, s.reg, s.value) = f0
    BY <1>1, <1>3, <1>5, SettingCommutes
  <2>5. /\ ClintValue(f0, s.reg) = Kept(s)
        /\ \A r \in ClintReg \ {s.reg} : ClintValue(f0, r) = ClintValue(c0, r)
    BY <1>1, <1>3, <1>5, SettingShows DEF Kept
  <2>6. after.io = d0 /\ after.clint = f0
    <3> HIDE DEF after, is, d0, f0
    <3>1. QED BY <1>0, <2>3
  <2> HIDE DEF after, without, d0, c0
  <2>7. RegWrite(after, s, TRUE).hw = after
    BY <2>2, <2>3, <2>4
  <2> HIDE DEF f0
  <2>8. RegRead(after, s.unit, s.reg, 4) = Answer(Kept(s))
    BY <2>1, <2>5, <2>6, ReadsOfUnits DEF ClintRead
  <2>9. \A u \in DOMAIN RegsOf : \A r \in RegsOf[u] \ {s.reg} : \A width \in Widths :
          RegRead(after, u, r, width) = RegRead(without, u, r, width)
    BY <1>1, <1>2, <2>5, <2>6, ReadsOfUnits DEF ClintRead
  <2>10. QED BY <2>7, <2>8, <2>9 DEF after, without
<1>6. QED BY <1>4, <1>5 DEF Settings

\* Wherever a program is: a store to a setting that the core executes again after a
\* tick does nothing, reads as it was stored and shows in no other register.
THEOREM SettingsAreRepeatable == SocSpec => []SafeToRepeat
<1>1. SocInit => InsideInv /\ io \in Device
  BY InsideInvInit, ResetDevice DEF SocInit
<1>2. InsideInv /\ io \in Device /\ [SocNext]_vars => (InsideInv /\ io \in Device)'
  BY InsideInvStep, DevicesStep
<1>3. InsideInv /\ io \in Device => SafeToRepeat
  <2> SUFFICES ASSUME InsideInv, io \in Device PROVE SafeToRepeat
    OBVIOUS
  <2>1. clint \in ClintState /\ \E k \in 0 .. 3 : tickables = SubSeq(AllTickables, k + 1, 3)
    BY DEF InsideInv, TimerTypeOK
  <2>2. QED BY <2>1, RepeatIsNothing DEF SafeToRepeat
<1>4. QED BY <1>1, <1>2, <1>3, PTL DEF SocSpec

\* The types, for every width of a register, heap, keyboard and set of deadlines.
THEOREM SocTypesHold == SocSpec => []SocTypeOK
<1> DEFINE Inv == /\ InsideInv /\ LeakInv /\ TerminalInv /\ HeapInv
                  /\ io \in Device /\ software \in Programs /\ g_soc \in BOOLEAN
<1>1. SocInit => Inv
  <2>1. SocInit => HeapInv
    BY HeapInvInit DEF SocInit
  <2>2. QED BY <2>1, InsideInvInit, ResetDevice, LeakInvInit, TerminalInvInit DEF SocInit, Programs
<1>2. Inv /\ [SocNext]_vars => Inv'
  <2>1. /\ software \in Programs /\ [SocNext]_vars => software' \in Programs
        /\ g_soc \in BOOLEAN /\ [SocNext]_vars => g_soc' \in BOOLEAN
    BY DEF SocNext, Construction, Teardown, Operation, InitStarts, Allocates, ConstructsDevices,
           FindsNoMemory, AddsTickables, LoadsElf, RefusesElf, Fini, Exit, Destructs, Program,
           SocTick, TimerRuns, Writes, HeapRuns, TextRuns, HostTypes, Programs, vars, socVars
  <2>2. QED BY <2>1, InsideInvStep, DevicesStep, LeakInvStep, TerminalInvStep, SocHeapStep
<1>3. Inv => SocTypeOK
  <2>1. Inv => blocks \in [Kinds -> 0 .. 1]
    BY DEF LeakInv
  <2>2. QED BY <2>1 DEF SocTypeOK, InsideInv, LeakInv, TerminalInv, HeapInv
<1>4. QED BY <1>1, <1>2, <1>3, PTL DEF SocSpec

-----------------------------------------------------------------------------
(* The string functions.                                                    *)

\* The order of the natural numbers, as a relation.
Less == {ss \in Nat \X Nat : ss[1] < ss[2]}

\* Every set of numbers that is not empty has a least element.
LEMMA LeastNumber == \A T \in SUBSET Nat : T # {} => \E m \in T : \A n \in T : ~ (n < m)
<1> SUFFICES ASSUME NEW T \in SUBSET Nat, T # {} PROVE \E m \in T : \A n \in T : ~ (n < m)
  OBVIOUS
<1>1. IsWellFoundedOn(Less, Nat)
  BY NatLessThanWellFounded DEF OpToRel, Less
<1>2. PICK m \in T : \A n \in T : ~ (<<n, m>> \in Less)
  BY <1>1, WFMin
<1>3. \A n \in T : n < m => <<n, m>> \in Less
  BY DEF Less
<1>4. QED BY <1>2, <1>3, Zenon

\* The strings of the library: no zero inside.
CString == Seq(CByte \ {0})

\* What the loops find there: bytes up to the end, zero behind it.
Reads(a) ==
  /\ Len(a) \in Nat
  /\ \A i \in 1 .. Len(a) : a[i] \in Nat /\ a[i] > 0 /\ ByteAt(a, i) = a[i]
  /\ \A i \in Nat : i > Len(a) => ByteAt(a, i) = 0
  /\ \A i \in Nat \ {0} : ByteAt(a, i) \in Nat

LEMMA Bytes == ASSUME NEW a \in CString PROVE Reads(a)
  BY CharAssumption DEF CString, CByte, ByteAt, Reads

\* The same of one index.
LEMMA ByteThere ==
  ASSUME NEW a \in CString, NEW i \in Nat \ {0}
  PROVE  /\ ByteAt(a, i) \in Nat
         /\ i <= Len(a) <=> ByteAt(a, i) > 0
         /\ i <= Len(a) => a[i] = ByteAt(a, i)
         /\ i > Len(a) => ByteAt(a, i) = 0
<1>1. Reads(a)
  BY Bytes
<1>2. CASE i <= Len(a)
  <2>1. i \in 1 .. Len(a)
    BY <1>1, <1>2 DEF Reads
  <2>2. QED BY <1>1, <1>2, <2>1 DEF Reads
<1>3. CASE ~ (i <= Len(a))
  BY <1>1, <1>3 DEF Reads
<1>4. QED BY <1>2, <1>3

\* Both strings go on at i, and with the same byte.
GoesOn(a, b, i) == ByteAt(a, i) # 0 /\ ByteAt(a, i) = ByteAt(b, i)

\* The loop over two strings stops at s and not before.
Stops(a, b, s) == s \in Nat \ {0} /\ ~GoesOn(a, b, s) /\ \A i \in 1 .. s - 1 : GoesOn(a, b, i)

\* The function that the loop computes has a value: where the first stop from i on is.
LoopFrom(a, b, f) ==
  f = [i \in 1 .. Len(a) + 1 |-> IF GoesOn(a, b, i) THEN f[i + 1] ELSE i]

LEMMA LoopExists == ASSUME NEW a \in CString, NEW b \in CString PROVE \E f : LoopFrom(a, b, f)
<1> DEFINE N == Len(a) + 1
           Breaks(i) == {j \in i .. N : ~GoesOn(a, b, j)}
           First(i, m) == m \in Breaks(i) /\ \A n \in Breaks(i) : ~ (n < m)
           f == [i \in 1 .. N |-> CHOOSE m : First(i, m)]
<1>1. N \in Nat \ {0} /\ ~GoesOn(a, b, N)
  BY Bytes DEF GoesOn, Reads
<1> HIDE DEF N
<1>2. ASSUME NEW i \in 1 .. N PROVE First(i, f[i]) /\ \A m : First(i, m) => m = f[i]
  <2>1. Breaks(i) \in SUBSET Nat /\ N \in Breaks(i)
    BY <1>1
  <2>2. PICK m : First(i, m)
    <3> HIDE DEF Breaks
    <3>1. QED BY <2>1, LeastNumber
  <2>3. First(i, f[i])
    <3> HIDE DEF First
    <3>1. QED BY <2>2
  <2>4. \A m1, m2 : First(i, m1) /\ First(i, m2) => m1 = m2
    <3> SUFFICES ASSUME NEW m1, NEW m2, First(i, m1), First(i, m2) PROVE m1 = m2
      OBVIOUS
    <3>1. m1 \in Nat /\ m2 \in Nat /\ ~ (m1 < m2) /\ ~ (m2 < m1)
      BY <2>1
    <3>2. QED BY <3>1
  <2> HIDE DEF First, f
  <2>5. QED BY <2>3, <2>4
<1>3. ASSUME NEW i \in 1 .. N PROVE f[i] = IF GoesOn(a, b, i) THEN f[i + 1] ELSE i
  <2>1. CASE GoesOn(a, b, i)
    <3>1. i + 1 \in 1 .. N /\ Breaks(i) = Breaks(i + 1)
      <4>1. i # N /\ i \in Nat
        BY <1>1, <2>1
      <4>2. i + 1 \in 1 .. N /\ \A j \in i .. N : j = i \/ j \in i + 1 .. N
        BY <1>1, <4>1
      <4>3. i + 1 .. N \subseteq i .. N
        BY <1>1, <4>1
      <4>4. QED BY <2>1, <4>2, <4>3
    <3>2. First(i + 1, f[i + 1])
      BY <1>2, <3>1
    <3>3. First(i, f[i + 1])
      BY <3>1, <3>2
    <3> HIDE DEF First, f
    <3>4. QED BY <1>2, <2>1, <3>3
  <2>2. CASE ~GoesOn(a, b, i)
    <3>1. First(i, i)
      BY <1>1, <2>2
    <3> HIDE DEF First, f
    <3>2. QED BY <1>2, <2>2, <3>1
  <2>3. QED BY <2>1, <2>2
<1>4. f = [i \in 1 .. N |-> IF GoesOn(a, b, i) THEN f[i + 1] ELSE i]
  <2>1. f = [i \in 1 .. N |-> f[i]]
    OBVIOUS
  <2> HIDE DEF f
  <2>2. QED BY <1>3, <2>1
<1> HIDE DEF f
<1>5. LoopFrom(a, b, f)
  BY <1>4 DEF LoopFrom, N
<1>6. QED BY <1>5

\* The index that strcmp compares at is where the strings stop to agree.
LEMMA FirstDifferenceStops ==
  ASSUME NEW a \in CString, NEW b \in CString
  PROVE  Stops(a, b, FirstDifference(a, b))
<1> DEFINE N == Len(a) + 1
           Walk == CHOOSE f : LoopFrom(a, b, f)
<1>1. FirstDifference(a, b) = Walk[1]
  BY DEF FirstDifference, LoopFrom, GoesOn
<1>2. LoopFrom(a, b, Walk)
  <2>1. PICK f : LoopFrom(a, b, f)
    BY LoopExists
  <2>2. QED BY <2>1
<1> HIDE DEF Walk
<1>3. \A i \in 1 .. N : Walk[i] = IF GoesOn(a, b, i) THEN Walk[i + 1] ELSE i
  BY <1>2 DEF LoopFrom
<1>4. N \in Nat \ {0} /\ ~GoesOn(a, b, N)
  BY Bytes DEF GoesOn, Reads
<1> HIDE DEF N
<1> DEFINE Breaks == {j \in 1 .. N : ~GoesOn(a, b, j)}
<1>5. PICK s \in Breaks : \A n \in Breaks : ~ (n < s)
  <2>1. Breaks \in SUBSET Nat /\ Breaks # {}
    BY <1>4
  <2> HIDE DEF Breaks
  <2>2. QED BY <2>1, LeastNumber
<1>6. s \in 1 .. N /\ s \in Nat \ {0} /\ \A i \in 1 .. s - 1 : i \in 1 .. N /\ GoesOn(a, b, i)
  <2>1. s \in 1 .. N
    OBVIOUS
  <2>2. ASSUME NEW i \in 1 .. s - 1 PROVE i \in 1 .. N /\ i < s
    BY <1>4, <2>1
  <2>3. \A i \in 1 .. s - 1 : GoesOn(a, b, i)
    BY <1>5, <2>2
  <2>4. QED BY <1>4, <2>1, <2>2, <2>3
<1>7. Stops(a, b, s)
  BY <1>6 DEF Stops
<1> DEFINE Off == {d \in 0 .. s - 1 : Walk[s - d] # s}
<1>8. Off = {}
  <2> SUFFICES ASSUME Off # {} PROVE FALSE
    OBVIOUS
  <2>1. PICK m \in Off : \A n \in Off : ~ (n < m)
    <3>1. Off \in SUBSET Nat
      BY <1>6
    <3> HIDE DEF Off
    <3>2. QED BY <3>1, LeastNumber
  <2>2. m \in 0 .. s - 1 /\ Walk[s - m] # s
    OBVIOUS
  <2>3. Walk[s] = s
    BY <1>3, <1>6, <1>7 DEF Stops
  <2>4. m # 0
    BY <1>6, <2>2, <2>3
  <2>5. m - 1 \in 0 .. s - 1 /\ m - 1 < m /\ s - m \in 1 .. s - 1 /\ s - (m - 1) = (s - m) + 1
    BY <1>6, <2>2, <2>4
  <2>6. Walk[(s - m) + 1] = s
    BY <2>1, <2>5
  <2>7. Walk[s - m] = Walk[(s - m) + 1]
    BY <1>3, <1>6, <2>5
  <2>8. QED BY <2>2, <2>6, <2>7
<1>9. Walk[1] = s
  <2>1. s - 1 \in 0 .. s - 1 /\ s - (s - 1) = 1
    BY <1>6
  <2>2. QED BY <1>8, <2>1
<1>10. QED BY <1>1, <1>7, <1>9

\* Where the loop stops the order of the strings is decided.
LEMMA StopDecides ==
  ASSUME NEW a \in CString, NEW b \in CString, NEW s, Stops(a, b, s)
  PROVE  /\ s - 1 <= Len(a) /\ s - 1 <= Len(b)
         /\ \A i \in 1 .. s - 1 : a[i] = b[i]
         /\ Precedes(a, b) <=> ByteAt(a, s) < ByteAt(b, s)
<1>1. /\ s \in Nat \ {0} /\ s - 1 \in Nat /\ (s - 1) + 1 = s
      /\ Len(a) \in Nat /\ Len(b) \in Nat
  BY Bytes DEF Stops, Reads
<1>2. ASSUME NEW i \in 1 .. s - 1 PROVE i <= Len(a) /\ i <= Len(b) /\ a[i] = b[i]
  <2>1. i \in Nat \ {0} /\ GoesOn(a, b, i)
    BY <1>1 DEF Stops
  <2>2. ByteAt(a, i) \in Nat /\ ByteAt(a, i) # 0 /\ ByteAt(a, i) = ByteAt(b, i)
    BY <2>1, ByteThere DEF GoesOn
  <2>3. i <= Len(a) /\ a[i] = ByteAt(a, i)
    BY <2>1, <2>2, ByteThere
  <2>4. i <= Len(b) /\ b[i] = ByteAt(b, i)
    BY <2>1, <2>2, ByteThere, SMTT(30)
  <2>5. QED BY <2>2, <2>3, <2>4
<1>3. s - 1 <= Len(a) /\ s - 1 <= Len(b)
  <2>1. CASE s = 1
    BY <1>1, <2>1
  <2>2. CASE s # 1
    <3>1. s - 1 \in 1 .. s - 1
      BY <1>1, <2>2
    <3>2. QED BY <1>2, <3>1
  <2>3. QED BY <2>1, <2>2
<1>4. /\ ByteAt(a, s) \in Nat /\ ByteAt(b, s) \in Nat
      /\ s <= Len(a) => a[s] = ByteAt(a, s)
      /\ s <= Len(b) <=> ByteAt(b, s) > 0
      /\ s <= Len(b) => b[s] = ByteAt(b, s)
  BY <1>1, ByteThere
<1>5. ASSUME ByteAt(a, s) < ByteAt(b, s) PROVE Precedes(a, b)
  <2>1. s - 1 \in 0 .. Len(a)
    BY <1>1, <1>3
  <2>2. SubSeq(a, 1, s - 1) = SubSeq(b, 1, s - 1)
    <3>1. \A i \in 1 .. s - 1 : a[i] = b[i]
      BY <1>2
    <3>2. QED BY <1>1, <3>1 DEF SubSeq
  <2>3. s <= Len(b)
    BY <1>4, <1>5
  <2>4. \/ s - 1 = Len(a) /\ s - 1 < Len(b)
        \/ s - 1 < Len(a) /\ s - 1 < Len(b) /\ a[(s - 1) + 1] < b[(s - 1) + 1]
    <3>1. CASE s <= Len(a)
      BY <1>1, <1>4, <1>5, <2>3, <3>1
    <3>2. CASE ~ (s <= Len(a))
      BY <1>1, <1>3, <2>3, <3>2
    <3>3. QED BY <3>1, <3>2
  <2>5. QED BY <1>3, <2>1, <2>2, <2>4 DEF Precedes
<1>6. ASSUME Precedes(a, b) PROVE ByteAt(a, s) < ByteAt(b, s)
  <2>1. PICK k \in 0 .. Len(a) :
          /\ k <= Len(b) /\ SubSeq(a, 1, k) = SubSeq(b, 1, k)
          /\ \/ k = Len(a) /\ k < Len(b)
             \/ k < Len(a) /\ k < Len(b) /\ a[k + 1] < b[k + 1]
    BY <1>6 DEF Precedes
  <2>2. k \in Nat /\ k + 1 \in Nat \ {0} /\ k + 1 <= Len(b)
    BY <1>1, <2>1
  <2>3. ByteAt(a, k + 1) < ByteAt(b, k + 1)
    <3>1. b[k + 1] = ByteAt(b, k + 1) /\ ByteAt(b, k + 1) > 0
      BY <2>2, ByteThere
    <3>2. CASE k = Len(a)
      <4>1. ByteAt(a, k + 1) = 0
        BY <2>2, <3>2, ByteThere
      <4>2. QED BY <3>1, <4>1
    <3>3. CASE k < Len(a) /\ a[k + 1] < b[k + 1]
      <4>1. k + 1 <= Len(a)
        BY <1>1, <2>2, <3>3
      <4>2. a[k + 1] = ByteAt(a, k + 1)
        BY <2>2, <4>1, ByteThere
      <4>3. QED BY <3>1, <3>3, <4>2
    <3>4. QED BY <2>1, <3>2, <3>3
  <2>4. ASSUME NEW i \in 1 .. k PROVE GoesOn(a, b, i)
    <3>1. i \in Nat \ {0} /\ i <= Len(a) /\ i <= Len(b)
      BY <1>1, <2>1
    <3>2. SubSeq(a, 1, k)[i] = a[i] /\ SubSeq(b, 1, k)[i] = b[i]
      BY <2>2 DEF SubSeq
    <3>3. a[i] = b[i]
      BY <2>1, <3>2
    <3>4. ByteAt(a, i) > 0 /\ ByteAt(a, i) \in Nat /\ a[i] = ByteAt(a, i) /\ b[i] = ByteAt(b, i)
      BY <3>1, ByteThere
    <3>5. ByteAt(a, i) # 0
      BY <3>4
    <3>6. ByteAt(a, i) = ByteAt(b, i)
      BY <3>3, <3>4
    <3>7. QED BY <3>5, <3>6 DEF GoesOn
  <2>5. s = k + 1
    <3>1. ~GoesOn(a, b, k + 1)
      BY <2>2, <2>3, ByteThere DEF GoesOn
    <3>2. ~ (s < k + 1)
      BY <1>1, <2>2, <2>4 DEF Stops
    <3>3. ~ (k + 1 < s)
      BY <1>1, <2>2, <3>1 DEF Stops
    <3>4. QED BY <1>1, <2>2, <3>2, <3>3
  <2>6. QED BY <2>3, <2>5
<1>7. QED BY <1>2, <1>3, <1>5, <1>6

\* strcmp orders its strings.
LEMMA StrcmpOrders ==
  ASSUME NEW a \in CString, NEW b \in CString PROVE Orders(a, b, Strcmp(a, b))
<1> DEFINE s == FirstDifference(a, b)
<1>1. Stops(a, b, s)
  BY FirstDifferenceStops
<1> HIDE DEF s
<1>2. Stops(b, a, s)
  BY <1>1 DEF Stops, GoesOn
<1>3. /\ s \in Nat \ {0} /\ Len(a) \in Nat /\ Len(b) \in Nat
      /\ ByteAt(a, s) \in Nat /\ ByteAt(b, s) \in Nat
      /\ s <= Len(a) <=> ByteAt(a, s) > 0
      /\ s <= Len(b) <=> ByteAt(b, s) > 0
  BY <1>1, Bytes, ByteThere DEF Stops, Reads
<1>4. Strcmp(a, b) = ByteAt(a, s) - ByteAt(b, s)
  BY DEF Strcmp, s
<1>5. Precedes(a, b) <=> ByteAt(a, s) < ByteAt(b, s)
  BY <1>1, StopDecides
<1>6. Precedes(b, a) <=> ByteAt(b, s) < ByteAt(a, s)
  BY <1>2, StopDecides
<1>7. ByteAt(a, s) = ByteAt(b, s) => a = b
  <2> SUFFICES ASSUME ByteAt(a, s) = ByteAt(b, s) PROVE a = b
    OBVIOUS
  <2>1. ByteAt(a, s) = 0 /\ ByteAt(b, s) = 0
    BY <1>1 DEF Stops, GoesOn
  <2>2. s - 1 <= Len(a) /\ s - 1 <= Len(b) /\ \A i \in 1 .. s - 1 : a[i] = b[i]
    BY <1>1, StopDecides
  <2>3. Len(a) = s - 1 /\ Len(b) = s - 1
    BY <1>3, <2>1, <2>2
  <2>4. QED BY <2>2, <2>3, SeqEqual DEF CString
<1>8. QED BY <1>3, <1>4, <1>5, <1>6, <1>7 DEF Orders

\* strncpy writes its n bytes and no other.
LEMMA StrncpyCopies ==
  ASSUME NEW dst \in Seq(CByte), NEW src \in CString, NEW n \in 0 .. Len(dst)
  PROVE  Copies(dst, src, n, Strncpy(dst, src, n))
<1> DEFINE r == Strncpy(dst, src, n)
           kept == IF Len(src) < n THEN Len(src) ELSE n
<1>0. Reads(src)
  BY Bytes
<1>1. Len(dst) \in Nat /\ Len(src) \in Nat /\ n \in Nat /\ DOMAIN dst = 1 .. Len(dst)
  BY DEF CString
<1>2. kept \in Nat /\ kept <= n /\ kept <= Len(src)
  BY <1>1
<1>3. \A i \in 1 .. Len(dst) : r[i] = IF i <= n THEN ByteAt(src, i) ELSE dst[i]
  BY <1>1 DEF Strncpy
<1>4. Len(r) = Len(dst)
  <2>1. DOMAIN r = 1 .. Len(dst)
    BY <1>1 DEF Strncpy
  <2>2. QED BY <1>1, <2>1
<1> HIDE DEF r
<1>5. SubSeq(r, 1, kept) = SubSeq(src, 1, kept)
  <2>1. \A i \in 1 .. kept : r[i] = src[i]
    BY <1>1, <1>2, <1>3, <1>0 DEF Reads
  <2> HIDE DEF kept
  <2>2. QED BY <1>2, <2>1 DEF SubSeq
<1>6. \A i \in kept + 1 .. n : r[i] = 0
  BY <1>1, <1>3, <1>0 DEF Reads
<1>7. \A i \in n + 1 .. Len(dst) : r[i] = dst[i]
  BY <1>1, <1>3
<1>8. QED BY <1>4, <1>5, <1>6, <1>7 DEF Copies, r

\* A call that has an answer was made with C strings.
CallInv == call.fn \in {"strcmp", "strncpy"} => call \in Strcmps \cup Strncpys

LEMMA CallInvStep == CallInv /\ [SocNext]_vars => CallInv'
<1> SUFFICES ASSUME CallInv, [SocNext]_vars PROVE CallInv'
  OBVIOUS
<1>1. CASE call' = call
  BY <1>1 DEF CallInv, Strcmps, Strncpys
<1>2. CASE call' = NoCall
  BY <1>2 DEF CallInv, NoCall
<1>3. CASE Calls
  <2>1. CASE call' \in Printfs
    <3>1. call'.fn = "printf"
      BY <2>1 DEF Printfs
    <3>2. QED BY <3>1 DEF CallInv
  <2>2. CASE call' \in Strcmps \/ call' \in Strncpys
    BY <2>2 DEF CallInv, Strcmps, Strncpys
  <2>3. QED BY <1>3, <2>1, <2>2 DEF Calls
<1>4. call' = call \/ call' = NoCall \/ Calls
  BY DEF SocNext, Construction, Teardown, Operation, InitStarts, Allocates, ConstructsDevices,
         FindsNoMemory, AddsTickables, LoadsElf, RefusesElf, Fini, Exit, Destructs, Program,
         SocTick, TimerRuns, Writes, HeapRuns, TextRuns, HostTypes, Returns, vars
<1>5. QED BY <1>1, <1>2, <1>3, <1>4

\* Whatever strings a program compares and wherever it copies one to: strcmp orders
\* them by unsigned bytes, strncpy writes its n bytes and no other.
THEOREM StringsAreRight == SocSpec => []StringsAgree
<1>1. SocInit => CallInv
  BY DEF SocInit, CallInv, NoCall
<1>2. CallInv => StringsAgree
  <2> SUFFICES ASSUME CallInv PROVE StringsAgree
    OBVIOUS
  <2>1. CASE call \in Strcmps
    <3>1. PICK a \in CStrings, b \in CStrings :
            call = [fn |-> "strcmp", a |-> a, b |-> b, out |-> Strcmp(a, b)]
      BY <2>1 DEF Strcmps
    <3>2. call.fn = "strcmp" /\ call.a = a /\ call.b = b /\ call.out = Strcmp(a, b)
      BY <3>1
    <3>3. Orders(a, b, Strcmp(a, b))
      BY StrcmpOrders, StringsAssumption DEF CString
    <3>4. QED BY <3>2, <3>3 DEF StringsAgree
  <2>2. CASE call \in Strncpys
    <3>1. PICK s \in CStrings, n \in 0 .. Len(Buffer) :
            call = [fn |-> "strncpy", src |-> s, n |-> n, out |-> Strncpy(Buffer, s, n)]
      BY <2>2 DEF Strncpys
    <3>2. call.fn = "strncpy" /\ call.src = s /\ call.n = n /\ call.out = Strncpy(Buffer, s, n)
      BY <3>1
    <3>3. Copies(Buffer, s, n, Strncpy(Buffer, s, n))
      BY StrncpyCopies, StringsAssumption DEF CString
    <3>4. QED BY <3>2, <3>3 DEF StringsAgree
  <2>3. CASE call.fn \notin {"strcmp", "strncpy"}
    BY <2>3 DEF StringsAgree
  <2>4. QED BY <2>1, <2>2, <2>3 DEF CallInv
<1>3. QED BY <1>1, <1>2, CallInvStep, PTL DEF SocSpec

-----------------------------------------------------------------------------
(* The formatter: numbers.                                                  *)

\* What is right for 0 and, with a number, for the next one is right up to a bound.
LEMMA UpTo ==
  ASSUME NEW N \in Nat, NEW S, 0 \in S, \A n \in 1 .. N : n - 1 \in S => n \in S
  PROVE  0 .. N \subseteq S
<1>1. SUFFICES ASSUME (0 .. N) \ S # {} PROVE FALSE
  BY <1>1
<1>2. (0 .. N) \ S \in SUBSET Nat
  OBVIOUS
<1>3. PICK m \in (0 .. N) \ S : \A n \in (0 .. N) \ S : ~ (n < m)
  BY <1>1, <1>2, LeastNumber, Zenon
<1>4. m \in 1 .. N /\ m - 1 \in 0 .. N /\ m - 1 < m
  BY <1>3
<1>5. m - 1 \in S
  BY <1>3, <1>4
<1>6. QED BY <1>3, <1>4, <1>5

\* A recursion over the first N numbers with values in a set has a solution.
Solvable(N, V, base, step) ==
  \E f \in [0 .. N -> V] : f[0] = base /\ \A n \in 1 .. N : f[n] = step[n][f[n - 1]]

LEMMA RecursionExists ==
  ASSUME NEW N \in Nat, NEW V, NEW base \in V, NEW step \in [1 .. N -> [V -> V]]
  PROVE  Solvable(N, V, base, step)
<1> DEFINE Solves(f, m) ==
             f \in [0 .. m -> V] /\ f[0] = base /\ \A n \in 1 .. m : f[n] = step[n][f[n - 1]]
           Solved == {m \in 0 .. N : \E f : Solves(f, m)}
<1>1. 0 \in Solved
  <2>1. Solves([i \in 0 .. 0 |-> base], 0)
    OBVIOUS
  <2> HIDE DEF Solves
  <2>2. QED BY <2>1
<1>2. ASSUME NEW m \in 1 .. N, m - 1 \in Solved PROVE m \in Solved
  <2>1. PICK f : Solves(f, m - 1)
    BY <1>2
  <2> DEFINE g == [i \in 0 .. m |-> IF i = m THEN step[m][f[m - 1]] ELSE f[i]]
  <2>2. step[m] \in [V -> V] /\ m - 1 \in 0 .. m - 1 /\ f[m - 1] \in V /\
              \A i \in 0 .. m : i # m => i \in 0 .. m - 1
    BY <2>1
  <2>3. g \in [0 .. m -> V]
    BY <2>1, <2>2
  <2>4. \A n \in 1 .. m - 1 : f[n] = step[n][f[n - 1]]
    BY <2>1
  <2>5. \A n \in 1 .. m : g[n] = step[n][g[n - 1]]
    BY <2>2, <2>4
  <2>6. g[0] = base
    BY <2>1
  <2>7. Solves(g, m)
    BY <2>3, <2>5, <2>6, Zenon
  <2> HIDE DEF Solves, g
  <2>8. QED BY <2>7
<1>3. 0 .. N \subseteq Solved
  <2> HIDE DEF Solved
  <2>1. \A n \in 1 .. N : n - 1 \in Solved => n \in Solved
    BY <1>2
  <2>2. QED BY <1>1, <2>1, UpTo
<1>4. N \in Solved
  <2> HIDE DEF Solved
  <2>1. QED BY <1>3
<1>5. QED BY <1>4 DEF Solvable

\* Sixteen different characters.
LEMMA Digits ==
  /\ \A d \in 1 .. 16 : Digit[d] \in Char /\ DigitValue(Digit[d]) = d - 1
  /\ Digit[1] = "0" /\ \A d \in 2 .. 16 : Digit[d] # "0"
<1>1. DOMAIN Digit = 1 .. 16
  BY DEF Digit
<1>2. \A d, e \in 1 .. 16 : Digit[d] = Digit[e] => d = e
  BY DEF Digit
<1>3. Digit[1] = "0" /\ \A d \in 2 .. 16 : Digit[d] # "0"
  BY DEF Digit
<1>4. \A d \in 1 .. 16 : Digit[d] \in Char
  BY <1>1, TextAssumption DEF Range
<1>5. ASSUME NEW d \in 1 .. 16 PROVE DigitValue(Digit[d]) = d - 1
  <2> DEFINE e == CHOOSE e \in DOMAIN Digit : Digit[e] = Digit[d]
  <2>1. e \in 1 .. 16 /\ Digit[e] = Digit[d]
    BY <1>1
  <2>2. DigitValue(Digit[d]) = e - 1
    BY DEF DigitValue
  <2> HIDE DEF e
  <2>3. QED BY <1>2, <2>1, <2>2
<1>6. QED BY <1>3, <1>4, <1>5

\* The values of the first i digits, for every i.
PrefixValues(base, s, f) ==
  f = [i \in 0 .. Len(s) |-> IF i = 0 THEN 0 ELSE base * f[i - 1] + DigitValue(s[i])]

\* A sequence of digits.
Digitals(s) == s \in Seq(Char) /\ \A i \in 1 .. Len(s) : DigitValue(s[i]) \in Nat

\* They have values, and the last one is the number.
Reading(base, s, f) ==
  /\ f \in [0 .. Len(s) -> Nat]
  /\ f[0] = 0 /\ \A i \in 1 .. Len(s) : f[i] = base * f[i - 1] + DigitValue(s[i])
  /\ ReadBack(base, s) = f[Len(s)]

LEMMA ReadsBack ==
  ASSUME NEW base \in {10, 16}, NEW s, Digitals(s) PROVE \E f : Reading(base, s, f)
<1> DEFINE N == Len(s)
           step == [i \in 1 .. N |-> [n \in Nat |-> base * n + DigitValue(s[i])]]
           v == CHOOSE f : PrefixValues(base, s, f)
<1>1. N \in Nat
  BY DEF Digitals
<1>2. step \in [1 .. N -> [Nat -> Nat]]
  BY DEF Digitals
<1>3. PICK g \in [0 .. N -> Nat] : g[0] = 0 /\ \A i \in 1 .. N : g[i] = step[i][g[i - 1]]
  <2>1. Solvable(N, Nat, 0, step)
    <3> HIDE DEF N, step
    <3>1. QED BY <1>1, <1>2, RecursionExists
  <2>2. QED BY <2>1 DEF Solvable
<1>4. \A i \in 1 .. N : i - 1 \in 0 .. N /\ i \in 0 .. N /\ i # 0
  BY <1>1
<1>5. \A i \in 1 .. N : g[i] = base * g[i - 1] + DigitValue(s[i])
  BY <1>3, <1>4
<1> HIDE DEF N, step
<1>6. PrefixValues(base, s, g)
  <2>1. \A i \in 0 .. N : i # 0 => i \in 1 .. N
    BY <1>1
  <2>2. \A i \in 0 .. N : g[i] = IF i = 0 THEN 0 ELSE base * g[i - 1] + DigitValue(s[i])
    BY <1>3, <1>5, <2>1
  <2>3. g = [i \in 0 .. N |-> g[i]]
    BY <1>3
  <2>4. QED BY <2>2, <2>3 DEF PrefixValues, N
<1>7. PrefixValues(base, s, v)
  BY <1>6
<1>8. ReadBack(base, s) = v[N]
  BY DEF ReadBack, PrefixValues, N
<1> HIDE DEF v
<1>9. \A i \in 0 .. N : v[i] = IF i = 0 THEN 0 ELSE base * v[i - 1] + DigitValue(s[i])
  BY <1>7 DEF PrefixValues, N
<1>10. v \in [0 .. N -> Nat]
  <2> DEFINE T == {i \in 0 .. N : v[i] = g[i]}
  <2>1. 0 \in T
    BY <1>1, <1>3, <1>9
  <2>2. ASSUME NEW i \in 1 .. N, i - 1 \in T PROVE i \in T
    BY <1>4, <1>5, <1>9, <2>2
  <2>3. 0 .. N \subseteq T
    <3> HIDE DEF T
    <3>1. QED BY <1>1, <2>1, <2>2, UpTo
  <2>4. \A i \in 0 .. N : v[i] \in Nat
    BY <1>3, <2>3
  <2>5. v = [i \in 0 .. N |-> v[i]]
    BY <1>7 DEF PrefixValues, N
  <2>6. QED BY <2>4, <2>5
<1>11. v[0] = 0 /\ \A i \in 1 .. N : v[i] = base * v[i - 1] + DigitValue(s[i])
  BY <1>1, <1>4, <1>9
<1>12. Reading(base, s, v)
  BY <1>8, <1>10, <1>11 DEF N, Reading
<1>13. QED BY <1>12

\* One more digit.
LEMMA ReadBackAppend ==
  ASSUME NEW base \in {10, 16}, NEW s, Digitals(s), NEW c \in Char, DigitValue(c) \in Nat
  PROVE  /\ Digitals(Append(s, c)) /\ ReadBack(base, s) \in Nat
         /\ ReadBack(base, Append(s, c)) = base * ReadBack(base, s) + DigitValue(c)
<1> DEFINE N == Len(s)
           t == Append(s, c)
<1>1. /\ N \in Nat /\ t \in Seq(Char) /\ Len(t) = N + 1 /\ t[N + 1] = c
      /\ \A i \in 1 .. N : t[i] = s[i]
  BY DEF Digitals
<1> HIDE DEF t
<1>2. Digitals(t)
  <2>1. \A i \in 1 .. N + 1 : i \in 1 .. N \/ i = N + 1
    BY <1>1
  <2>2. QED BY <1>1, <2>1 DEF Digitals
<1>3. PICK f \in [0 .. N -> Nat] :
        /\ f[0] = 0 /\ \A i \in 1 .. N : f[i] = base * f[i - 1] + DigitValue(s[i])
        /\ ReadBack(base, s) = f[N]
  <2>1. \E f : Reading(base, s, f)
    BY ReadsBack
  <2>2. QED BY <2>1 DEF Reading
<1>4. PICK g \in [0 .. N + 1 -> Nat] :
        /\ g[0] = 0 /\ \A i \in 1 .. N + 1 : g[i] = base * g[i - 1] + DigitValue(t[i])
        /\ ReadBack(base, t) = g[N + 1]
  <2>1. \E g : Reading(base, t, g)
    BY <1>2, ReadsBack
  <2>2. QED BY <1>1, <2>1 DEF Reading
<1> HIDE DEF N
<1>5. f[N] = g[N]
  <2> DEFINE T == {i \in 0 .. N : f[i] = g[i]}
  <2>1. 0 \in T
    BY <1>1, <1>3, <1>4
  <2>2. ASSUME NEW i \in 1 .. N, i - 1 \in T PROVE i \in T
    <3>1. i \in 1 .. N + 1 /\ i \in 0 .. N /\ f[i - 1] = g[i - 1] /\ t[i] = s[i]
      BY <1>1, <2>2
    <3>2. QED BY <1>3, <1>4, <3>1
  <2>3. 0 .. N \subseteq T
    <3> HIDE DEF T
    <3>1. QED BY <1>1, <2>1, <2>2, UpTo
  <2>4. QED BY <1>1, <2>3
<1>6. N \in 0 .. N /\ N + 1 \in 1 .. N + 1 /\ (N + 1) - 1 = N
  BY <1>1
<1>7. g[N + 1] = base * g[N] + DigitValue(c)
  BY <1>1, <1>4, <1>6
<1>8. QED BY <1>2, <1>3, <1>4, <1>5, <1>6, <1>7 DEF t

\* The function that the recursion of the emitters defines.
Body(base, f, n) == Append(IF n >= base THEN f[n \div base] ELSE <<>>, Digit[(n % base) + 1])
Emits(base, f) == f = [n \in Unsigned |-> Body(base, f, n)]

LEMMA Quotient ==
  ASSUME NEW base \in {10, 16}, NEW n \in Nat
  PROVE  /\ n \div base \in Nat /\ n % base \in 0 .. base - 1
         /\ n = base * (n \div base) + (n % base)
         /\ n >= base => n \div base < n /\ n \div base > 0
         /\ n < base => n % base = n
<1>1. CASE base = 10
  BY <1>1
<1>2. CASE base = 16
  BY <1>2
<1>3. QED BY <1>1, <1>2

LEMMA EmitExists == ASSUME NEW base \in {10, 16} PROVE \E f : Emits(base, f)
<1> DEFINE Solves(f, m) ==
             /\ f = [n \in Unsigned |-> f[n]]
             /\ \A n \in Unsigned : n < m => f[n] = Body(base, f, n)
           Solved == {m \in 0 .. WordMod : \E f : Solves(f, m)}
<1>1. WordMod \in Nat /\ Unsigned \subseteq Nat /\ \A n \in Unsigned : n < WordMod
  BY WordAssumption DEF Unsigned
<1>2. 0 \in Solved
  <2> DEFINE g == [n \in Unsigned |-> <<>>]
  <2>1. g = [n \in Unsigned |-> g[n]]
    OBVIOUS
  <2> HIDE DEF g
  <2>2. Solves(g, 0)
    BY <1>1, <2>1
  <2> HIDE DEF Solves
  <2>3. QED BY <1>1, <2>2
<1>3. ASSUME NEW m \in 1 .. WordMod, m - 1 \in Solved PROVE m \in Solved
  <2>1. PICK f : Solves(f, m - 1)
    BY <1>3
  <2> DEFINE g == [n \in Unsigned |-> IF n = m - 1 THEN Body(base, f, n) ELSE f[n]]
  <2>2. g = [n \in Unsigned |-> g[n]]
    OBVIOUS
  <2>3. \A n \in Unsigned : g[n] = IF n = m - 1 THEN Body(base, f, n) ELSE f[n]
    OBVIOUS
  <2> HIDE DEF g
  <2>4. ASSUME NEW n \in Unsigned, n < m PROVE g[n] = Body(base, g, n)
    <3>1. g[n] = Body(base, f, n)
      <4>1. CASE n = m - 1
        BY <2>3, <4>1
      <4>2. CASE n # m - 1
        <5>1. n < m - 1
          BY <1>1, <2>4, <4>2
        <5>2. QED BY <2>1, <2>3, <4>2, <5>1
      <4>3. QED BY <4>1, <4>2
    <3>2. n >= base => g[n \div base] = f[n \div base]
      <4> SUFFICES ASSUME n >= base PROVE g[n \div base] = f[n \div base]
        OBVIOUS
      <4>1. n \div base \in Nat /\ n \div base < n /\ n \in Nat
        BY <1>1, Quotient
      <4>2. n \div base \in Unsigned /\ n \div base # m - 1
        BY <1>1, <2>4, <4>1 DEF Unsigned
      <4>3. QED BY <2>3, <4>2
    <3>3. QED BY <3>1, <3>2 DEF Body
  <2>5. Solves(g, m)
    BY <2>2, <2>4
  <2> HIDE DEF Solves
  <2>6. QED BY <2>5
<1>4. WordMod \in Solved
  <2> HIDE DEF Solved
  <2>1. \A m \in 1 .. WordMod : m - 1 \in Solved => m \in Solved
    BY <1>3
  <2>2. 0 .. WordMod \subseteq Solved
    BY <1>1, <1>2, <2>1, UpTo
  <2>3. QED BY <1>1, <2>2
<1>5. PICK f : Solves(f, WordMod)
  BY <1>4
<1>6. \A n \in Unsigned : f[n] = Body(base, f, n)
  BY <1>1, <1>5
<1>7. f = [n \in Unsigned |-> f[n]]
  BY <1>5
<1>8. Emits(base, f)
  BY <1>6, <1>7 DEF Emits
<1>9. QED BY <1>8

\* A numeral is its front part and its last digit.
LEMMA NumeralIs ==
  ASSUME NEW base \in {10, 16}, NEW n \in Unsigned
  PROVE  Numeral(base, n) = Append(IF n >= base THEN Numeral(base, n \div base) ELSE <<>>,
                                   Digit[(n % base) + 1])
<1> DEFINE e == CHOOSE f : Emits(base, f)
<1>1. Emits(base, e)
  BY EmitExists
<1>2. \A v : Numeral(base, v) = e[v]
  BY DEF Numeral, Emits, Body
<1> HIDE DEF e
<1>3. e[n] = Body(base, e, n)
  BY <1>1 DEF Emits
<1>4. QED BY <1>2, <1>3 DEF Body

\* What is right about a numeral.
Right(base, v, s) ==
  /\ Digitals(s) /\ IsNumeral(base, s) /\ ReadBack(base, s) = v
  /\ v > 0 => s[1] # "0"

LEMMA NumeralIsRight ==
  ASSUME NEW base \in {10, 16}, NEW n \in Unsigned PROVE Right(base, n, Numeral(base, n))
<1> DEFINE Wrong == {v \in Unsigned : ~Right(base, v, Numeral(base, v))}
<1> SUFFICES ASSUME Wrong # {} PROVE FALSE
  OBVIOUS
<1>1. Unsigned \subseteq Nat /\ \A v \in Unsigned, w \in Nat : w < v => w \in Unsigned
  BY WordAssumption DEF Unsigned
<1>2. PICK v \in Wrong : \A w \in Wrong : ~ (w < v)
  <2>1. Wrong \in SUBSET Nat
    BY <1>1
  <2> HIDE DEF Wrong
  <2>2. QED BY <2>1, LeastNumber
<1> DEFINE s == Numeral(base, v)
           c == Digit[(v % base) + 1]
<1>3. v \in Unsigned /\ v \in Nat /\ ~Right(base, v, s)
  BY <1>1
<1>4. /\ v % base \in 0 .. base - 1 /\ (v % base) + 1 \in 1 .. base
      /\ (v % base) + 1 \in 1 .. 16 /\ v % base \in Nat
  BY <1>3, Quotient
<1>5. c \in Char /\ DigitValue(c) = v % base /\ c \in {Digit[d] : d \in 1 .. base}
  BY <1>4, Digits
<1>6. CASE v < base
  <2>1. s = Append(<<>>, c)
    <3>1. ~ (v >= base)
      BY <1>3, <1>6
    <3>2. QED BY <1>3, <3>1, NumeralIs
  <2>2. s = <<c>> /\ Len(s) = 1 /\ s[1] = c
    BY <2>1
  <2>3. v % base = v
    BY <1>3, <1>6, Quotient
  <2>4. ReadBack(base, s) = v /\ Digitals(s)
    <3>1. Digitals(<<>>) /\ ReadBack(base, <<>>) = 0
      <4>1. Digitals(<<>>) /\ Len(<<>>) = 0
        BY DEF Digitals
      <4>2. QED BY <4>1, ReadsBack DEF Reading
    <3> HIDE DEF s, c
    <3>2. ReadBack(base, s) = base * 0 + DigitValue(c) /\ Digitals(s)
      BY <1>4, <1>5, <2>1, <3>1, ReadBackAppend
    <3>3. QED BY <1>3, <1>5, <2>3, <3>2
  <2>5. IsNumeral(base, s)
    BY <1>5, <2>2 DEF IsNumeral
  <2>6. v > 0 => s[1] # "0"
    <3>1. v > 0 => (v % base) + 1 \in 2 .. 16
      BY <1>4, <2>3
    <3>2. QED BY <2>2, <3>1, Digits
  <2>7. QED BY <1>3, <2>4, <2>5, <2>6 DEF Right
<1>7. CASE v >= base
  <2> DEFINE w == v \div base
             r == Numeral(base, w)
  <2>1. w \in Unsigned /\ w < v /\ w > 0 /\ w \in Nat /\ v = base * w + (v % base)
    BY <1>1, <1>3, <1>7, Quotient
  <2>2. Right(base, w, r)
    BY <1>2, <2>1
  <2>3. s = Append(r, c)
    BY <1>3, <1>7, NumeralIs
  <2> HIDE DEF s, r, w, c
  <2>4. Digitals(s) /\ ReadBack(base, s) = v
    BY <1>4, <1>5, <2>1, <2>2, <2>3, ReadBackAppend DEF Right
  <2>5. /\ Len(r) \in Nat /\ Len(r) > 0 /\ Len(s) = Len(r) + 1 /\ s # <<>>
        /\ DOMAIN s = 1 .. Len(r) + 1 /\ DOMAIN r = 1 .. Len(r)
        /\ s[Len(r) + 1] = c /\ \A i \in 1 .. Len(r) : s[i] = r[i]
    BY <1>5, <2>2, <2>3 DEF Right, Digitals, IsNumeral
  <2>6. s[1] # "0"
    BY <2>1, <2>2, <2>5 DEF Right
  <2>7. IsNumeral(base, s)
    <3>1. \A i \in 1 .. Len(r) : r[i] \in {Digit[d] : d \in 1 .. base}
      BY <2>2, <2>5 DEF Right, IsNumeral
    <3>2. \A i \in 1 .. Len(r) + 1 : i \in 1 .. Len(r) \/ i = Len(r) + 1
      BY <2>5
    <3>3. \A i \in DOMAIN s : s[i] \in {Digit[d] : d \in 1 .. base}
      BY <1>5, <2>5, <3>1, <3>2
    <3>4. QED BY <2>5, <2>6, <3>3 DEF IsNumeral
  <2>8. QED BY <1>3, <2>4, <2>6, <2>7 DEF Right
<1>8. QED BY <1>3, <1>4, <1>6, <1>7

-----------------------------------------------------------------------------
(* The formatter: the walk over a format.                                   *)

\* The rest of the output, when the function f has it from the next places on.
Rest(fmt, args, f, p) ==
  LET i == p[1]  a == p[2]  spec == At(fmt, i + 1) IN
  CASE At(fmt, i) = NUL -> <<>>
    [] At(fmt, i) \notin {NUL, "%"} -> <<At(fmt, i)>> \o f[<<i + 1, a>>]
    [] At(fmt, i) = "%" /\ spec = NUL -> <<>>
    [] At(fmt, i) = "%" /\ spec = "%" -> <<"%">> \o f[<<i + 2, a>>]
    [] At(fmt, i) = "%" /\ spec \in Takes -> Conversion(spec, args[a]) \o f[<<i + 2, a + 1>>]
    [] OTHER -> <<"%", spec>> \o f[<<i + 2, a>>]

Walks(fmt, args, f) == f = [p \in Cursors |-> Rest(fmt, args, f, p)]

\* It looks at later places only.
LEMMA RestIsLater ==
  ASSUME NEW fmt, NEW args, NEW f, NEW g, NEW p \in Cursors,
         \A q \in Cursors : q[1] > p[1] => f[q] = g[q]
  PROVE  Rest(fmt, args, f, p) = Rest(fmt, args, g, p)
<1>1. p[1] \in Nat \ {0} /\ p[2] \in Nat \ {0}
  BY DEF Cursors
<1>2. /\ <<p[1] + 1, p[2]>> \in Cursors /\ <<p[1] + 2, p[2]>> \in Cursors
      /\ <<p[1] + 2, p[2] + 1>> \in Cursors
  BY <1>1 DEF Cursors
<1>3. /\ f[<<p[1] + 1, p[2]>>] = g[<<p[1] + 1, p[2]>>]
      /\ f[<<p[1] + 2, p[2]>>] = g[<<p[1] + 2, p[2]>>]
      /\ f[<<p[1] + 2, p[2] + 1>>] = g[<<p[1] + 2, p[2] + 1>>]
  BY <1>1, <1>2
<1>4. QED BY <1>3 DEF Rest

LEMMA WalkExists == ASSUME NEW fmt \in Seq(Char), NEW args PROVE \E f : Walks(fmt, args, f)
<1> DEFINE N == Len(fmt)
           Solves(f, m) ==
             /\ f = [p \in Cursors |-> f[p]]
             /\ \A p \in Cursors : p[1] > N - m => f[p] = Rest(fmt, args, f, p)
           Solved == {m \in 0 .. N : \E f : Solves(f, m)}
<1>1. N \in Nat /\ \A p \in Cursors : p[1] \in Nat \ {0}
  BY DEF Cursors
<1> HIDE DEF N
<1>2. 0 \in Solved
  <2> DEFINE g == [p \in Cursors |-> <<>>]
  <2>1. g = [p \in Cursors |-> g[p]] /\ \A p \in Cursors : g[p] = <<>>
    OBVIOUS
  <2> HIDE DEF g
  <2>2. ASSUME NEW p \in Cursors, p[1] > N PROVE Rest(fmt, args, g, p) = <<>>
    <3>1. At(fmt, p[1]) = NUL
      BY <1>1, <2>2 DEF At, N
    <3>2. QED BY <3>1 DEF Rest, NUL
  <2>3. Solves(g, 0)
    BY <1>1, <2>1, <2>2
  <2> HIDE DEF Solves
  <2>4. QED BY <1>1, <2>3
<1>3. ASSUME NEW m \in 1 .. N, m - 1 \in Solved PROVE m \in Solved
  <2>1. PICK f : Solves(f, m - 1)
    BY <1>3
  <2> DEFINE k == (N - m) + 1
             g == [p \in Cursors |-> IF p[1] = k THEN Rest(fmt, args, f, p) ELSE f[p]]
  <2>2. g = [p \in Cursors |-> g[p]]
    OBVIOUS
  <2>3. \A p \in Cursors : g[p] = IF p[1] = k THEN Rest(fmt, args, f, p) ELSE f[p]
    OBVIOUS
  <2>4. k \in Nat /\ N - (m - 1) = k /\ \A n \in Nat : n > N - m <=> n > k \/ n = k
    BY <1>1
  <2> HIDE DEF g, k
  <2>5. ASSUME NEW p \in Cursors, p[1] > N - m PROVE g[p] = Rest(fmt, args, g, p)
    <3>1. p[1] \in Nat /\ (p[1] > k \/ p[1] = k)
      BY <1>1, <2>4, <2>5
    <3>2. \A q \in Cursors : q[1] > p[1] => f[q] = g[q]
      BY <1>1, <2>3, <2>4, <3>1
    <3>3. Rest(fmt, args, f, p) = Rest(fmt, args, g, p)
      BY <3>2, RestIsLater
    <3>4. CASE p[1] = k
      BY <2>3, <3>3, <3>4
    <3>5. CASE p[1] # k
      BY <2>1, <2>3, <2>4, <3>1, <3>3, <3>5
    <3>6. QED BY <3>4, <3>5
  <2>6. Solves(g, m)
    BY <2>2, <2>5
  <2> HIDE DEF Solves
  <2>7. QED BY <2>6
<1>4. N \in Solved
  <2> HIDE DEF Solved
  <2>1. \A m \in 1 .. N : m - 1 \in Solved => m \in Solved
    BY <1>3
  <2>2. 0 .. N \subseteq Solved
    BY <1>1, <1>2, <2>1, UpTo
  <2>3. QED BY <1>1, <2>2
<1>5. PICK f : Solves(f, N)
  BY <1>4
<1>6. f = [p \in Cursors |-> f[p]]
  BY <1>5
<1>7. \A p \in Cursors : f[p] = Rest(fmt, args, f, p)
  BY <1>1, <1>5
<1>8. Walks(fmt, args, f)
  BY <1>6, <1>7 DEF Walks
<1>9. QED BY <1>8

\* What is left to be printed from a place on.
Output(fmt, args) == CHOOSE f : Walks(fmt, args, f)

LEMMA OutputIs ==
  ASSUME NEW fmt \in Seq(Char), NEW args
  PROVE  /\ Printed(fmt, args) = Output(fmt, args)[<<1, 1>>]
         /\ \A p \in Cursors : Output(fmt, args)[p] = Rest(fmt, args, Output(fmt, args), p)
<1>1. Printed(fmt, args) = Output(fmt, args)[<<1, 1>>]
  BY DEF Printed, Output, Walks, Rest
<1>2. Walks(fmt, args, Output(fmt, args))
  BY WalkExists DEF Output
<1>3. QED BY <1>1, <1>2 DEF Walks

\* What a specifier prints is a string.
LEMMA ConversionTypes ==
  ASSUME NEW spec \in Takes, NEW w \in Unsigned PROVE Conversion(spec, w) \in Seq(Char)
<1>1. /\ WordMod \in Nat \ {0} /\ w \in Nat /\ w < WordMod
      /\ \A n \in Unsigned : Numeral(10, n) \in Seq(Char) /\ Numeral(16, n) \in Seq(Char)
  BY WordAssumption, NumeralIsRight DEF Unsigned, Right, Digitals
<1>2. "-" \in Char /\ NullText \in Seq(Char)
  <2>1. DOMAIN NullText = 1 .. 6
    BY DEF NullText
  <2>2. \A i \in 1 .. 6 : NullText[i] \in Char
    BY <2>1, TextAssumption DEF Range
  <2>3. /\ NullText[1] = "(" /\ NullText[2] = "n" /\ NullText[3] = "u"
        /\ NullText[4] = "l" /\ NullText[5] = "l" /\ NullText[6] = ")"
    BY DEF NullText
  <2>4. NullText \in Seq(Char)
    <3>1. "(" \in Char /\ "n" \in Char /\ "u" \in Char /\ "l" \in Char /\ ")" \in Char
      BY <2>2, <2>3
    <3>2. QED BY <3>1 DEF NullText
  <2>5. "-" \in Char
    BY TextAssumption
  <2>6. QED BY <2>4, <2>5
<1>3. SignedNumeral(AsInt(w)) \in Seq(Char)
  <2> DEFINE v == AsInt(w)
  <2>1. v \in Int /\ v < WordMod /\ (v < 0 => (-v) % WordMod \in Unsigned)
    BY <1>1 DEF AsInt, Unsigned
  <2> HIDE DEF v
  <2>2. ASSUME v < 0 PROVE SignedNumeral(v) \in Seq(Char)
    BY <1>1, <1>2, <2>1, <2>2 DEF SignedNumeral
  <2>3. ASSUME ~ (v < 0) PROVE SignedNumeral(v) \in Seq(Char)
    <3>1. v \in Unsigned
      BY <1>1, <2>1, <2>3 DEF Unsigned
    <3>2. QED BY <1>1, <2>3, <3>1 DEF SignedNumeral
  <2>4. QED BY <2>2, <2>3 DEF v
<1>4. <<Digit[(w % 16) + 1]>> \in Seq(Char)
  <2>1. (w % 16) + 1 \in 1 .. 16
    BY <1>1
  <2>2. QED BY <2>1, Digits
<1>5. w # 0 => Text[w] \in Seq(Char)
  BY <1>1, TextAssumption DEF Unsigned
<1>6. QED BY <1>1, <1>2, <1>3, <1>4, <1>5 DEF Conversion, Takes

-----------------------------------------------------------------------------
(* The formatter: which characters are specifiers.                          *)

\* The '%' signs in front of i are k in number.
Run(fmt, i, k) ==
  /\ k \in 0 .. i - 1
  /\ \A j \in i - k .. i - 1 : fmt[j] = "%"
  /\ i - k > 1 => fmt[i - k - 1] # "%"

LEMMA RunExists == ASSUME NEW fmt, NEW i \in Nat \ {0} PROVE \E k : Run(fmt, i, k)
<1> DEFINE T == {k \in 0 .. i - 1 : i - k > 1 => fmt[i - k - 1] # "%"}
<1>1. T \in SUBSET Nat /\ i - 1 \in T
  OBVIOUS
<1>2. PICK k \in T : \A m \in T : ~ (m < k)
  <2> HIDE DEF T
  <2>1. QED BY <1>1, LeastNumber
<1>3. ASSUME NEW j \in i - k .. i - 1 PROVE fmt[j] = "%"
  <2> DEFINE m == (i - j) - 1
  <2>1. m \in 0 .. i - 1 /\ m < k /\ i - m > 1 /\ (i - m) - 1 = j
    BY <1>2
  <2>2. m \notin T
    <3> HIDE DEF T, m
    <3>1. QED BY <1>2, <2>1
  <2> HIDE DEF m
  <2>3. QED BY <2>1, <2>2
<1>4. Run(fmt, i, k)
  BY <1>2, <1>3 DEF Run
<1>5. QED BY <1>4

LEMMA RunUnique ==
  ASSUME NEW fmt, NEW i \in Nat \ {0}, NEW k, NEW m, Run(fmt, i, k), Run(fmt, i, m), k < m
  PROVE  FALSE
<1>1. k \in Nat /\ m \in Nat /\ i - k > 1 /\ (i - k) - 1 \in i - m .. i - 1
  BY DEF Run
<1>2. QED BY <1>1 DEF Run

\* A '%' opens a specifier unless it is one itself.
LEMMA OpensIs ==
  ASSUME NEW fmt, NEW i \in Nat \ {0} PROVE Opens(fmt, i) <=> fmt[i] = "%" /\ ~Spec(fmt, i)
<1>1. \A n \in Nat \ {0} : Opens(fmt, n) <=> fmt[n] = "%" /\ \E k : Run(fmt, n, k) /\ k % 2 = 0
  BY DEF Opens, Run
<1>2. CASE i = 1
  <2>1. Run(fmt, i, 0)
    BY <1>2 DEF Run
  <2>2. 0 % 2 = 0
    OBVIOUS
  <2>3. QED BY <1>1, <1>2, <2>1, <2>2 DEF Spec
<1>3. CASE i > 1
  <2>1. i - 1 \in Nat \ {0}
    BY <1>3
  <2>2. PICK k : Run(fmt, i, k)
    BY RunExists
  <2>3. k \in Nat
    BY <2>2 DEF Run
  <2>4. \A m : Run(fmt, i, m) => m = k
    <3>1. ASSUME NEW m, Run(fmt, i, m) PROVE m = k
      <4>1. m \in Nat /\ ~ (m < k) /\ ~ (k < m)
        BY <2>2, <3>1, RunUnique DEF Run
      <4>2. QED BY <2>3, <4>1
    <3>2. QED BY <3>1
  <2>5. Opens(fmt, i) <=> fmt[i] = "%" /\ k % 2 = 0
    BY <1>1, <2>2, <2>4
  <2>6. CASE fmt[i - 1] # "%"
    <3>1. k = 0
      <4>1. k # 0 => i - 1 \in i - k .. i - 1
        BY <1>3, <2>2 DEF Run
      <4>2. QED BY <2>2, <2>6, <4>1 DEF Run
    <3>2. k % 2 = 0
      BY <3>1
    <3>3. ~Opens(fmt, i - 1)
      BY <1>1, <2>1, <2>6
    <3>4. QED BY <2>5, <3>2, <3>3 DEF Spec
  <2>7. CASE fmt[i - 1] = "%"
    <3>1. k > 0 /\ k - 1 \in Nat
      <4>1. k # 0
        BY <1>3, <2>2, <2>7 DEF Run
      <4>2. QED BY <2>3, <4>1
    <3>2. Run(fmt, i - 1, k - 1)
      <4>1. k - 1 \in 0 .. (i - 1) - 1
        BY <2>1, <2>2, <3>1 DEF Run
      <4>2. (i - 1) - (k - 1) = i - k
        BY <2>3
      <4>3. \A j \in i - k .. (i - 1) - 1 : j \in i - k .. i - 1
        BY <2>3
      <4>4. QED BY <2>2, <4>1, <4>2, <4>3 DEF Run
    <3>3. \A m : Run(fmt, i - 1, m) => m = k - 1
      <4>1. ASSUME NEW m, Run(fmt, i - 1, m) PROVE m = k - 1
        <5>1. m \in Nat /\ ~ (m < k - 1) /\ ~ (k - 1 < m)
          BY <2>1, <3>2, <4>1, RunUnique DEF Run
        <5>2. QED BY <3>1, <5>1
      <4>2. QED BY <4>1
    <3>4. Opens(fmt, i - 1) <=> (k - 1) % 2 = 0
      BY <1>1, <2>1, <2>7, <3>2, <3>3
    <3>5. k % 2 = 0 <=> ~ ((k - 1) % 2 = 0)
      BY <2>3
    <3>6. QED BY <1>3, <2>5, <3>4, <3>5 DEF Spec
  <2>8. QED BY <2>6, <2>7
<1>4. QED BY <1>2, <1>3

-----------------------------------------------------------------------------
(* The formatter: what comes out.                                           *)

\* The number of the next argument at i.
Before(fmt, i) == {j \in Taking(fmt) : j < i}
ArgNo(fmt, i) == 1 + Cardinality(Before(fmt, i))

LEMMA BeforeFinite ==
  ASSUME NEW fmt \in Seq(Char)
  PROVE  /\ Len(fmt) \in Nat /\ Taking(fmt) \subseteq 1 .. Len(fmt) /\ IsFiniteSet(Taking(fmt))
         /\ \A i : /\ Before(fmt, i) \subseteq Taking(fmt) /\ IsFiniteSet(Before(fmt, i))
                   /\ Cardinality(Before(fmt, i)) \in Nat
                   /\ Cardinality(Before(fmt, i)) <= Cardinality(Taking(fmt))
         /\ Cardinality(Taking(fmt)) \in Nat
<1>1. Len(fmt) \in Nat /\ Taking(fmt) \subseteq 1 .. Len(fmt)
  BY DEF Taking
<1>2. IsFiniteSet(Taking(fmt))
  <2>1. IsFiniteSet(1 .. Len(fmt))
    BY <1>1, FS_Interval
  <2>2. QED BY <1>1, <2>1, FS_Subset
<1>3. Cardinality(Taking(fmt)) \in Nat
  BY <1>2, FS_CardinalityType
<1>4. ASSUME NEW i PROVE /\ Before(fmt, i) \subseteq Taking(fmt) /\ IsFiniteSet(Before(fmt, i))
                         /\ Cardinality(Before(fmt, i)) \in Nat
                         /\ Cardinality(Before(fmt, i)) <= Cardinality(Taking(fmt))
  <2>1. Before(fmt, i) \subseteq Taking(fmt)
    BY DEF Before
  <2>2. QED BY <1>2, <2>1, FS_Subset, FS_CardinalityType
<1>5. QED BY <1>1, <1>2, <1>3, <1>4

\* The next argument is the one after, behind a specifier that takes one.
LEMMA ArgNoMoves ==
  ASSUME NEW fmt \in Seq(Char), NEW i \in Nat \ {0}
  PROVE  /\ ArgNo(fmt, i) \in Nat \ {0}
         /\ i \notin Taking(fmt) => ArgNo(fmt, i + 1) = ArgNo(fmt, i)
         /\ i \in Taking(fmt) => /\ ArgNo(fmt, i + 1) = ArgNo(fmt, i) + 1
                                 /\ ArgNo(fmt, i) \in 1 .. Cardinality(Taking(fmt))
                                 /\ Cardinality({j \in Taking(fmt) : j <= i}) = ArgNo(fmt, i)
<1> DEFINE b == Before(fmt, i)
<1>1. \A j \in Taking(fmt) : j \in Nat
  BY BeforeFinite
<1>2. {j \in Taking(fmt) : j <= i} = Before(fmt, i + 1)
  BY <1>1 DEF Before
<1>3. ASSUME i \notin Taking(fmt) PROVE Before(fmt, i + 1) = b
  BY <1>1, <1>3 DEF Before
<1>4. ASSUME i \in Taking(fmt) PROVE Before(fmt, i + 1) = b \cup {i} /\ i \notin b
  <2>1. \A j \in Taking(fmt) : j < i + 1 <=> j < i \/ j = i
    BY <1>1
  <2>2. \A j : j \in Before(fmt, i + 1) <=> j \in b \/ j = i
    BY <1>4, <2>1 DEF Before
  <2>3. i \notin b
    BY DEF Before
  <2> HIDE DEF b
  <2>4. QED BY <2>2, <2>3
<1>5. IsFiniteSet(b) /\ Cardinality(b) \in Nat
  BY BeforeFinite
<1>6. i \in Taking(fmt) => Cardinality(Before(fmt, i + 1)) = Cardinality(b) + 1
  BY <1>4, <1>5, FS_AddElement
<1>7. /\ Cardinality(Before(fmt, i + 1)) <= Cardinality(Taking(fmt))
      /\ Cardinality(Taking(fmt)) \in Nat
  BY BeforeFinite
<1> HIDE DEF b
<1>8. ArgNo(fmt, i) = 1 + Cardinality(b) /\ ArgNo(fmt, i + 1) = 1 + Cardinality(Before(fmt, i + 1))
  BY DEF ArgNo, b
<1>9. CASE i \in Taking(fmt)
  <2>1. Cardinality(Before(fmt, i + 1)) = Cardinality(b) + 1
    BY <1>6, <1>9
  <2>2. Cardinality({j \in Taking(fmt) : j <= i}) = Cardinality(b) + 1
    BY <1>2, <2>1
  <2>3. QED BY <1>5, <1>7, <1>8, <1>9, <2>1, <2>2
<1>10. CASE i \notin Taking(fmt)
  BY <1>3, <1>5, <1>8, <1>10
<1>11. QED BY <1>9, <1>10

\* A format with an argument for each specifier that takes one.
Fits(fmt, args) == fmt \in Seq(Char) /\ args \in [1 .. Cardinality(Taking(fmt)) -> Unsigned]

\* The shares of the characters are strings, and the output is one behind the other.
LEMMA ShareTypes ==
  ASSUME NEW fmt, NEW args, Fits(fmt, args), NEW i \in 1 .. Len(fmt)
  PROVE  Share(fmt, args, i) \in Seq(Char)
<1>1. i \in Nat \ {0} /\ fmt[i] \in Char /\ "%" \in Char
  <2>1. "%" \in Char
    BY TextAssumption
  <2>2. QED BY <2>1 DEF Fits
<1>2. i \in Taking(fmt) => args[Cardinality({j \in Taking(fmt) : j <= i})] \in Unsigned
  BY <1>1, ArgNoMoves DEF Fits
<1>3. i \in Taking(fmt) => fmt[i] \in Takes
  BY DEF Taking
<1>4. i \in Taking(fmt) =>
        Conversion(fmt[i], args[Cardinality({j \in Taking(fmt) : j <= i})]) \in Seq(Char)
  BY <1>2, <1>3, ConversionTypes
<1>5. <<>> \in Seq(Char) /\ <<fmt[i]>> \in Seq(Char) /\ <<"%", fmt[i]>> \in Seq(Char)
  BY <1>1
<1>6. QED BY <1>4, <1>5 DEF Share

\* What the first i characters print.
PrintsUpTo(fmt, args, f) ==
  /\ f \in [0 .. Len(fmt) -> Seq(Char)] /\ f[0] = <<>>
  /\ \A i \in 1 .. Len(fmt) : f[i] = f[i - 1] \o Share(fmt, args, i)
  /\ Shares(fmt, args) = f[Len(fmt)]

LEMMA SharesPrint ==
  ASSUME NEW fmt, NEW args, Fits(fmt, args) PROVE \E f : PrintsUpTo(fmt, args, f)
<1> DEFINE N == Len(fmt)
           S == Seq(Char)
           share == [i \in 1 .. N |-> Share(fmt, args, i)]
           step == [i \in 1 .. N |-> [s \in S |-> s \o Share(fmt, args, i)]]
           Flattens(h) == h = [i \in 1 .. Len(share) |->
                                 IF i = 1 THEN share[i] ELSE h[i - 1] \o share[i]]
           v == CHOOSE h : Flattens(h)
<1>1. N \in Nat /\ DOMAIN fmt = 1 .. N
  BY DEF Fits
<1>2. \A i \in 1 .. N : share[i] = Share(fmt, args, i) /\ share[i] \in S
  BY ShareTypes
<1>3. share \in Seq(S) /\ Len(share) = N
  BY <1>1, <1>2
<1>4. Solvable(N, S, <<>>, step)
  <2>1. step \in [1 .. N -> [S -> S]] /\ <<>> \in S
    BY <1>2
  <2> HIDE DEF N, step, S
  <2>2. QED BY <1>1, <2>1, RecursionExists
<1>5. PICK g \in [0 .. N -> S] : g[0] = <<>> /\ \A i \in 1 .. N : g[i] = step[i][g[i - 1]]
  BY <1>4 DEF Solvable
<1>6. \A i \in 1 .. N : i - 1 \in 0 .. N /\ i \in 0 .. N /\ g[i - 1] \in S /\ g[i] \in S
  BY <1>1, <1>5
<1>7. \A i \in 1 .. N : g[i] = g[i - 1] \o share[i]
  BY <1>2, <1>5, <1>6
<1>0. \A s \in S : <<>> \o s = s
  OBVIOUS
<1>8. Shares(fmt, args) = IF Len(share) = 0 THEN share ELSE v[Len(share)]
  BY <1>1 DEF Shares, FlattenSeq
<1> HIDE DEF share, step, v
<1>9. Shares(fmt, args) = g[N]
  <2>1. CASE N = 0
    <3>1. share = <<>>
      BY <1>3, <2>1
    <3>2. QED BY <1>3, <1>5, <1>8, <2>1, <3>1
  <2>2. CASE N # 0
    <3> DEFINE h == [i \in 1 .. N |-> g[i]]
    <3>1. Flattens(h)
      <4>1. ASSUME NEW i \in 1 .. N PROVE h[i] = IF i = 1 THEN share[i] ELSE h[i - 1] \o share[i]
        <5>1. i = 1 => g[i] = share[i]
          <6>1. i = 1 => g[i] = g[0] \o share[i]
            BY <1>7
          <6>2. QED BY <1>0, <1>2, <1>5, <6>1
        <5>2. i # 1 => i - 1 \in 1 .. N
          BY <1>1
        <5>3. QED BY <1>7, <5>1, <5>2
      <4>2. h = [i \in 1 .. N |-> h[i]]
        OBVIOUS
      <4> HIDE DEF h
      <4>3. QED BY <1>3, <4>1, <4>2
    <3>2. Flattens(v)
      <4> HIDE DEF Flattens, h
      <4>1. QED BY <3>1 DEF v
    <3>3. \A i \in 1 .. N : v[i] = IF i = 1 THEN share[i] ELSE v[i - 1] \o share[i]
      BY <1>3, <3>2
    <3> DEFINE T == {i \in 0 .. N : i = 0 \/ v[i] = g[i]}
    <3>4. ASSUME NEW i \in 1 .. N, i - 1 \in T PROVE i \in T
      <4>1. CASE i = 1
        <5>1. g[1] = share[1]
          <6>1. g[1] = g[0] \o share[1]
            BY <1>7, <4>1
          <6>2. QED BY <1>0, <1>2, <1>5, <4>1, <6>1
        <5>2. QED BY <1>6, <3>3, <4>1, <5>1
      <4>2. CASE i # 1
        <5>1. v[i - 1] = g[i - 1]
          BY <3>4, <4>2
        <5>2. QED BY <1>6, <1>7, <3>3, <4>2, <5>1
      <4>3. QED BY <4>1, <4>2
    <3>5. 0 .. N \subseteq T
      <4>1. 0 \in T
        BY <1>1
      <4> HIDE DEF T
      <4>2. QED BY <1>1, <3>4, <4>1, UpTo
    <3>6. v[N] = g[N]
      BY <1>1, <2>2, <3>5
    <3>7. QED BY <1>3, <1>8, <2>2, <3>6
  <2>3. QED BY <2>1, <2>2
<1>10. PrintsUpTo(fmt, args, g)
  BY <1>2, <1>5, <1>7, <1>9 DEF PrintsUpTo
<1>11. QED BY <1>10

-----------------------------------------------------------------------------
(* The formatter: what it prints.                                           *)

\* Joining strings in either order.
LEMMA ConcatAssoc ==
  ASSUME NEW r \in Seq(Char), NEW s \in Seq(Char), NEW t \in Seq(Char)
  PROVE  (r \o s) \o t = r \o (s \o t) /\ s \o t \in Seq(Char)
BY SMTT(30)

\* One round of the loop at a character that is no specifier: what it prints is what
\* the characters that it passes have for their shares.
Goes(fmt, args, f, i, next, x) ==
  /\ next \in i + 1 .. i + 2 /\ next <= Len(fmt) + 1 /\ ~Spec(fmt, next)
  /\ x \in Seq(Char)
  /\ Output(fmt, args)[<<i, ArgNo(fmt, i)>>] = x \o Output(fmt, args)[<<next, ArgNo(fmt, next)>>]
  /\ f[next - 1] = f[i - 1] \o x

LEMMA RoundOfWalk ==
  ASSUME NEW fmt, NEW args, Fits(fmt, args), NEW f, PrintsUpTo(fmt, args, f),
         NEW i \in 1 .. Len(fmt), ~Spec(fmt, i)
  PROVE  \/ \E next, x : Goes(fmt, args, f, i, next, x)
         \/ /\ i = Len(fmt) /\ f[i] = f[i - 1]
            /\ Output(fmt, args)[<<i, ArgNo(fmt, i)>>] = <<>>
<1> DEFINE N == Len(fmt)
           a == ArgNo(fmt, i)
           c == fmt[i]
           out == Output(fmt, args)
<1>1. /\ N \in Nat /\ i \in Nat \ {0} /\ i <= N /\ i + 1 \in Nat \ {0} /\ i + 2 \in Nat \ {0}
      /\ fmt \in Seq(Char) /\ \A j \in 1 .. N : fmt[j] \in Char
      /\ DOMAIN fmt = 1 .. N
  BY DEF Fits
<1>2. /\ NUL \notin Char /\ "%" \in Char /\ "%" # NUL
      /\ "%" \notin Takes /\ NUL \notin Takes
  <2>1. NUL \notin Char /\ "%" \in Char
    BY TextAssumption
  <2>2. "%" # NUL /\ "%" \notin Takes /\ NUL \notin Takes
    BY DEF NUL, Takes
  <2>3. QED BY <2>1, <2>2
<1>3. a \in Nat \ {0} /\ <<i, a>> \in Cursors /\ out[<<i, a>>] = Rest(fmt, args, out, <<i, a>>)
  <2>1. a \in Nat \ {0}
    BY <1>1, ArgNoMoves
  <2>2. <<i, a>> \in Cursors
    BY <1>1, <2>1 DEF Cursors
  <2>3. QED BY <1>1, <2>1, <2>2, OutputIs
<1>4. i \notin Taking(fmt) /\ ArgNo(fmt, i + 1) = a
  BY <1>1, ArgNoMoves DEF Taking
<1>5. /\ \A j \in 0 .. N : f[j] \in Seq(Char)
      /\ \A j \in 1 .. N : f[j] = f[j - 1] \o Share(fmt, args, j)
  BY DEF PrintsUpTo
<1>6. At(fmt, i) = c /\ c \in Char /\ c # NUL
  BY <1>1, <1>2 DEF At
<1>7. \A j \in Nat \ {0} : Spec(fmt, j + 1) <=> Opens(fmt, j)
  BY DEF Spec
<1>8. i - 1 \in 0 .. N /\ f[i - 1] \in Seq(Char) /\ f[i] = f[i - 1] \o Share(fmt, args, i)
  BY <1>1, <1>5
<1>9. \A s \in Seq(Char) : s \o <<>> = s
  OBVIOUS
<1>10. CASE c # "%"
  <2>1. ~Opens(fmt, i)
    BY <1>1, <1>10, OpensIs
  <2>2. Share(fmt, args, i) = <<c>>
    BY <1>4, <2>1 DEF Share
  <2>3. out[<<i, a>>] = <<c>> \o out[<<i + 1, a>>]
    BY <1>3, <1>6, <1>10 DEF Rest
  <2>4. ~Spec(fmt, i + 1)
    BY <1>1, <1>7, <2>1
  <2>5. f[(i + 1) - 1] = f[i - 1] \o <<c>> /\ <<c>> \in Seq(Char) /\ i + 1 \in i + 1 .. i + 2
    <3>1. (i + 1) - 1 = i /\ i + 1 \in i + 1 .. i + 2
      BY <1>1
    <3>2. QED BY <1>6, <1>8, <2>2, <3>1
  <2>6. i + 1 <= N + 1
    BY <1>1
  <2>7. Goes(fmt, args, f, i, i + 1, <<c>>)
    BY <1>4, <2>3, <2>4, <2>5, <2>6 DEF Goes
  <2>8. QED BY <2>7
<1>11. CASE c = "%"
  <2>1. Opens(fmt, i)
    BY <1>1, <1>11, OpensIs
  <2>2. f[i] = f[i - 1]
    <3>1. Share(fmt, args, i) = <<>>
      BY <1>4, <2>1 DEF Share
    <3>2. QED BY <1>8, <1>9, <3>1
  <2>3. CASE i = N
    <3>1. At(fmt, i + 1) = NUL
      BY <1>1, <2>3 DEF At
    <3>2. out[<<i, a>>] = <<>>
      BY <1>2, <1>3, <1>6, <1>11, <3>1 DEF Rest
    <3>3. QED BY <2>2, <2>3, <3>2
  <2>4. CASE i # N
    <3> DEFINE spec == fmt[i + 1]
               share == Share(fmt, args, i + 1)
    <3>1. i + 1 \in 1 .. N /\ i + 1 > 1
      <4>1. N \in Nat /\ i \in Nat \ {0} /\ i <= N /\ i # N
        BY <1>1, <2>4, ZenonT(30)
      <4> HIDE DEF N
      <4>2. QED BY <4>1, SMTT(30)
    <3>2. At(fmt, i + 1) = spec /\ spec \in Char /\ spec # NUL
      BY <1>1, <1>2, <3>1 DEF At
    <3>3. Spec(fmt, i + 1) /\ ~Opens(fmt, i + 1) /\ ~Spec(fmt, i + 2)
      <4>1. Spec(fmt, i + 1)
        BY <1>1, <1>7, <2>1
      <4>2. ~Opens(fmt, i + 1)
        BY <1>1, <4>1, OpensIs
      <4>3. (i + 1) + 1 = i + 2
        BY <1>1
      <4>4. Spec(fmt, (i + 1) + 1) <=> Opens(fmt, i + 1)
        BY <1>1, <1>7
      <4>5. QED BY <4>1, <4>2, <4>3, <4>4
    <3>4. i + 1 \in Taking(fmt) <=> spec \in Takes
      BY <1>1, <3>1, <3>3 DEF Taking
    <3>5. /\ (i + 2) - 1 = i + 1 /\ (i + 1) - 1 = i /\ i + 2 \in i + 1 .. i + 2
          /\ i + 2 <= N + 1 /\ (i + 1) + 1 = i + 2
      BY <1>1, <3>1
    <3>6. f[(i + 2) - 1] = f[i - 1] \o share /\ share \in Seq(Char)
      <4>1. f[i + 1] = f[(i + 1) - 1] \o share
        BY <1>5, <3>1
      <4>2. share \in Seq(Char)
        BY <3>1, ShareTypes
      <4>3. QED BY <2>2, <3>5, <4>1, <4>2
    <3>7. out[<<i, a>>] = share \o out[<<i + 2, ArgNo(fmt, i + 2)>>]
      <4>1. CASE spec = "%"
        <5>1. share = <<"%">>
          BY <1>2, <3>3, <3>4, <4>1 DEF Share
        <5>2. ArgNo(fmt, i + 2) = a
          BY <1>1, <1>2, <1>4, <3>4, <3>5, <4>1, ArgNoMoves
        <5>3. out[<<i, a>>] = <<"%">> \o out[<<i + 2, a>>]
          BY <1>2, <1>3, <1>6, <1>11, <3>2, <4>1 DEF Rest
        <5>4. QED BY <5>1, <5>2, <5>3
      <4>2. CASE spec \in Takes
        <5>1. /\ ArgNo(fmt, i + 2) = a + 1
              /\ Cardinality({j \in Taking(fmt) : j <= i + 1}) = a
          BY <1>1, <1>4, <3>4, <3>5, <4>2, ArgNoMoves
        <5>2. share = Conversion(spec, args[a])
          BY <3>3, <3>4, <4>2, <5>1 DEF Share
        <5>3. out[<<i, a>>] = Conversion(spec, args[a]) \o out[<<i + 2, a + 1>>]
          BY <1>2, <1>3, <1>6, <1>11, <3>2, <4>2 DEF Rest
        <5>4. QED BY <5>1, <5>2, <5>3
      <4>3. CASE spec # "%" /\ spec \notin Takes
        <5>1. share = <<"%", spec>>
          BY <1>2, <3>3, <3>4, <4>3 DEF Share
        <5>2. ArgNo(fmt, i + 2) = a
          BY <1>1, <1>4, <3>4, <3>5, <4>3, ArgNoMoves
        <5>3. out[<<i, a>>] = <<"%", spec>> \o out[<<i + 2, a>>]
          BY <1>2, <1>3, <1>6, <1>11, <3>2, <4>3 DEF Rest
        <5>4. QED BY <5>1, <5>2, <5>3
      <4>4. QED BY <4>1, <4>2, <4>3
    <3>8. Goes(fmt, args, f, i, i + 2, share)
      BY <3>3, <3>5, <3>6, <3>7 DEF Goes
    <3> HIDE DEF share
    <3>9. QED BY <3>8
  <2>5. QED BY <2>3, <2>4
<1>12. QED BY <1>10, <1>11

\* From every character that is no specifier on, the output is what is missing.
Completes(fmt, args, f, i) ==
  LET rest == Output(fmt, args)[<<i, ArgNo(fmt, i)>>] IN
  rest \in Seq(Char) /\ f[i - 1] \o rest = f[Len(fmt)]

LEMMA PrintedIsShares ==
  ASSUME NEW fmt, NEW args, Fits(fmt, args) PROVE Printed(fmt, args) = Shares(fmt, args)
<1> DEFINE N == Len(fmt)
<1>1. N \in Nat /\ fmt \in Seq(Char)
  BY DEF Fits
<1>2. PICK f : PrintsUpTo(fmt, args, f)
  BY SharesPrint
<1>3. /\ f[0] = <<>> /\ \A i \in 0 .. N : f[i] \in Seq(Char)
      /\ Shares(fmt, args) = f[N]
  BY <1>2 DEF PrintsUpTo
<1> DEFINE Open == {d \in 0 .. N : /\ ~Spec(fmt, (N + 1) - d)
                                   /\ ~Completes(fmt, args, f, (N + 1) - d)}
<1>4. Open = {}
  <2> SUFFICES ASSUME Open # {} PROVE FALSE
    OBVIOUS
  <2>1. PICK d \in Open : \A e \in Open : ~ (e < d)
    <3>1. Open \in SUBSET Nat
      OBVIOUS
    <3> HIDE DEF Open
    <3>2. QED BY <3>1, LeastNumber
  <2> DEFINE i == (N + 1) - d
             rest == Output(fmt, args)[<<i, ArgNo(fmt, i)>>]
  <2>2. /\ d \in 0 .. N /\ i \in Nat \ {0} /\ i <= N + 1
        /\ i - 1 \in 0 .. N /\ f[i - 1] \in Seq(Char)
        /\ ~Spec(fmt, i) /\ ~Completes(fmt, args, f, i)
    BY <1>1, <1>3
  <2>3. \A s \in Seq(Char) : s \o <<>> = s
    OBVIOUS
  <2>4. CASE i = N + 1
    <3>1. <<i, ArgNo(fmt, i)>> \in Cursors
      BY <1>1, <2>2, ArgNoMoves DEF Cursors
    <3>2. At(fmt, i) = NUL
      BY <1>1, <2>4 DEF At
    <3>3. rest = Rest(fmt, args, Output(fmt, args), <<i, ArgNo(fmt, i)>>)
      BY <1>1, <3>1, OutputIs
    <3>4. rest = <<>>
      <4>1. NUL # "%"
        BY DEF NUL
      <4> HIDE DEF i
      <4>2. QED BY <3>2, <3>3, <4>1 DEF Rest
    <3>5. f[i - 1] = f[N]
      BY <1>1, <2>4
    <3>6. f[i - 1] \o rest = f[N] /\ rest \in Seq(Char)
      BY <2>2, <2>3, <3>4, <3>5
    <3>7. QED BY <2>2, <3>6 DEF Completes
  <2>5. CASE i # N + 1
    <3>1. i \in 1 .. N
      BY <1>1, <2>2, <2>5
    <3> HIDE DEF i, N
    <3>2. CASE i = Len(fmt) /\ f[i] = f[i - 1] /\ rest = <<>>
      BY <2>2, <2>3, <3>2 DEF Completes
    <3>3. CASE \E next, x : Goes(fmt, args, f, i, next, x)
      <4>1. PICK next, x : Goes(fmt, args, f, i, next, x)
        BY <3>3
      <4>2. next \in i + 1 .. i + 2 /\ next <= N + 1 /\ ~Spec(fmt, next)
        BY <4>1 DEF Goes, N
      <4> DEFINE e == (N + 1) - next
                 more == Output(fmt, args)[<<next, ArgNo(fmt, next)>>]
      <4>3. e \in 0 .. N /\ e < d /\ (N + 1) - e = next
        <5>1. next \in Nat /\ next > i
          BY <2>2, <4>2
        <5>2. QED BY <1>1, <2>2, <4>2, <5>1 DEF i
      <4>4. Completes(fmt, args, f, next)
        <5> HIDE DEF e
        <5>1. e \notin Open
          <6> HIDE DEF Open
          <6>1. QED BY <2>1, <4>3
        <5>2. QED BY <4>2, <4>3, <5>1
      <4>5. more \in Seq(Char) /\ f[next - 1] \o more = f[N]
        BY <4>4 DEF Completes, N
      <4>6. x \in Seq(Char) /\ rest = x \o more /\ f[next - 1] = f[i - 1] \o x
        BY <4>1 DEF Goes
      <4> HIDE DEF rest, more
      <4>7. f[i - 1] \in Seq(Char)
        BY <2>2
      <4>8. rest \in Seq(Char) /\ f[i - 1] \o rest = f[N]
        <5> DEFINE front == f[i - 1]
        <5>1. front \in Seq(Char) /\ x \in Seq(Char) /\ more \in Seq(Char)
          BY <4>5, <4>6, <4>7
        <5> HIDE DEF front
        <5>2. (front \o x) \o more = front \o (x \o more) /\ x \o more \in Seq(Char)
          BY <5>1, ConcatAssoc
        <5>3. front \o rest = f[next - 1] \o more
          BY <4>6, <5>2 DEF front
        <5>4. QED BY <4>5, <4>6, <5>2, <5>3 DEF front
      <4>9. QED BY <2>2, <4>8 DEF Completes, rest, N
    <3>4. QED BY <1>2, <2>2, <3>1, <3>2, <3>3, RoundOfWalk DEF N
  <2>6. QED BY <2>4, <2>5
<1>5. ArgNo(fmt, 1) = 1
  <2>1. Before(fmt, 1) = {}
    BY <1>1, BeforeFinite DEF Before
  <2>2. QED BY <2>1, FS_EmptySet DEF ArgNo
<1>6. Completes(fmt, args, f, 1)
  <2>1. N \in 0 .. N /\ (N + 1) - N = 1 /\ ~Spec(fmt, 1)
    BY <1>1 DEF Spec
  <2>2. QED BY <1>4, <2>1
<1>7. Printed(fmt, args) = Output(fmt, args)[<<1, 1>>]
  BY <1>1, OutputIs
<1>8. Printed(fmt, args) \in Seq(Char) /\ f[0] \o Printed(fmt, args) = f[N]
  <2>1. 1 - 1 = 0
    OBVIOUS
  <2>2. QED BY <1>5, <1>6, <1>7, <2>1 DEF Completes
<1>9. \A s \in Seq(Char) : <<>> \o s = s
  OBVIOUS
<1>10. QED BY <1>3, <1>8, <1>9

-----------------------------------------------------------------------------
(* The formatter: its two properties.                                       *)

\* A call of printf has a format and an argument for each specifier that takes one.
PrintfInv ==
  call.fn = "printf" => /\ call.fmt \in Formats /\ Fits(call.fmt, call.args)
                        /\ call.out = Printed(call.fmt, call.args)

LEMMA PrintfInvStep == PrintfInv /\ [SocNext]_vars => PrintfInv'
<1> SUFFICES ASSUME PrintfInv, [SocNext]_vars PROVE PrintfInv'
  OBVIOUS
<1>1. CASE call' = call
  BY <1>1 DEF PrintfInv, Fits
<1>2. CASE call' = NoCall
  BY <1>2 DEF PrintfInv, NoCall
<1>3. CASE Calls
  <2>1. CASE call' \in Printfs
    <3>1. PICK f \in Formats : call' \in
            {[fn |-> "printf", fmt |-> f, args |-> a, out |-> Printed(f, a)] :
               a \in [1 .. Cardinality(Taking(f)) -> Unsigned]}
      BY <2>1 DEF Printfs
    <3>2. PICK a \in [1 .. Cardinality(Taking(f)) -> Unsigned] :
            call' = [fn |-> "printf", fmt |-> f, args |-> a, out |-> Printed(f, a)]
      BY <3>1
    <3>3. call'.fmt = f /\ call'.args = a /\ call'.out = Printed(f, a)
      BY <3>2
    <3>4. Fits(f, a)
      BY StringsAssumption DEF Fits
    <3>5. QED BY <3>3, <3>4 DEF PrintfInv
  <2>2. CASE call' \in Strcmps
    <3>1. call'.fn = "strcmp"
      BY <2>2 DEF Strcmps
    <3>2. QED BY <3>1 DEF PrintfInv
  <2>3. CASE call' \in Strncpys
    <3>1. call'.fn = "strncpy"
      BY <2>3 DEF Strncpys
    <3>2. QED BY <3>1 DEF PrintfInv
  <2>4. QED BY <1>3, <2>1, <2>2, <2>3 DEF Calls
<1>4. call' = call \/ call' = NoCall \/ Calls
  BY DEF SocNext, Construction, Teardown, Operation, InitStarts, Allocates, ConstructsDevices,
         FindsNoMemory, AddsTickables, LoadsElf, RefusesElf, Fini, Exit, Destructs, Program,
         SocTick, TimerRuns, Writes, HeapRuns, TextRuns, HostTypes, Returns, vars
<1>5. QED BY <1>1, <1>2, <1>3, <1>4

LEMMA PrintfInvInit == SocInit => PrintfInv
  BY DEF SocInit, PrintfInv, NoCall

\* Whatever a program prints, with whatever arguments: the output is, one behind the
\* other, what each character of the format stands for.
THEOREM PrintfIsRight == SocSpec => []PrintsFormat
<1>1. PrintfInv => PrintsFormat
  BY PrintedIsShares DEF PrintfInv, PrintsFormat
<1>2. QED BY <1>1, PrintfInvInit, PrintfInvStep, PTL DEF SocSpec

\* A format that is one specifier prints what the specifier does.
LEMMA OneSpecifier ==
  ASSUME NEW fmt, NEW args, Fits(fmt, args), Len(fmt) = 2, Spec(fmt, 2), fmt[2] \in Takes
  PROVE  args[1] \in Unsigned /\ Printed(fmt, args) = Conversion(fmt[2], args[1])
<1> DEFINE out == Output(fmt, args)
<1>1. fmt \in Seq(Char) /\ DOMAIN fmt = 1 .. 2 /\ fmt[1] = "%" /\ fmt[2] \in Char
  <2>1. fmt \in Seq(Char) /\ 2 - 1 = 1
    BY DEF Fits
  <2>2. fmt[1] = "%"
    BY <2>1 DEF Spec, Opens
  <2>3. QED BY <2>1, <2>2
<1>2. 2 \in Taking(fmt) /\ Taking(fmt) \subseteq {1, 2} /\ 1 \notin Taking(fmt)
  BY <1>1 DEF Taking, Spec
<1>3. args[1] \in Unsigned
  <2>1. ArgNo(fmt, 2) = 1
    <3>1. Before(fmt, 2) = {}
      BY <1>2 DEF Before
    <3>2. QED BY <3>1, FS_EmptySet DEF ArgNo
  <2>2. 1 \in 1 .. Cardinality(Taking(fmt))
    BY <1>1, <1>2, <2>1, ArgNoMoves
  <2>3. QED BY <2>2 DEF Fits
<1>4. NUL \notin Char /\ NUL # "%" /\ fmt[2] # "%" /\ fmt[2] # NUL
  <2>1. NUL # "%" /\ "%" \notin Takes /\ NUL \notin Takes
    BY DEF NUL, Takes
  <2>2. QED BY <2>1, TextAssumption
<1>5. <<1, 1>> \in Cursors /\ <<3, 2>> \in Cursors
  BY DEF Cursors
<1>6. /\ out[<<1, 1>>] = Rest(fmt, args, out, <<1, 1>>)
      /\ out[<<3, 2>>] = Rest(fmt, args, out, <<3, 2>>)
  BY <1>1, <1>5, OutputIs
<1>7. At(fmt, 1) = "%" /\ At(fmt, 2) = fmt[2] /\ At(fmt, 3) = NUL
  BY <1>1 DEF At
<1> HIDE DEF out
<1>8. out[<<3, 2>>] = <<>>
  BY <1>4, <1>6, <1>7 DEF Rest
<1>9. out[<<1, 1>>] = Conversion(fmt[2], args[1]) \o out[<<3, 2>>]
  <2>1. 1 + 1 = 2 /\ 1 + 2 = 3 /\ <<1, 1>>[1] = 1 /\ <<1, 1>>[2] = 1
    OBVIOUS
  <2>2. out[<<1, 1>>] = Rest(fmt, args, out, <<1, 1>>)
    BY <1>6
  <2>3. QED BY <1>4, <1>7, <2>1, <2>2 DEF Rest
<1>10. \A s \in Seq(Char) : s \o <<>> = s
  OBVIOUS
<1>11. Conversion(fmt[2], args[1]) \in Seq(Char)
  BY <1>3, ConversionTypes
<1>12. Printed(fmt, args) = out[<<1, 1>>]
  BY <1>1, OutputIs DEF out
<1>13. QED BY <1>3, <1>8, <1>9, <1>10, <1>11, <1>12

\* The numerals of the words, and with a sign those of the ints.
LEMMA NumbersAreRight ==
  ASSUME NEW spec \in {"d", "u", "x"}, NEW w \in Unsigned
  PROVE  RightNumber(spec, IF spec = "d" THEN AsInt(w) ELSE w, Conversion(spec, w))
<1>1. w \in Nat /\ w < WordMod /\ WordMod \in Nat \ {0}
  BY WordAssumption DEF Unsigned
<1>2. ASSUME NEW base \in {10, 16}, NEW n \in Unsigned
      PROVE  /\ IsNumeral(base, Numeral(base, n)) /\ ReadBack(base, Numeral(base, n)) = n
             /\ Numeral(base, n) \in Seq(Char)
  BY NumeralIsRight DEF Right, Digitals
<1>3. CASE spec \in {"u", "x"}
  <2> DEFINE base == IF spec = "x" THEN 16 ELSE 10
  <2>1. Conversion(spec, w) = Numeral(base, w)
    BY <1>3 DEF Conversion
  <2>2. ~ (w < 0) /\ spec # "d"
    BY <1>1, <1>3
  <2>3. IsNumeral(base, Numeral(base, w)) /\ ReadBack(base, Numeral(base, w)) = w
    BY <1>2
  <2>4. QED BY <2>1, <2>2, <2>3 DEF RightNumber
<1>4. CASE spec = "d"
  <2> DEFINE v == AsInt(w)
             s == SignedNumeral(v)
  <2>1. Conversion(spec, w) = s
    BY <1>4 DEF Conversion
  <2>2. v \in Int /\ (v < 0 => -v \in Unsigned) /\ (~ (v < 0) => v \in Unsigned)
    BY <1>1 DEF AsInt, Unsigned
  <2> HIDE DEF v
  <2>3. CASE v < 0
    <3> DEFINE n == Numeral(10, -v)
    <3>1. (-v) % WordMod = -v
      BY <1>1, <2>2, <2>3 DEF Unsigned
    <3>2. s = <<"-">> \o n
      BY <2>3, <3>1 DEF SignedNumeral
    <3>3. IsNumeral(10, n) /\ ReadBack(10, n) = -v /\ n \in Seq(Char)
      BY <1>2, <2>2, <2>3
    <3>4. "-" \in Char
      BY TextAssumption
    <3> HIDE DEF n, s
    <3>5. Head(s) = "-" /\ Tail(s) = n
      BY <3>2, <3>3, <3>4
    <3>6. QED BY <1>4, <2>1, <2>3, <3>3, <3>5 DEF RightNumber, v
  <2>4. CASE ~ (v < 0)
    <3>1. s = Numeral(10, v)
      BY <2>4 DEF SignedNumeral
    <3>2. IsNumeral(10, s) /\ ReadBack(10, s) = v
      BY <1>2, <2>2, <2>4, <3>1
    <3> HIDE DEF s
    <3>3. QED BY <1>4, <2>1, <2>4, <3>2 DEF RightNumber, v
  <2>5. QED BY <2>3, <2>4
<1>5. QED BY <1>3, <1>4

\* Every number that a program prints comes out as its numeral.
THEOREM NumbersAreNumerals == SocSpec => []NumbersPrintRight
<1>1. PrintfInv => NumbersPrintRight
  <2> SUFFICES ASSUME PrintfInv, call.fn = "printf", Len(call.fmt) = 2, Spec(call.fmt, 2),
                      call.fmt[2] \in {"d", "u", "x"}
               PROVE  RightNumber(call.fmt[2],
                        IF call.fmt[2] = "d" THEN AsInt(call.args[1]) ELSE call.args[1], call.out)
    BY DEF NumbersPrintRight
  <2>1. Fits(call.fmt, call.args) /\ call.out = Printed(call.fmt, call.args)
    BY DEF PrintfInv
  <2>2. call.fmt[2] \in Takes
    BY DEF Takes
  <2>3. call.args[1] \in Unsigned /\ call.out = Conversion(call.fmt[2], call.args[1])
    BY <2>1, <2>2, OneSpecifier
  <2>4. QED BY <2>3, NumbersAreRight
<1>2. QED BY <1>1, PrintfInvInit, PrintfInvStep, PTL DEF SocSpec
=============================================================================
