------------------------------- MODULE Clint --------------------------------
(***************************************************************************)
(* The core local interruptor of clint.c.  mtime and mtimecmp have 64 bits *)
(* and are reached by software in two halves; here a time is its pair of   *)
(* halves, each of HalfMod values (2^32 in the code).                      *)
(***************************************************************************)
EXTENDS Naturals

CONSTANT HalfMod           \* the values of half a register

ASSUME HalfModAssumption == HalfMod \in Nat /\ HalfMod > 1

Half == 0 .. HalfMod - 1
Time == [hi : Half, lo : Half]
AllOnes == [hi |-> HalfMod - 1, lo |-> HalfMod - 1]

\* The 64-bit comparison t >= u.
Reached(t, u) == t.hi > u.hi \/ (t.hi = u.hi /\ t.lo >= u.lo)

ClintState == [msip : BOOLEAN, mtime : Time, mtimecmp : Time]

\* What the constructor leaves: the timer's wire is low.
ClintReset == [msip |-> FALSE, mtime |-> [hi |-> 0, lo |-> 0], mtimecmp |-> AllOnes]

ClintReg == {"MSIP", "MTIMECMP_LO", "MTIMECMP_HI", "MTIME_LO", "MTIME_HI"}

-----------------------------------------------------------------------------
\* The 64-bit sum t + 1.
Later(t) ==
  IF t.lo + 1 < HalfMod THEN [t EXCEPT !.lo = t.lo + 1]
  ELSE [hi |-> IF t.hi + 1 < HalfMod THEN t.hi + 1 ELSE 0, lo |-> 0]

\* Mutant of ClintTick: the halves are two counters and the carry is lost.
ClintTickNoCarry(c) == [c EXCEPT !.mtime.lo = (c.mtime.lo + 1) % HalfMod]

ClintTick(c) == [c EXCEPT !.mtime = Later(c.mtime)]

\* The wires to the core.
Msip(c) == c.msip
Mtip(c) == Reached(c.mtime, c.mtimecmp)

\* Mutant of ClintValue: the two halves of the clock are exchanged.
ClintValueSwapped(c, reg) ==
  CASE reg = "MSIP"        -> IF c.msip THEN 1 ELSE 0
    [] reg = "MTIMECMP_LO" -> c.mtimecmp.lo
    [] reg = "MTIMECMP_HI" -> c.mtimecmp.hi
    [] reg = "MTIME_LO"    -> c.mtime.hi
    [] reg = "MTIME_HI"    -> c.mtime.lo

\* The half that a register name stands for; bit 0 of MSIP is all it has.
ClintValue(c, reg) ==
  CASE reg = "MSIP"        -> IF c.msip THEN 1 ELSE 0
    [] reg = "MTIMECMP_LO" -> c.mtimecmp.lo
    [] reg = "MTIMECMP_HI" -> c.mtimecmp.hi
    [] reg = "MTIME_LO"    -> c.mtime.lo
    [] reg = "MTIME_HI"    -> c.mtime.hi

\* Mutant of ClintStored: the deadline's upper half is taken from the clock.
ClintStoredFromTime(c, reg, v) ==
  CASE reg = "MSIP"        -> [c EXCEPT !.msip = v % 2 = 1]
    [] reg = "MTIMECMP_LO" -> [c EXCEPT !.mtimecmp = [hi |-> c.mtime.hi, lo |-> v]]
    [] reg = "MTIMECMP_HI" -> [c EXCEPT !.mtimecmp.hi = v]
    [] reg = "MTIME_LO"    -> [c EXCEPT !.mtime.lo = v]
    [] reg = "MTIME_HI"    -> [c EXCEPT !.mtime.hi = v]

ClintStored(c, reg, v) ==
  CASE reg = "MSIP"        -> [c EXCEPT !.msip = v % 2 = 1]
    [] reg = "MTIMECMP_LO" -> [c EXCEPT !.mtimecmp.lo = v]
    [] reg = "MTIMECMP_HI" -> [c EXCEPT !.mtimecmp.hi = v]
    [] reg = "MTIME_LO"    -> [c EXCEPT !.mtime.lo = v]
    [] reg = "MTIME_HI"    -> [c EXCEPT !.mtime.hi = v]
=============================================================================
