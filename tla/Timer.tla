------------------------------- MODULE Timer --------------------------------
(***************************************************************************)
(* A timer program on the CLINT: it reads the clock and sets deadlines,    *)
(* half by half, while the clock goes on between any two of its accesses.  *)
(* The program is FreeRTOS's port for this core, which FreeRTOSConfig.h    *)
(* points at the two registers; it is external and modelled by its         *)
(* accesses.                                                               *)
(***************************************************************************)
EXTENDS Clint

CONSTANT Deadlines         \* the times the program waits for

ASSUME DeadlinesAssumption == Deadlines \subseteq Time

VARIABLES
  clint,   \* the device
  prog     \* the program

timerVars == <<clint, prog>>

Prog == [pc       : {"none", "idle", "retry", "lo", "again", "park", "high", "low"},
         hi       : Half,      \* the halves of the clock read last
         lo       : Half,
         at       : Time,      \* history: the time at which lo was read
         deadline : Time,      \* the deadline that is set
         target   : Time]      \* the one that is being set

\* At its start, or in a machine that runs another program.
ProgReset(pc) ==
  [pc |-> pc, hi |-> 0, lo |-> 0, at |-> ClintReset.mtime,
   deadline |-> AllOnes, target |-> AllOnes]

TimerTypeOK == clint \in ClintState /\ prog \in Prog

TimerInit == clint = ClintReset /\ prog = ProgReset("none")

Goto(pc) == [prog EXCEPT !.pc = pc]

-----------------------------------------------------------------------------
\* One instruction is committed and the clock goes on.  64 bits do not wrap in
\* the time of a run.
Tick ==
  /\ clint.mtime # AllOnes
  /\ clint' = ClintTick(clint)
  /\ UNCHANGED prog

\* Reading the clock: high, low, and high again until it is the same.
ReadsHigh ==
  /\ prog.pc \in {"idle", "retry"}
  /\ prog' = [Goto("lo") EXCEPT !.hi = ClintValue(clint, "MTIME_HI")]
  /\ UNCHANGED clint

ReadsLow ==
  /\ prog.pc = "lo"
  /\ prog' = [Goto("again") EXCEPT !.lo = ClintValue(clint, "MTIME_LO"), !.at = clint.mtime]
  /\ UNCHANGED clint

\* The halves read are taken for the time, or the loop begins again.
Confirmed == ClintValue(clint, "MTIME_HI") = prog.hi

ReadsAgain ==
  /\ prog.pc = "again"
  /\ prog' = Goto(IF Confirmed THEN "idle" ELSE "retry")
  /\ UNCHANGED clint

\* Setting a deadline, the first or a new one: the low half is parked at its
\* largest value, so that neither store in between names an earlier time.
SetsTarget(t) ==
  /\ prog.pc = "idle"
  /\ prog' = [Goto("park") EXCEPT !.target = t]
  /\ UNCHANGED clint

Parks ==
  /\ prog.pc = "park"
  /\ clint' = ClintStored(clint, "MTIMECMP_LO", HalfMod - 1)
  /\ prog' = Goto("high")

StoresHigh ==
  /\ prog.pc = "high"
  /\ clint' = ClintStored(clint, "MTIMECMP_HI", prog.target.hi)
  /\ prog' = Goto("low")

StoresLow ==
  /\ prog.pc = "low"
  /\ clint' = ClintStored(clint, "MTIMECMP_LO", prog.target.lo)
  /\ prog' = [Goto("idle") EXCEPT !.deadline = prog.target]

ProgStep ==
  \/ ReadsHigh \/ ReadsLow \/ ReadsAgain
  \/ \E t \in Deadlines : SetsTarget(t)
  \/ Parks \/ StoresHigh \/ StoresLow

\* A new SoC runs the program from its start, or another one, which may do
\* anything with the device.
Restart ==
  /\ clint' = ClintReset
  /\ \E pc \in {"none", "idle"} : prog' = ProgReset(pc)

Foreign ==
  /\ prog.pc = "none"
  /\ clint' \in ClintState
  /\ UNCHANGED prog

TimerNext == Tick \/ ProgStep \/ Restart \/ Foreign

TimerSpec == TimerInit /\ [][TimerNext]_timerVars

-----------------------------------------------------------------------------
\* The timer's wire rises for no other time than one the program has asked for
\* (clint.c:28-33, 136-139): the deadline that is set, or, with the last store
\* of a new one to come, that one.  No half of either makes a third time.
NoEarlyTimer ==
  prog.pc # "none" /\ Mtip(clint) =>
    \/ Reached(clint.mtime, prog.deadline)
    \/ prog.pc = "low" /\ Reached(clint.mtime, prog.target)

\* The halves that the loop takes for the time (clint.c:17-18, 54-55) were the
\* time at one moment, even if the clock has carried between the readings.
TimeIsRead ==
  prog.pc = "again" /\ Confirmed => [hi |-> prog.hi, lo |-> prog.lo] = prog.at
=============================================================================
