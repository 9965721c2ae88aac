------------------------------ MODULE SnakeSoc -------------------------------
(***************************************************************************)
(* The life of the simulated SoC in its process: it is constructed in      *)
(* stages, each of which may find no memory, loads a program or not, ticks *)
(* its devices while the program uses them, and is taken down, by a second *)
(* construction, by the end of the simulation or by the exit of the        *)
(* process, which also has the host's terminal to give back.               *)
(***************************************************************************)
EXTENDS Timer, Registers, Runtime

VARIABLES
  io,          \* the UART, the interrupt aggregator and the keyboard
  g_soc,       \* the DPI bridge has an SoC
  at,          \* how far its construction is; "idle" outside of it
  blocks,      \* how many of each kind of block are allocated
  tickables,   \* the ticker's devices, in their order
  terminal,    \* the TerminalBackend singleton and the host's terminal
  software     \* the program that runs

socVars == <<io, g_soc, at, blocks, tickables, terminal, software>>
vars    == <<timerVars, heapVars, call, socVars>>

\* The blocks of an SoC.
Kinds == {"soc", "dram", "backing", "map", "units", "ticker", "tickables"}

\* The constructor's stages, in their order; each gets the block of its name, "regrow"
\* apart, the second enlargement of the map's array, which moves it.
NextStage == [soc |-> "dram", dram |-> "backing", backing |-> "map", map |-> "units",
              units |-> "regrow", regrow |-> "ticker", ticker |-> "tickables"]

Programs == {"none", "timer", "any", "heap", "text"}
AllTickables == <<"clint", "uart", "irq_agg">>

Mode     == {"cooked", "raw"}
Terminal == [mode : Mode, initialized : BOOLEAN, saved : Mode \cup {"none"}, exited : BOOLEAN]

SocTypeOK ==
  /\ TimerTypeOK /\ HeapTypeOK
  /\ io \in Device
  /\ g_soc \in BOOLEAN
  /\ at \in {"idle", "tickables", "elf"} \cup DOMAIN NextStage
  /\ blocks \in [Kinds -> 0 .. 1]
  /\ \E k \in 0 .. 3 : tickables = SubSeq(AllTickables, k + 1, 3)
  /\ terminal \in Terminal
  /\ software \in Programs

SocInit ==
  /\ TimerInit /\ HeapInit /\ call = NoCall
  /\ io = DevicesReset
  /\ g_soc = FALSE /\ at = "idle"
  /\ blocks = [k \in Kinds |-> 0] /\ tickables = <<>>
  /\ terminal = [mode |-> "cooked", initialized |-> FALSE, saved |-> "none", exited |-> FALSE]
  /\ software = "none"

-----------------------------------------------------------------------------
\* The destructors free what the pointers lead to; free(NULL) is nothing.
Reachable == IF tickables = <<>> THEN Kinds \ {"tickables"} ELSE Kinds

Freed(kinds) == [k \in Kinds |-> IF k \in kinds THEN blocks[k] - 1 ELSE blocks[k]]

\* A program begins with the memory the start-up code prepares.
Program(p, pc) ==
  /\ software' = p
  /\ prog' = ProgReset(pc)
  /\ call' = NoCall
  /\ heap_ptr' = Null /\ allocated_cnt' = 0 /\ unpaired' = FALSE
  /\ live' = [h \in {} |-> 0]

\* The devices of a new SoC, which also stand for those of none.  What is typed and
\* not read stays with the host.
FreshDevices ==
  /\ clint' = ClintReset
  /\ io' = [DevicesReset EXCEPT !.stdin = io.stdin]

Destructs ==
  /\ blocks' = Freed(Reachable)
  /\ tickables' = <<>>
  /\ g_soc' = FALSE
  /\ FreshDevices /\ Program("none", "none")

-----------------------------------------------------------------------------
\* dpi_snake_soc_init takes an SoC that is there down before it makes another.
InitStarts ==
  /\ at = "idle" /\ ~terminal.exited
  /\ at' = "soc"
  /\ IF g_soc THEN Destructs
     ELSE UNCHANGED <<timerVars, heapVars, call, io, g_soc, blocks, tickables, software>>
  /\ UNCHANGED terminal

\* stdin is a terminal that answers, and goes raw, or it is not.
RawOrNot(t) == {[t EXCEPT !.initialized = TRUE],
                [t EXCEPT !.initialized = TRUE, !.saved = t.mode, !.mode = "raw"]}

\* Mutant of TerminalInit: the terminal's settings are taken again.
TerminalInitAgain(t) == RawOrNot(t)

\* terminal_backend_init.
TerminalInit(t) == IF t.initialized THEN {t} ELSE RawOrNot(t)

\* Mutant of ConstructsDevices: the timer is what calloc leaves.
ConstructsZeroed ==
  /\ clint' = [ClintReset EXCEPT !.mtimecmp = ClintReset.mtime]
  /\ io' = [DevicesReset EXCEPT !.stdin = io.stdin]
  /\ terminal' \in TerminalInit(terminal)
  /\ UNCHANGED <<prog, heapVars, call, software>>

\* The devices inside the SoC's block, and the terminal they share.
ConstructsDevices ==
  /\ FreshDevices
  /\ terminal' \in TerminalInit(terminal)
  /\ UNCHANGED <<prog, heapVars, call, software>>

\* A stage before the last gets its memory.
Allocates ==
  /\ at \in DOMAIN NextStage
  /\ at' = NextStage[at]
  /\ blocks' = IF at = "regrow" THEN blocks ELSE [blocks EXCEPT ![at] = @ + 1]
  /\ IF at = "soc" THEN ConstructsDevices
     ELSE UNCHANGED <<timerVars, heapVars, call, io, terminal, software>>
  /\ UNCHANGED <<g_soc, tickables>>

\* Mutant of Undone: a ticker that cannot be made takes no map down.
UndoneKeepsMap(stage) ==
  CASE stage \in {"soc", "dram"}       -> {"soc"} \ {stage}
    [] stage \in {"backing", "map"}    -> {"soc", "dram", "backing"} \ {stage}
    [] stage \in {"units", "regrow"}   -> {"soc", "dram", "backing", "map"} \cup
                                          (IF stage = "regrow" THEN {"units"} ELSE {})
    [] stage = "ticker"                -> {"soc", "dram", "backing"}

\* Mutant of Undone: the map's array is freed by its own error path and again.
UndoneTwice(stage) ==
  CASE stage \in {"soc", "dram"}       -> {"soc"} \ {stage}
    [] stage \in {"backing", "map"}    -> {"soc", "dram", "backing"} \ {stage}
    [] stage \in {"units", "regrow", "ticker"} -> {"soc", "dram", "backing", "map", "units"}

\* What the error path of a stage frees: DRAM_ctor's own, or that of SnakeSoC_ctor.
Undone(stage) ==
  CASE stage \in {"soc", "dram"}       -> {"soc"} \ {stage}
    [] stage \in {"backing", "map"}    -> {"soc", "dram", "backing"} \ {stage}
    [] stage = "units"                 -> {"soc", "dram", "backing", "map"}
    [] stage \in {"regrow", "ticker"}  -> {"soc", "dram", "backing", "map", "units"}

\* There is no memory for it: the constructor undoes what it has done.
FindsNoMemory ==
  /\ at \in DOMAIN NextStage
  /\ blocks' = Freed(Undone(at))
  /\ at' = "idle"
  /\ UNCHANGED <<timerVars, heapVars, call, io, g_soc, tickables, terminal, software>>

\* Ticker_add, three times.  The first that finds memory makes the array for all;
\* the constructor does not look at what they return.
AddsTickables ==
  /\ at = "tickables"
  /\ \E failures \in 0 .. 3 :
       /\ tickables' = SubSeq(AllTickables, failures + 1, 3)
       /\ blocks' = IF failures < 3 THEN [blocks EXCEPT !["tickables"] = @ + 1] ELSE blocks
  /\ g_soc' = TRUE
  /\ at' = "elf"
  /\ UNCHANGED <<timerVars, heapVars, call, io, terminal, software>>

\* The ELF file, if one is named, becomes the program.
LoadsElf ==
  /\ at = "elf"
  /\ at' = "idle"
  /\ \E p \in Programs : Program(p, IF p = "timer" THEN "idle" ELSE "none")
  /\ UNCHANGED <<clint, io, g_soc, blocks, tickables, terminal>>

RefusesElf ==
  /\ at = "elf"
  /\ at' = "idle"
  /\ Destructs
  /\ UNCHANGED terminal

Fini ==
  /\ at = "idle" /\ g_soc
  /\ Destructs
  /\ UNCHANGED <<at, terminal>>

\* The process ends in its own way: its memory is gone and atexit's handler runs.
Exit ==
  /\ at = "idle" /\ ~terminal.exited
  /\ terminal' = [terminal EXCEPT !.exited = TRUE, !.saved = "none",
                                  !.mode = IF terminal.saved = "none" THEN @ ELSE terminal.saved]
  /\ g_soc' = FALSE /\ blocks' = [k \in Kinds |-> 0] /\ tickables' = <<>>
  /\ clint' = ClintReset /\ io' = DevicesReset
  /\ Program("none", "none")
  /\ UNCHANGED at

-----------------------------------------------------------------------------
\* The devices of the ticker, one after the other.
TickedBy(hw, device) ==
  CASE device = "clint"   -> [hw EXCEPT !.clint = ClintTick(hw.clint)]
    [] device = "uart"    -> [hw EXCEPT !.io = UartTick(hw.io)]
    [] device = "irq_agg" -> [hw EXCEPT !.io = IrqAggTick(hw.io)]
    [] device = "none"    -> hw

\* The ticker has room for four and the constructor adds three.
Nth(n) == IF n <= Len(tickables) THEN tickables[n] ELSE "none"

Ticked(hw) == TickedBy(TickedBy(TickedBy(hw, Nth(1)), Nth(2)), Nth(3))

HwNow == [io |-> io, clint |-> clint]
BecomesHw(hw) == io' = hw.io /\ clint' = hw.clint

Running(p) == g_soc /\ at = "idle" /\ software = p

\* dpi_snake_soc_tick.  The clock of a timer program does not wrap in its run; a
\* program that only uses the library leaves the devices as they are.
SocTick ==
  /\ Running("timer") \/ Running("any") \/ Running("none")
  /\ software = "timer" /\ "clint" \in Range(tickables) => clint.mtime # AllOnes
  /\ BecomesHw(Ticked(HwNow))
  /\ UNCHANGED <<prog, heapVars, call, g_soc, at, blocks, tickables, terminal, software>>

TimerRuns == Running("timer") /\ ProgStep /\ UNCHANGED <<heapVars, call, socVars>>

\* The timer's wire, which is low without an SoC.
dpi_mtip == g_soc /\ Mtip(clint)

\* Any store to any register.
Writes ==
  /\ Running("any")
  /\ \E s \in Stores, hostTakes \in BOOLEAN : BecomesHw(RegWrite(HwNow, s, hostTakes).hw)
  /\ UNCHANGED <<prog, heapVars, call, g_soc, at, blocks, tickables, terminal, software>>

HeapRuns == Running("heap") /\ HeapNext /\ UNCHANGED <<timerVars, call, socVars>>

TextRuns == Running("text") /\ (Calls \/ Returns) /\ UNCHANGED <<timerVars, heapVars, socVars>>

\* A byte is typed when the one before has been read.
HostTypes ==
  /\ Running("any") /\ io.stdin = <<>>
  /\ \E b \in Byte : io' = [io EXCEPT !.stdin = <<b>>]
  /\ UNCHANGED <<timerVars, heapVars, call, g_soc, at, blocks, tickables, terminal, software>>

Construction == InitStarts \/ Allocates \/ FindsNoMemory \/ AddsTickables \/ LoadsElf \/ RefusesElf
Teardown == Fini \/ Exit
Operation == SocTick \/ TimerRuns \/ Writes \/ HeapRuns \/ TextRuns \/ HostTypes

SocNext == Construction \/ Teardown \/ Operation

\* A core that commits ticks the devices, for as long as there is an SoC.
SocSpec == SocInit /\ [][SocNext]_vars /\ WF_vars(SocTick)

-----------------------------------------------------------------------------
\* Whatever allocation fails, in whichever construction, and wherever the program
\* was when its SoC went: outside of a constructor every block that is allocated is
\* one that g_soc leads to, once (snake_soc.c:71-149, dram.c:72-118).
NothingLeaks ==
  at \in {"idle", "elf"} =>
    \A k \in Kinds : blocks[k] = IF g_soc /\ k \in Reachable THEN 1 ELSE 0

\* A terminal that was put into raw mode is as it was when the process has ended,
\* however many SoCs there were (terminal_backend.c:38-76): the settings of the
\* first construction are the ones that count.
TerminalRestored == terminal.exited => terminal.mode = "cooked"

\* A store that is executed again after one tick, as one at the head of the memory
\* stage is when an interrupt comes (mem_stage.sv:106, run store_safety), finds
\* nothing to do, for the registers that are settings, and it stands in the way of
\* nothing that the tick brings: the setting reads as it was stored, every other
\* register, at every width, as without the store (uart.c:30-99, irq_agg.c:19-75,
\* clint.c:37-96).  It is not so for the character sent, the two write-one-to-clear
\* registers and the clock itself.
Settings == {"ENABLE", "MSIP", "MTIMECMP_LO", "MTIMECMP_HI"}

Kept(s) == IF s.reg \in {"ENABLE", "MSIP"} THEN s.value % 2 ELSE s.value

SafeToRepeat ==
  Running("any") =>
    \A s \in {s \in Stores : s.reg \in Settings /\ WordTakes(s)} :
      LET w     == RegWrite(HwNow, s, TRUE)
          after == Ticked(w.hw)
      IN  /\ RegWrite(after, s, TRUE).hw = after
          /\ RegRead(after, s.unit, s.reg, 4) = Answer(Kept(s))
          /\ \A u \in DOMAIN RegsOf : \A r \in RegsOf[u] \ {s.reg} : \A width \in Widths :
               RegRead(after, u, r, width) = RegRead(Ticked(HwNow), u, r, width)

\* A deadline that is set is reached: the timer's wire rises, unless the program
\* sets another or the SoC goes (clint.c:90-96, 136-139).  This needs the CLINT in
\* the ticker, which a construction that found no memory for it leaves out.
Waits(t) ==
  /\ Running("timer") /\ "clint" \in Range(tickables)
  /\ prog.pc \in {"idle", "retry", "lo", "again"} /\ prog.deadline = t

TimerFires ==
  \A t \in Deadlines : Waits(t) ~> (dpi_mtip \/ ~Waits(t))

\* The timer program and its CLINT are a Timer, whatever becomes of the SoC around
\* them (snake_soc.c:81-88, clint.c:103-118): a new SoC begins with a new clock.
TimerInside == TimerSpec
=============================================================================
