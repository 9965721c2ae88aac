----------------------------- MODULE ReceivePath -----------------------------
(***************************************************************************)
(* A byte on its way from the terminal to the task that prints it: the     *)
(* devices, the interrupt wire, the handler and the receiving task of the  *)
(* FreeRTOS demo.  The hart runs one of main, the handler, the receiving   *)
(* task and the other tasks at a time; the devices tick between any two of *)
(* its memory accesses.  The kernel is external: a binary semaphore, and   *)
(* the receiving task runs whenever it is not blocked (it has the highest  *)
(* priority).                                                              *)
(***************************************************************************)
EXTENDS Devices

CONSTANT EarlyBytes        \* the host may type before the source is enabled

ASSUME EarlyBytesAssumption == EarlyBytes \in BOOLEAN

VARIABLES
  dev,        \* the devices
  typed,      \* how many bytes were typed
  meip,       \* the register of the testbench that the core reads
  mtip,       \* the same for the timer's wire
  hart,       \* where the software is
  received,   \* what the task has printed
  repeated    \* history: the core has executed a store to STATUS twice

vars == <<dev, typed, meip, mtip, hart, received, repeated>>

Hart == [running : {"main", "isr", "rx", "other"},
         main    : {"enable", "clear", "start", "started"},
         isr     : {"sample", "give", "clear", "timer", "exit"},
         rx      : {"take", "blocked", "status", "data", "pop",
                    "lost"},            \* at an MRET that returns to itself
         sampled : BOOLEAN,             \* the handler's local variable pending
         c       : Byte \cup {0},       \* what uart_try_getc has read
         sem     : BOOLEAN]             \* xUartRxSem

TypeOK ==
  /\ dev \in Device
  /\ typed \in 0 .. MaxBytes
  /\ meip \in BOOLEAN
  /\ mtip \in BOOLEAN
  /\ hart \in Hart
  /\ received \in Seq(Byte \cup {0})
  /\ repeated \in BOOLEAN

Init ==
  /\ dev = DevicesReset
  /\ typed = 0
  /\ meip = FALSE
  /\ mtip = FALSE
  /\ hart = [running |-> "main", main |-> "enable", isr |-> "sample", rx |-> "take",
             sampled |-> FALSE, c |-> 0, sem |-> FALSE]
  /\ received = <<>>
  /\ repeated = FALSE

MainAt(p) == hart.running = "main" /\ hart.main = p
IsrAt(p)  == hart.running = "isr" /\ hart.isr = p
RxAt(p)   == hart.running = "rx" /\ hart.rx = p

history == <<received, repeated>>
world   == <<typed, meip, mtip>>

------------------------------------------------------------------------------
\* The world around the hart.

\* A byte arrives on stdin.
HostTypes ==
  /\ typed < MaxBytes
  /\ EarlyBytes \/ hart.main = "started"
  /\ typed' = typed + 1
  /\ dev' = [dev EXCEPT !.stdin = Append(dev.stdin, typed + 1)]
  /\ UNCHANGED <<meip, mtip, hart, history>>

\* An edge of the clock, with or without a commit: the devices tick with the
\* commit, and the wire is sampled after them.
Edge ==
  \E commits \in BOOLEAN :
    /\ dev' = IF commits THEN TickAll(dev) ELSE dev
    /\ meip' = Meip(dev')
    /\ UNCHANGED <<typed, mtip, hart, history>>

\* The kernel's deadline is reached: its tick, which may come at any time.
TimerExpires ==
  /\ hart.main = "started"
  /\ mtip' = TRUE
  /\ UNCHANGED <<dev, typed, meip, hart, history>>

------------------------------------------------------------------------------
\* main up to the start of the scheduler, with interrupts off.

MainEnables ==
  /\ MainAt("enable")
  /\ dev' = SetEnable(dev, TRUE)
  /\ hart' = [hart EXCEPT !.main = "clear"]
  /\ UNCHANGED <<world, history>>

MainClears ==
  /\ MainAt("clear")
  /\ dev' = ClearPending(dev, TRUE)
  /\ hart' = [hart EXCEPT !.main = "start"]
  /\ UNCHANGED <<world, history>>

\* The semaphore and the tasks exist, and the receiving task runs first; making
\* them takes long enough for the wire to be sampled.
MainStarts ==
  /\ MainAt("start")
  /\ meip = Meip(dev)
  /\ hart' = [hart EXCEPT !.main = "started", !.running = "rx"]
  /\ UNCHANGED <<dev, world, history>>

------------------------------------------------------------------------------
\* The handler, which runs with interrupts off.

Pending == meip \/ mtip

\* The external interrupt goes first; the port's handler serves the timer's.
HandlerEntry == IF meip THEN "sample" ELSE "timer"

\* The core takes an interrupt at the next instruction of a task.
Interrupt ==
  /\ hart.running \in {"rx", "other"}
  /\ Pending
  /\ hart' = [hart EXCEPT !.running = "isr", !.isr = HandlerEntry]
  /\ UNCHANGED <<dev, world, history>>

\* The port's handler of the tick sets the next deadline.
IsrTimer ==
  /\ IsrAt("timer")
  /\ mtip' = FALSE
  /\ hart' = [hart EXCEPT !.isr = "exit"]
  /\ UNCHANGED <<dev, typed, meip, history>>

IsrSamples ==
  /\ IsrAt("sample")
  /\ hart' = [hart EXCEPT !.sampled = dev.pending, !.isr = "give"]
  /\ UNCHANGED <<dev, world, history>>

\* A second give changes nothing; a task that waits is made ready.
GiveFromISR(h) ==
  [h EXCEPT !.sem = TRUE, !.rx = IF h.rx = "blocked" THEN "take" ELSE h.rx]

\* Mutant of IsrGives: only a task that waits is given the semaphore.
IsrGivesToWaiting ==
  /\ IsrAt("give")
  /\ hart' = [(IF hart.sampled /\ hart.rx = "blocked" THEN GiveFromISR(hart) ELSE hart)
               EXCEPT !.isr = "clear"]
  /\ UNCHANGED <<dev, world, history>>

IsrGives ==
  /\ IsrAt("give")
  /\ hart' = [(IF hart.sampled THEN GiveFromISR(hart) ELSE hart) EXCEPT !.isr = "clear"]
  /\ UNCHANGED <<dev, world, history>>

IsrClears ==
  /\ IsrAt("clear")
  /\ dev' = ClearPending(dev, hart.sampled)
  /\ hart' = [hart EXCEPT !.isr = "exit"]
  /\ UNCHANGED <<world, history>>

\* The handler's last access is long done when its MRET, behind the restored
\* context, returns to the task that runs next.
Returns == IsrAt("exit") /\ meip = Meip(dev)

IsrExits ==
  /\ Returns
  /\ ~Pending
  /\ hart' = [hart EXCEPT !.running = IF hart.rx = "blocked" THEN "other" ELSE "rx"]
  /\ UNCHANGED <<dev, world, history>>

\* An interrupt came while the handler ran.  MRET has enabled it in EXE, and MEM
\* takes it on the MRET itself, whose address replaces the one that the MRET
\* has used: where the task goes on is forgotten (ReturnContextSaved of Cosim).
\* When the receiving task is blocked, it is another task that this happens to.
MretInterrupted ==
  /\ Returns
  /\ Pending
  /\ hart' = [hart EXCEPT !.isr = HandlerEntry,
                          !.rx = IF hart.rx = "blocked" THEN "blocked" ELSE "lost"]
  /\ UNCHANGED <<dev, world, history>>

------------------------------------------------------------------------------
\* The receiving task: xSemaphoreTake, then uart_try_getc until it is empty.

RxTakes ==
  /\ RxAt("take")
  /\ hart' = IF hart.sem THEN [hart EXCEPT !.sem = FALSE, !.rx = "status"]
                         ELSE [hart EXCEPT !.rx = "blocked", !.running = "other"]
  /\ UNCHANGED <<dev, world, history>>

RxReadsStatus ==
  /\ RxAt("status")
  /\ hart' = [hart EXCEPT !.rx = IF Status(dev) THEN "data" ELSE "take"]
  /\ UNCHANGED <<dev, world, history>>

RxReadsData ==
  /\ RxAt("data")
  /\ hart' = [hart EXCEPT !.c = RxData(dev), !.rx = "pop"]
  /\ UNCHANGED <<dev, world, history>>

\* Mutant of RxPops: the byte is printed and stays in the buffer.
RxPrintsOnly ==
  /\ RxAt("pop")
  /\ received' = Append(received, hart.c)
  /\ hart' = [hart EXCEPT !.rx = "take"]
  /\ UNCHANGED <<dev, world, repeated>>

RxPops ==
  /\ RxAt("pop")
  /\ dev' = Pop(dev)
  /\ received' = Append(received, hart.c)
  /\ hart' = [hart EXCEPT !.rx = "status"]
  /\ UNCHANGED <<world, repeated>>

\* The core takes an interrupt on a store that memory has performed
\* (StoresAreSafe of Cosim): the store is executed again after the handler.
PopInterrupted ==
  /\ RxAt("pop")
  /\ Pending
  /\ dev' = Pop(dev)
  /\ hart' = [hart EXCEPT !.running = "isr", !.isr = HandlerEntry]
  /\ repeated' = TRUE
  /\ UNCHANGED <<world, received>>

------------------------------------------------------------------------------
MainStep == MainEnables \/ MainClears \/ MainStarts
IsrStep  == IsrSamples \/ IsrGives \/ IsrClears \/ IsrTimer \/ IsrExits \/ MretInterrupted
RxStep   == RxTakes \/ RxReadsStatus \/ RxReadsData \/ RxPops

Next == HostTypes \/ Edge \/ TimerExpires \/ MainStep \/ Interrupt \/ IsrStep \/ RxStep
          \/ PopInterrupted

\* The core goes on committing (Progress of Core): the devices tick, what
\* runs gets on, and a standing interrupt is taken.  Ticks of the kernel are far
\* apart (FreeRTOSConfig.h:8-12): not every one meets the end of a handler, and
\* between two of them the task that returns does a step.  The host owes nothing.
Fairness ==
  /\ WF_vars(Edge /\ dev' = TickAll(dev))
  /\ WF_vars(MainStep) /\ WF_vars(IsrStep) /\ WF_vars(Interrupt)
  /\ SF_vars(IsrExits) /\ SF_vars(RxStep)

Spec == Init /\ [][Next]_vars /\ Fairness

------------------------------------------------------------------------------
\* No wakeup is lost (main.c:66-80, app_irq_handler.c:53-62): once the demo
\* runs, and as long as the receiving task does, a byte in the UART's buffer is
\* announced, or the handler is about to give the semaphore for it, or has given
\* it, or the task is in the loop that will see it.
NoLostWakeup ==
  hart.main = "started" /\ hart.rx # "lost" /\ dev.rx_valid =>
    \/ Meip(dev)
    \/ IsrAt("give") /\ hart.sampled
    \/ hart.sem
    \/ hart.rx \in {"status", "data", "pop"}

\* Every byte reaches the task once and in order (main.c:70-78, hal/uart.c:32-39),
\* unless the core empties the buffer twice for one byte.
InOrder == ~repeated => \A i \in DOMAIN received : received[i] = i

\* Every byte that is typed is printed (main.c:18-22), unless the core empties the
\* buffer twice or an interrupt meets the MRET that returns to the task.
EveryByteReceived ==
  \A n \in Byte : (typed >= n) ~> (Len(received) >= n \/ repeated \/ hart.rx = "lost")

\* The task empties the buffer (main.c:70-78) for every byte, also when pops are
\* repeated, unless it is lost.
BufferDrains == dev.rx_valid ~> (~dev.rx_valid \/ hart.rx = "lost")
==============================================================================
