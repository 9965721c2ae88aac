-------------------------- MODULE ReceivePathProofs --------------------------
(***************************************************************************)
(* Proofs about ReceivePath, for any number of bytes that are typed.       *)
(***************************************************************************)
EXTENDS ReceivePath, TLAPS

\* The wire of the UART is latched in the tick that raises it.
WireInv == ~dev.uart_rx_edge

\* Which part of the software runs, and who may wait.
HartInv ==
  /\ hart.running = "main" <=> hart.main # "started"
  /\ hart.main = "enable" \/ dev.enable
  /\ hart.running \in {"main", "rx"} => hart.rx # "blocked"
  /\ IsrAt("clear") /\ hart.sampled => hart.sem

\* Nothing is typed before the demo runs.
QuietInv ==
  ~EarlyBytes /\ hart.main # "started" => dev.stdin = <<>> /\ ~dev.rx_valid

WakeInv == TypeOK /\ WireInv /\ HartInv /\ QuietInv /\ (~EarlyBytes => NoLostWakeup)

\* 1 while a byte is in the UART's buffer.
Held == IF dev.rx_valid THEN 1 ELSE 0

\* The bytes printed, the one in the buffer and those on stdin are the ones typed,
\* in their order.
OrderInv ==
  ~repeated =>
    /\ \A i \in 1 .. Len(received) : received[i] = i
    /\ dev.rx_valid => dev.rx_byte = Len(received) + 1
    /\ \A k \in 1 .. Len(dev.stdin) : dev.stdin[k] = Len(received) + Held + k
    /\ Len(received) + Held + Len(dev.stdin) = typed
    /\ hart.rx \in {"data", "pop"} => dev.rx_valid
    /\ hart.rx = "pop" => hart.c = dev.rx_byte

-----------------------------------------------------------------------------
\* What one tick does to the devices, besides the aggregator's bit.
LEMMA TickProperties ==
  ASSUME NEW d \in Device, ~d.uart_rx_edge
  PROVE  /\ TickAll(d) \in Device /\ ~TickAll(d).uart_rx_edge
         /\ TickAll(d).enable = d.enable
         /\ d.pending => TickAll(d).pending
         /\ \/ /\ TickAll(d).rx_valid = d.rx_valid /\ TickAll(d).rx_byte = d.rx_byte
               /\ TickAll(d).stdin = d.stdin
            \/ /\ ~d.rx_valid /\ d.stdin # <<>> /\ TickAll(d).rx_valid /\ TickAll(d).pending
               /\ TickAll(d).rx_byte = Head(d.stdin) /\ TickAll(d).stdin = Tail(d.stdin)
<1>1. CASE ~d.rx_valid /\ d.stdin # <<>>
  <2>1. Head(d.stdin) \in Byte /\ Tail(d.stdin) \in Seq(Byte)
    BY <1>1 DEF Device
  <2>2. UartTick(d) = [d EXCEPT !.rx_byte = Head(d.stdin), !.stdin = Tail(d.stdin),
                                !.rx_valid = TRUE, !.uart_rx_edge = TRUE]
    BY <1>1 DEF UartTick
  <2>3. TickAll(d) = [d EXCEPT !.rx_byte = Head(d.stdin), !.stdin = Tail(d.stdin),
                               !.rx_valid = TRUE, !.uart_rx_edge = FALSE, !.pending = TRUE]
    BY <2>1, <2>2 DEF TickAll, IrqAggTick, Device
  <2>4. QED BY <1>1, <2>1, <2>3 DEF Device
<1>2. CASE ~(~d.rx_valid /\ d.stdin # <<>>)
  <2>1. TickAll(d) = d
    BY <1>2 DEF TickAll, IrqAggTick, UartTick, Device
  <2>2. QED BY <2>1
<1>3. QED BY <1>1, <1>2

LEMMA TypeInit == Init => TypeOK
<1> SUFFICES ASSUME Init PROVE TypeOK
  OBVIOUS
<1>1. dev \in Device
  BY DEF Init, DevicesReset, Device
<1>2. hart \in Hart
  BY DEF Init, Hart
<1>3. typed \in 0 .. MaxBytes /\ received \in Seq(Byte \cup {0})
  BY MaxBytesAssumption DEF Init
<1>4. QED BY <1>1, <1>2, <1>3 DEF Init, TypeOK

\* Every step keeps the types.
LEMMA TypeStep == TypeOK /\ WireInv /\ [Next]_vars => TypeOK' /\ WireInv'
<1> SUFFICES ASSUME TypeOK, WireInv, [Next]_vars PROVE TypeOK' /\ WireInv'
  OBVIOUS
<1>1. CASE HostTypes
  <2>1. typed + 1 \in Byte /\ typed + 1 \in 0 .. MaxBytes
    BY <1>1, MaxBytesAssumption DEF HostTypes, TypeOK, Byte
  <2>2. Append(dev.stdin, typed + 1) \in Seq(Byte)
    BY <2>1 DEF TypeOK, Device
  <2>3. dev' = [dev EXCEPT !.stdin = Append(dev.stdin, typed + 1)]
    BY <1>1 DEF HostTypes
  <2>4. dev' \in Device /\ ~dev'.uart_rx_edge
    BY <2>2, <2>3 DEF TypeOK, WireInv, Device
  <2>5. QED BY <1>1, <2>1, <2>4 DEF HostTypes, TypeOK, WireInv, history
<1>2. CASE Edge
  <2>1. dev' \in Device /\ ~dev'.uart_rx_edge
    BY <1>2, TickProperties DEF Edge, TypeOK, WireInv
  <2>2. meip' \in BOOLEAN
    BY <1>2, <2>1 DEF Edge, Meip, Device
  <2>3. QED BY <1>2, <2>1, <2>2 DEF Edge, TypeOK, WireInv, history
<1>3. CASE MainStep
  <2>1. hart' \in Hart
    BY <1>3 DEF MainStep, MainEnables, MainClears, MainStarts, TypeOK, Hart
  <2>2. dev' \in Device /\ ~dev'.uart_rx_edge
    BY <1>3 DEF MainStep, MainEnables, MainClears, MainStarts, SetEnable, ClearPending,
                TypeOK, WireInv, Device
  <2>3. QED
    BY <1>3, <2>1, <2>2 DEF MainStep, MainEnables, MainClears, MainStarts, TypeOK, WireInv,
                            world, history
<1>4. CASE Interrupt \/ TimerExpires
  BY <1>4 DEF Interrupt, HandlerEntry, TimerExpires, TypeOK, WireInv, Hart, world, history
<1>5. CASE IsrStep
  <2>1. dev.pending \in BOOLEAN
    BY DEF TypeOK, Device
  <2>2. CASE IsrSamples
    BY <2>1, <2>2 DEF IsrSamples, TypeOK, WireInv, Hart, world, history
  <2>3. CASE IsrGives
    BY <2>3 DEF IsrGives, GiveFromISR, TypeOK, WireInv, Hart, world, history
  <2>4. CASE IsrClears
    BY <2>4 DEF IsrClears, ClearPending, TypeOK, WireInv, Device, Hart, world, history
  <2>5. CASE IsrExits \/ IsrTimer
    BY <2>5 DEF IsrExits, IsrTimer, TypeOK, WireInv, Hart, world, history
  <2>6. CASE MretInterrupted
    BY <2>6 DEF MretInterrupted, HandlerEntry, TypeOK, WireInv, Hart, world, history
  <2>7. QED BY <1>5, <2>2, <2>3, <2>4, <2>5, <2>6 DEF IsrStep
<1>6. CASE RxStep
  <2>1. CASE RxTakes \/ RxReadsStatus
    <3>1. hart' \in Hart
      BY <2>1 DEF RxTakes, RxReadsStatus, TypeOK, Hart
    <3>2. QED BY <2>1, <3>1 DEF RxTakes, RxReadsStatus, TypeOK, WireInv, world, history
  <2>2. CASE RxReadsData
    <3>1. RxData(dev) \in Byte \cup {0}
      BY DEF RxData, TypeOK, Device
    <3>2. QED BY <2>2, <3>1 DEF RxReadsData, TypeOK, WireInv, Hart, world, history
  <2>3. CASE RxPops
    <3>1. dev' \in Device /\ ~dev'.uart_rx_edge
      BY <2>3 DEF RxPops, Pop, TypeOK, WireInv, Device
    <3>2. hart' \in Hart
      BY <2>3 DEF RxPops, TypeOK, Hart
    <3>3. received' \in Seq(Byte \cup {0})
      BY <2>3 DEF RxPops, TypeOK, Hart
    <3>4. QED BY <2>3, <3>1, <3>2, <3>3 DEF RxPops, TypeOK, WireInv, world
  <2>4. QED BY <1>6, <2>1, <2>2, <2>3 DEF RxStep
<1>7. CASE PopInterrupted
  <2>1. dev' \in Device /\ ~dev'.uart_rx_edge
    BY <1>7 DEF PopInterrupted, Pop, TypeOK, WireInv, Device
  <2>2. hart' \in Hart
    BY <1>7 DEF PopInterrupted, HandlerEntry, TypeOK, Hart
  <2>3. QED BY <1>7, <2>1, <2>2 DEF PopInterrupted, TypeOK, WireInv, world
<1>8. CASE UNCHANGED vars
  BY <1>8 DEF vars, TypeOK, WireInv
<1>9. QED BY <1>1, <1>2, <1>3, <1>4, <1>5, <1>6, <1>7, <1>8 DEF Next

-----------------------------------------------------------------------------
\* With nothing typed early, no step loses the wakeup.
LEMMA WakeStep == ~EarlyBytes /\ WakeInv /\ [Next]_vars => WakeInv'
<1> SUFFICES ASSUME ~EarlyBytes, WakeInv, [Next]_vars PROVE WakeInv'
  OBVIOUS
<1>1. TypeOK' /\ WireInv'
  BY TypeStep DEF WakeInv
<1>2. dev \in Device /\ hart \in Hart /\ ~dev.uart_rx_edge
  BY DEF WakeInv, TypeOK, WireInv
<1> USE DEF WakeInv
<1>3. SUFFICES HartInv' /\ QuietInv' /\ NoLostWakeup'
  BY <1>1
<1>4. CASE HostTypes
  <2>1. dev' = [dev EXCEPT !.stdin = Append(dev.stdin, typed + 1)] /\ hart' = hart
        /\ hart.main = "started"
    BY <1>4 DEF HostTypes
  <2>2. /\ dev'.rx_valid = dev.rx_valid /\ dev'.enable = dev.enable
        /\ dev'.pending = dev.pending
    BY <1>2, <2>1 DEF Device
  <2>3. QED BY <2>1, <2>2 DEF HartInv, QuietInv, NoLostWakeup, Meip, IsrAt
<1>5. CASE Edge
  <2>1. (dev' = dev \/ dev' = TickAll(dev)) /\ hart' = hart
    BY <1>5 DEF Edge
  <2>2. CASE dev' = dev
    BY <2>1, <2>2 DEF HartInv, QuietInv, NoLostWakeup, Meip, IsrAt
  <2>3. CASE dev' = TickAll(dev)
    BY <1>2, <2>1, <2>3, TickProperties DEF HartInv, QuietInv, NoLostWakeup, Meip, IsrAt
  <2>4. QED BY <2>1, <2>2, <2>3
<1>6. CASE MainEnables
  <2>1. dev' = [dev EXCEPT !.enable = TRUE] /\ hart' = [hart EXCEPT !.main = "clear"]
        /\ hart.running = "main" /\ hart.main = "enable"
    BY <1>6 DEF MainEnables, MainAt, SetEnable
  <2>2. QED BY <1>2, <2>1 DEF HartInv, QuietInv, NoLostWakeup, Device, Hart, IsrAt
<1>7. CASE MainClears
  <2>1. dev' = [dev EXCEPT !.pending = FALSE] /\ hart' = [hart EXCEPT !.main = "start"]
        /\ hart.running = "main" /\ hart.main = "clear"
    BY <1>2, <1>7 DEF MainClears, MainAt, ClearPending, Device
  <2>2. QED BY <1>2, <2>1 DEF HartInv, QuietInv, NoLostWakeup, Device, Hart, IsrAt
<1>8. CASE MainStarts
  <2>1. hart' = [hart EXCEPT !.main = "started", !.running = "rx"] /\ dev' = dev
        /\ hart.running = "main" /\ hart.main = "start"
    BY <1>8 DEF MainStarts, MainAt
  <2>2. QED BY <1>2, <2>1 DEF HartInv, QuietInv, NoLostWakeup, Hart, IsrAt
<1>9. CASE Interrupt
  <2>1. hart' = [hart EXCEPT !.running = "isr", !.isr = HandlerEntry] /\ dev' = dev
        /\ hart.running \in {"rx", "other"} /\ HandlerEntry \in {"sample", "timer"}
    BY <1>9 DEF Interrupt, HandlerEntry
  <2>2. QED BY <1>2, <2>1 DEF HartInv, QuietInv, NoLostWakeup, Hart, IsrAt, Meip
<1>10. CASE IsrSamples
  <2>1. hart' = [hart EXCEPT !.sampled = dev.pending, !.isr = "give"] /\ dev' = dev
        /\ hart.running = "isr" /\ hart.isr = "sample"
    BY <1>10 DEF IsrSamples, IsrAt
  <2>2. QED BY <1>2, <2>1 DEF HartInv, QuietInv, NoLostWakeup, Hart, IsrAt, Meip
<1>11. CASE IsrGives
  <2>1. dev' = dev /\ hart.running = "isr" /\ hart.isr = "give"
    BY <1>11 DEF IsrGives, IsrAt
  <2>2. CASE hart.sampled
    <3>1. hart' = [hart EXCEPT !.sem = TRUE, !.isr = "clear",
                               !.rx = IF hart.rx = "blocked" THEN "take" ELSE hart.rx]
      BY <1>2, <1>11, <2>2 DEF IsrGives, GiveFromISR, Hart
    <3>2. QED BY <1>2, <2>1, <3>1 DEF HartInv, QuietInv, NoLostWakeup, Hart, IsrAt, Meip
  <2>3. CASE ~hart.sampled
    <3>1. hart' = [hart EXCEPT !.isr = "clear"]
      BY <1>11, <2>3 DEF IsrGives
    <3>2. QED BY <1>2, <2>1, <2>3, <3>1 DEF HartInv, QuietInv, NoLostWakeup, Hart, IsrAt, Meip
  <2>4. QED BY <2>2, <2>3
<1>12. CASE IsrClears
  <2>1. hart' = [hart EXCEPT !.isr = "exit"] /\ hart.running = "isr" /\ hart.isr = "clear"
        /\ dev' = [dev EXCEPT !.pending = dev.pending /\ ~hart.sampled]
    BY <1>12 DEF IsrClears, IsrAt, ClearPending
  <2>2. /\ dev'.rx_valid = dev.rx_valid /\ dev'.enable = dev.enable
        /\ dev'.stdin = dev.stdin /\ (~hart.sampled => dev'.pending = dev.pending)
    BY <1>2, <2>1 DEF Device
  <2>3. /\ hart'.main = hart.main /\ hart'.running = "isr" /\ hart'.isr = "exit"
        /\ hart'.sem = hart.sem /\ hart'.rx = hart.rx
    BY <1>2, <2>1 DEF Hart
  <2>4. QED BY <1>2, <2>1, <2>2, <2>3 DEF HartInv, QuietInv, NoLostWakeup, IsrAt, Meip
<1>13. CASE IsrExits
  <2>1. hart' = [hart EXCEPT !.running = IF hart.rx = "blocked" THEN "other" ELSE "rx"]
        /\ dev' = dev /\ hart.running = "isr" /\ hart.isr = "exit"
    BY <1>13 DEF IsrExits, Returns, IsrAt
  <2>2. QED BY <1>2, <2>1 DEF HartInv, QuietInv, NoLostWakeup, Hart, IsrAt, Meip
<1>14. CASE RxTakes
  <2>1. /\ hart' = IF hart.sem THEN [hart EXCEPT !.sem = FALSE, !.rx = "status"]
                               ELSE [hart EXCEPT !.rx = "blocked", !.running = "other"]
        /\ dev' = dev /\ hart.running = "rx" /\ hart.rx = "take"
    BY <1>14 DEF RxTakes, RxAt
  <2>2. QED BY <1>2, <2>1 DEF HartInv, QuietInv, NoLostWakeup, Hart, IsrAt, Meip
<1>15. CASE RxReadsStatus
  <2>1. hart' = [hart EXCEPT !.rx = IF dev.rx_valid THEN "data" ELSE "take"]
        /\ dev' = dev /\ hart.running = "rx"
    BY <1>15 DEF RxReadsStatus, RxAt, Status
  <2>2. QED BY <1>2, <2>1 DEF HartInv, QuietInv, NoLostWakeup, Hart, IsrAt, Meip
<1>16. CASE RxReadsData
  <2>1. hart' = [hart EXCEPT !.c = RxData(dev), !.rx = "pop"]
        /\ dev' = dev /\ hart.running = "rx"
    BY <1>16 DEF RxReadsData, RxAt
  <2>2. QED BY <1>2, <2>1 DEF HartInv, QuietInv, NoLostWakeup, Hart, IsrAt, Meip
<1>17. CASE RxPops \/ PopInterrupted
  <2>1. dev' = [dev EXCEPT !.rx_valid = FALSE, !.rx_byte = 0] /\ hart.running = "rx"
        /\ \/ hart' = [hart EXCEPT !.running = "isr", !.isr = HandlerEntry]
           \/ hart' = [hart EXCEPT !.rx = "status"]
        /\ HandlerEntry \in {"sample", "timer"}
    BY <1>17 DEF RxPops, PopInterrupted, HandlerEntry, Pop, RxAt
  <2>2. ~dev'.rx_valid /\ dev'.enable = dev.enable /\ dev'.stdin = dev.stdin
    BY <1>2, <2>1 DEF Device
  <2>3. QED BY <1>2, <2>1, <2>2 DEF HartInv, QuietInv, NoLostWakeup, Hart, IsrAt
<1>18. CASE MretInterrupted
  <2>1. hart' = [hart EXCEPT !.isr = HandlerEntry,
                             !.rx = IF hart.rx = "blocked" THEN "blocked" ELSE "lost"]
        /\ dev' = dev /\ hart.running = "isr" /\ hart.isr = "exit"
        /\ HandlerEntry \in {"sample", "timer"}
    BY <1>18 DEF MretInterrupted, Returns, HandlerEntry, IsrAt
  <2>2. QED BY <1>2, <2>1 DEF HartInv, QuietInv, NoLostWakeup, Hart, IsrAt, Meip
<1>19. CASE IsrTimer \/ TimerExpires
  <2>1. dev' = dev /\ (hart' = hart \/ hart' = [hart EXCEPT !.isr = "exit"])
        /\ (hart' = hart \/ (hart.running = "isr" /\ hart.isr = "timer"))
    BY <1>19 DEF IsrTimer, TimerExpires, IsrAt
  <2>2. QED BY <1>2, <2>1 DEF HartInv, QuietInv, NoLostWakeup, Hart, IsrAt, Meip
<1>20. CASE UNCHANGED vars
  BY <1>20 DEF vars, HartInv, QuietInv, NoLostWakeup, IsrAt, Meip
<1>21. QED
  BY <1>4, <1>5, <1>6, <1>7, <1>8, <1>9, <1>10, <1>11, <1>12, <1>13, <1>14, <1>15, <1>16,
     <1>17, <1>18, <1>19, <1>20 DEF Next, MainStep, IsrStep, RxStep

LEMMA WakeInit == Init => WakeInv
  BY TypeInit
  DEF Init, WakeInv, WireInv, HartInv, QuietInv, NoLostWakeup, DevicesReset, IsrAt

\* If nothing is typed before the demo runs then, whatever is typed later and
\* whatever else interrupts, no byte waits that a task which still runs has not
\* been told of.
THEOREM WakeupIsKept == ~EarlyBytes /\ Spec => []NoLostWakeup
<1>1. CASE EarlyBytes
  BY <1>1
<1>2. CASE ~EarlyBytes
  <2>1. WakeInv /\ [Next]_vars => WakeInv'
    BY <1>2, WakeStep
  <2>2. WakeInv => NoLostWakeup
    BY <1>2 DEF WakeInv
  <2>3. QED BY WakeInit, <2>1, <2>2, PTL DEF Spec
<1>3. QED BY <1>1, <1>2

-----------------------------------------------------------------------------
\* Sums of lengths, for the provers.
LEMMA Sums ==
  \A a, b, h \in Nat :
    /\ a + h + (b + 1) = (a + h + b) + 1
    /\ a + 0 + (b + 1) = a + 1 + b
    /\ b >= 1 => a + 1 + (b - 1) = a + 0 + b
    /\ (a + 1) + 0 + b = a + 1 + b
  OBVIOUS

LEMMA OrderInit == Init => OrderInv
  BY DEF Init, OrderInv, DevicesReset, Held

\* No step puts a byte out of its order.
LEMMA OrderStep == TypeOK /\ WireInv /\ OrderInv /\ [Next]_vars => OrderInv'
<1> SUFFICES ASSUME TypeOK, WireInv, OrderInv, [Next]_vars, ~repeated' PROVE OrderInv'
  BY DEF OrderInv
<1>1. ~repeated
  BY DEF Next, HostTypes, Edge, MainStep, MainEnables, MainClears, MainStarts, Interrupt,
         IsrStep, IsrSamples, IsrGives, IsrClears, IsrTimer, IsrExits, MretInterrupted,
         TimerExpires, RxStep, RxTakes, RxReadsStatus, RxReadsData, RxPops, PopInterrupted,
         history, vars
<1>2. /\ dev \in Device /\ hart \in Hart /\ ~dev.uart_rx_edge /\ typed \in Nat
      /\ dev.stdin \in Seq(Byte) /\ received \in Seq(Byte \cup {0})
      /\ Len(received) \in Nat /\ Len(dev.stdin) \in Nat
  BY MaxBytesAssumption DEF TypeOK, WireInv, Device
<1>3. CASE HostTypes
  <2>1. /\ dev' = [dev EXCEPT !.stdin = Append(dev.stdin, typed + 1)] /\ typed' = typed + 1
        /\ UNCHANGED <<hart, received, repeated>>
    BY <1>3 DEF HostTypes, history
  <2>2. /\ dev'.stdin = Append(dev.stdin, typed + 1) /\ dev'.rx_valid = dev.rx_valid
        /\ dev'.rx_byte = dev.rx_byte
    BY <1>2, <2>1 DEF Device
  <2>3. /\ Len(dev'.stdin) = Len(dev.stdin) + 1
        /\ \A k \in 1 .. Len(dev.stdin) : dev'.stdin[k] = dev.stdin[k]
        /\ dev'.stdin[Len(dev.stdin) + 1] = typed + 1
    BY <1>2, <2>2
  <2>4. Held' = Held /\ Held \in 0 .. 1
    BY <2>2 DEF Held
  <2>5. \A k \in 1 .. Len(dev'.stdin) : dev'.stdin[k] = Len(received) + Held + k
    <3>1. TAKE k \in 1 .. Len(dev'.stdin)
    <3>2. CASE k \in 1 .. Len(dev.stdin)
      BY <1>1, <2>3, <3>2 DEF OrderInv
    <3>3. CASE k = Len(dev.stdin) + 1
      <4>1. typed = Len(received) + Held + Len(dev.stdin)
        BY <1>1 DEF OrderInv
      <4>2. dev'.stdin[k] = typed + 1
        BY <2>3, <3>3
      <4>3. /\ Len(received) \in Nat /\ Len(dev.stdin) \in Nat /\ Held \in Nat
            /\ typed \in Nat
        BY <1>2, <2>4
      <4>4. QED BY <3>3, <4>1, <4>2, <4>3, Sums
    <3>4. QED BY <1>2, <2>3, <3>2, <3>3
  <2>6. Len(received) + Held + Len(dev'.stdin) = typed'
    <3>1. typed = Len(received) + Held + Len(dev.stdin)
      BY <1>1 DEF OrderInv
    <3>2. /\ Len(received) \in Nat /\ Len(dev.stdin) \in Nat /\ Held \in Nat
          /\ typed \in Nat
      BY <1>2, <2>4
    <3>3. Len(dev'.stdin) = Len(dev.stdin) + 1 /\ typed' = typed + 1
      BY <2>1, <2>3
    <3>4. Len(received) + Held + (Len(dev.stdin) + 1)
            = (Len(received) + Held + Len(dev.stdin)) + 1
      BY <3>2, Sums
    <3>5. QED BY <3>1, <3>3, <3>4
  <2>7. QED BY <1>1, <2>1, <2>2, <2>4, <2>5, <2>6 DEF OrderInv
<1>4. CASE Edge
  <2>1. (dev' = dev \/ dev' = TickAll(dev)) /\ UNCHANGED <<typed, hart, received, repeated>>
    BY <1>4 DEF Edge, history
  <2>2. CASE /\ dev'.rx_valid = dev.rx_valid /\ dev'.rx_byte = dev.rx_byte
             /\ dev'.stdin = dev.stdin
    BY <1>1, <2>1, <2>2 DEF OrderInv, Held
  <2>3. CASE /\ ~dev.rx_valid /\ dev.stdin # <<>> /\ dev'.rx_valid
             /\ dev'.rx_byte = Head(dev.stdin) /\ dev'.stdin = Tail(dev.stdin)
    <3>1. /\ Len(dev'.stdin) = Len(dev.stdin) - 1 /\ Len(dev.stdin) >= 1
          /\ dev'.rx_byte = dev.stdin[1]
          /\ \A k \in 1 .. Len(dev'.stdin) : dev'.stdin[k] = dev.stdin[k + 1]
      BY <1>2, <2>3
    <3>2. Held = 0 /\ Held' = 1
      BY <2>3 DEF Held
    <3>3. /\ \A k \in 1 .. Len(dev.stdin) : dev.stdin[k] = Len(received) + 0 + k
          /\ Len(received) + 0 + Len(dev.stdin) = typed
      BY <1>1, <3>2 DEF OrderInv
    <3>4. hart.rx \notin {"data", "pop"}
      BY <1>1, <2>3 DEF OrderInv
    <3>5. dev'.rx_byte = Len(received) + 1
      BY <1>2, <3>1, <3>3
    <3>6. /\ \A k \in 1 .. Len(dev'.stdin) : dev'.stdin[k] = Len(received) + 1 + k
          /\ Len(received) + 1 + Len(dev'.stdin) = typed
      <4>1. Len(received) \in Nat /\ Len(dev.stdin) \in Nat /\ typed \in Nat
        BY <1>2
      <4>2. ASSUME NEW k \in 1 .. Len(dev'.stdin) PROVE dev'.stdin[k] = Len(received) + 1 + k
        <5>1. k \in Nat /\ k + 1 \in 1 .. Len(dev.stdin) /\ dev'.stdin[k] = dev.stdin[k + 1]
          BY <3>1, <4>1
        <5>2. dev.stdin[k + 1] = Len(received) + 0 + (k + 1)
          BY <3>3, <5>1
        <5>3. Len(received) + 0 + (k + 1) = Len(received) + 1 + k
          BY <4>1, <5>1, Sums
        <5>4. QED BY <5>1, <5>2, <5>3
      <4>3. Len(received) + 1 + (Len(dev.stdin) - 1) = Len(received) + 0 + Len(dev.stdin)
        BY <3>1, <4>1, Sums
      <4>4. QED BY <3>1, <3>3, <4>2, <4>3
    <3>7. QED BY <1>1, <2>1, <3>2, <3>4, <3>5, <3>6 DEF OrderInv
  <2>4. QED BY <1>2, <2>1, <2>2, <2>3, TickProperties
<1>5. CASE RxPops
  <2>1. /\ dev' = [dev EXCEPT !.rx_valid = FALSE, !.rx_byte = 0]
        /\ hart' = [hart EXCEPT !.rx = "status"] /\ received' = Append(received, hart.c)
        /\ UNCHANGED <<typed, repeated>> /\ hart.rx = "pop"
    BY <1>5 DEF RxPops, Pop, RxAt, world
  <2>2. dev.rx_valid /\ hart.c = Len(received) + 1 /\ Held = 1
    BY <1>1, <2>1 DEF OrderInv, Held
  <2>3. ~dev'.rx_valid /\ dev'.stdin = dev.stdin /\ Held' = 0 /\ hart'.rx = "status"
    BY <1>2, <2>1 DEF Device, Hart, Held
  <2>4. Len(received') = Len(received) + 1 /\ \A i \in 1 .. Len(received') : received'[i] = i
    <3>1. hart.c \in Byte \cup {0}
      BY <1>2 DEF Hart
    <3>2. /\ Len(received') = Len(received) + 1
          /\ received'[Len(received) + 1] = hart.c
          /\ \A i \in 1 .. Len(received) : received'[i] = received[i]
      BY <1>2, <2>1, <3>1
    <3>3. \A i \in 1 .. Len(received) : received[i] = i
      BY <1>1 DEF OrderInv
    <3>4. QED BY <1>2, <2>2, <3>2, <3>3
  <2>5. /\ \A k \in 1 .. Len(dev.stdin) : dev.stdin[k] = Len(received) + 1 + k
        /\ Len(received) + 1 + Len(dev.stdin) = typed
    BY <1>1, <2>2 DEF OrderInv
  <2>6. /\ \A k \in 1 .. Len(dev'.stdin) : dev'.stdin[k] = Len(received') + 0 + k
        /\ Len(received') + 0 + Len(dev'.stdin) = typed'
    <3>1. Len(received) \in Nat /\ Len(dev.stdin) \in Nat /\ typed \in Nat
      BY <1>2
    <3>2. dev'.stdin = dev.stdin /\ typed' = typed /\ Len(received') = Len(received) + 1
      BY <2>1, <2>3, <2>4
    <3>3. \A k \in Nat : (Len(received) + 1) + 0 + k = Len(received) + 1 + k
      BY <3>1, Sums
    <3>4. (Len(received) + 1) + 0 + Len(dev.stdin) = typed
      BY <2>5, <3>1, <3>3
    <3>5. ASSUME NEW k \in 1 .. Len(dev.stdin)
          PROVE  dev.stdin[k] = (Len(received) + 1) + 0 + k
      BY <2>5, <3>1, <3>3
    <3>6. QED BY <3>2, <3>4, <3>5
  <2>7. QED BY <2>3, <2>4, <2>6 DEF OrderInv
<1>6. CASE RxReadsData \/ RxReadsStatus
  <2>1. /\ UNCHANGED <<dev, typed, received, repeated>>
        /\ \/ hart.rx = "data" /\ hart' = [hart EXCEPT !.c = RxData(dev), !.rx = "pop"]
           \/ hart' = [hart EXCEPT !.rx = IF dev.rx_valid THEN "data" ELSE "take"]
    BY <1>6 DEF RxReadsData, RxReadsStatus, RxAt, Status, world, history
  <2>2. Held' = Held
    BY <2>1 DEF Held
  <2>3. /\ hart'.rx \in {"data", "pop"} => dev.rx_valid
        /\ hart'.rx = "pop" => hart'.c = dev.rx_byte
    BY <1>1, <1>2, <2>1 DEF OrderInv, Hart, RxData
  <2>4. QED BY <1>1, <2>1, <2>2, <2>3 DEF OrderInv
<1>7. CASE MainStep \/ Interrupt \/ IsrStep \/ RxTakes \/ TimerExpires
  <2>1. /\ UNCHANGED <<typed, received, repeated>>
        /\ dev'.rx_valid = dev.rx_valid /\ dev'.rx_byte = dev.rx_byte
        /\ dev'.stdin = dev.stdin
    BY <1>2, <1>7
    DEF MainStep, MainEnables, MainClears, MainStarts, SetEnable, ClearPending, Interrupt,
        IsrStep, IsrSamples, IsrGives, IsrClears, IsrTimer, IsrExits, MretInterrupted,
        TimerExpires, RxTakes, world, history, Device
  <2>2. hart'.c = hart.c /\ (hart'.rx = hart.rx \/ hart'.rx \notin {"data", "pop"})
    <3>1. CASE IsrGives
      BY <1>2, <3>1 DEF IsrGives, GiveFromISR, Hart
    <3>2. CASE ~IsrGives
      BY <1>2, <1>7, <3>2
      DEF MainStep, MainEnables, MainClears, MainStarts, Interrupt, IsrStep, IsrSamples,
          IsrClears, IsrTimer, IsrExits, MretInterrupted, TimerExpires, RxTakes, Hart
    <3>3. QED BY <3>1, <3>2
  <2>3. Held' = Held
    BY <2>1 DEF Held
  <2>4. QED BY <1>1, <2>1, <2>2, <2>3 DEF OrderInv
<1>8. CASE PopInterrupted
  BY <1>8 DEF PopInterrupted
<1>9. CASE UNCHANGED vars
  BY <1>9 DEF vars, OrderInv, Held
<1>10. QED
  BY <1>3, <1>4, <1>5, <1>6, <1>7, <1>8, <1>9 DEF Next, RxStep

\* However many bytes there are, each is printed once and in its order.
THEOREM BytesInOrder == Spec => []InOrder
<1>1. Init => TypeOK /\ WireInv /\ OrderInv
  BY TypeInit, OrderInit DEF Init, WireInv, DevicesReset
<1>2. TypeOK /\ OrderInv => InOrder
  BY DEF TypeOK, OrderInv, InOrder
<1>3. QED BY <1>1, TypeStep, OrderStep, <1>2, PTL DEF Spec
=============================================================================
