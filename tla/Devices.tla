------------------------------- MODULE Devices -------------------------------
(***************************************************************************)
(* The receive side of the SoC's devices: the host terminal, the UART with *)
(* its single-entry receive buffer, the interrupt aggregator behind it,    *)
(* and the ticker that runs them once per committed instruction.  Each     *)
(* operator takes the state of the devices and returns the next one.       *)
(***************************************************************************)
EXTENDS Naturals, Sequences

CONSTANT MaxBytes          \* how many bytes the host types

ASSUME MaxBytesAssumption == MaxBytes \in Nat

Byte == 1 .. MaxBytes      \* the n-th byte typed is n; 0 is an empty register

Device == [stdin        : Seq(Byte),       \* typed and not yet read
           rx_byte      : Byte \cup {0},
           rx_valid     : BOOLEAN,
           uart_rx_edge : BOOLEAN,         \* the wire from the UART
           pending      : BOOLEAN,         \* IRQ_PENDING, bit UART_RX
           enable       : BOOLEAN]         \* IRQ_ENABLE, the same bit

\* The state the constructors leave.
DevicesReset == [stdin |-> <<>>, rx_byte |-> 0, rx_valid |-> FALSE,
                 uart_rx_edge |-> FALSE, pending |-> FALSE, enable |-> FALSE]

------------------------------------------------------------------------------
\* One tick.

\* Mutant of UartTick: a byte that waits is overwritten.
UartTickOverruns(d) ==
  IF d.stdin # <<>>
  THEN [d EXCEPT !.rx_byte = Head(d.stdin), !.stdin = Tail(d.stdin),
                 !.rx_valid = TRUE, !.uart_rx_edge = TRUE]
  ELSE d

\* An empty buffer takes the next byte of the terminal and raises the wire.
UartTick(d) ==
  IF ~d.rx_valid /\ d.stdin # <<>>
  THEN [d EXCEPT !.rx_byte = Head(d.stdin), !.stdin = Tail(d.stdin),
                 !.rx_valid = TRUE, !.uart_rx_edge = TRUE]
  ELSE d

\* Mutant of IrqAggTick: the bit follows the wire and is not kept.
IrqAggTickForgets(d) == [d EXCEPT !.pending = d.uart_rx_edge, !.uart_rx_edge = FALSE]

\* The wire is latched and taken back.
IrqAggTick(d) ==
  [d EXCEPT !.pending = d.pending \/ d.uart_rx_edge, !.uart_rx_edge = FALSE]

\* The order of registration: the aggregator ticks after the UART.
TickAll(d) == IrqAggTick(UartTick(d))

------------------------------------------------------------------------------
\* The registers, as software reaches them with whole-word accesses.

\* STATUS, bit RX_VALID.
Status(d) == d.rx_valid

\* RX_DATA: a look at the buffer that does not empty it.
RxData(d) == IF d.rx_valid THEN d.rx_byte ELSE 0

\* A write of 1 to RX_VALID empties the buffer.
Pop(d) == [d EXCEPT !.rx_valid = FALSE, !.rx_byte = 0]

\* A write to IRQ_PENDING clears the bit where it has a 1.
ClearPending(d, bit) == [d EXCEPT !.pending = d.pending /\ ~bit]

\* A write to IRQ_ENABLE.
SetEnable(d, bit) == [d EXCEPT !.enable = bit]

\* The wire to the core.
Meip(d) == d.pending /\ d.enable
==============================================================================
