------------------------------ MODULE Registers ------------------------------
(***************************************************************************)
(* The register files of the UART, the interrupt aggregator and the CLINT  *)
(* as the memory map reaches them: every width, with all strobes or not,   *)
(* and the offsets behind which there is no register.  A device answers    *)
(* OKAY or SLVERR; a refused access changes nothing.                       *)
(***************************************************************************)
EXTENDS Devices, Clint

\* Both register devices that tick, and the CLINT.
Hw == [io : Device, clint : ClintState]

\* "none" is any other offset, aligned or not, inside the device.
RegsOf == [uart    |-> {"TX_DATA", "STATUS", "RX_DATA", "none"},
           irq_agg |-> {"PENDING", "ENABLE", "none"},
           clint   |-> ClintReg \cup {"none"}]

Widths == {1, 4, 8}         \* 1 stands for 2 too, 8 for every width all devices refuse

Store == [unit : DOMAIN RegsOf, reg : UNION {RegsOf[u] : u \in DOMAIN RegsOf},
          width : Widths, full : BOOLEAN, value : Half]

\* full: all four strobes are set.
Stores == {s \in Store : s.reg \in RegsOf[s.unit]}

Bit(v, b) == (v \div 2 ^ b) % 2 = 1

-----------------------------------------------------------------------------
\* Reads have no side effect: the answer is all there is.
Answer(v) == [resp |-> "OKAY", value |-> v]
Slverr    == [resp |-> "SLVERR", value |-> 0]

UartRead(d, reg, width) ==
  CASE width \in {1, 4} /\ reg = "STATUS"  -> Answer(IF Status(d) THEN 2 ELSE 0)
    [] width \in {1, 4} /\ reg = "RX_DATA" -> Answer(RxData(d))
    [] OTHER -> Slverr

IrqAggRead(d, reg, width) ==
  CASE width = 4 /\ reg = "PENDING" -> Answer(IF d.pending THEN 1 ELSE 0)
    [] width = 4 /\ reg = "ENABLE"  -> Answer(IF d.enable THEN 1 ELSE 0)
    [] OTHER -> Slverr

ClintRead(c, reg, width) ==
  IF width = 4 /\ reg \in ClintReg THEN Answer(ClintValue(c, reg)) ELSE Slverr

RegRead(hw, unit, reg, width) ==
  CASE unit = "uart"    -> UartRead(hw.io, reg, width)
    [] unit = "irq_agg" -> IrqAggRead(hw.io, reg, width)
    [] unit = "clint"   -> ClintRead(hw.clint, reg, width)

-----------------------------------------------------------------------------
\* The devices after a write, its answer and what it prints.
Refused(hw)        == [resp |-> "SLVERR", hw |-> hw, printed |-> <<>>]
Accepted(hw)       == [resp |-> "OKAY", hw |-> hw, printed |-> <<>>]
Prints(hw, c)      == [resp |-> "OKAY", hw |-> hw, printed |-> <<c>>]

\* The UART takes narrow writes and does not look at their strobes.  The host
\* may refuse a character.
UartTakes(s) == s.width = 1 \/ (s.width = 4 /\ s.full)
WordTakes(s) == s.width = 4 /\ s.full

UartWrite(hw, s, hostTakes) ==
  CASE UartTakes(s) /\ s.reg = "TX_DATA" /\ hostTakes -> Prints(hw, s.value)
    [] UartTakes(s) /\ s.reg = "STATUS" ->
         Accepted(IF Bit(s.value, 1) THEN [hw EXCEPT !.io = Pop(hw.io)] ELSE hw)
    [] OTHER -> Refused(hw)

IrqAggWrite(hw, s) ==
  CASE WordTakes(s) /\ s.reg = "PENDING" ->
         Accepted([hw EXCEPT !.io = ClearPending(hw.io, Bit(s.value, 0))])
    [] WordTakes(s) /\ s.reg = "ENABLE" ->
         Accepted([hw EXCEPT !.io = SetEnable(hw.io, Bit(s.value, 0))])
    [] OTHER -> Refused(hw)

ClintWrite(hw, s) ==
  IF WordTakes(s) /\ s.reg \in ClintReg
  THEN Accepted([hw EXCEPT !.clint = ClintStored(hw.clint, s.reg, s.value)])
  ELSE Refused(hw)

RegWrite(hw, s, hostTakes) ==
  CASE s.unit = "uart"    -> UartWrite(hw, s, hostTakes)
    [] s.unit = "irq_agg" -> IrqAggWrite(hw, s)
    [] s.unit = "clint"   -> ClintWrite(hw, s)
=============================================================================
