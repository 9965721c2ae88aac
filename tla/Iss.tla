-------------------------------- MODULE Iss ---------------------------------
(***************************************************************************)
(* The reference the core implements: a machine that executes one          *)
(* instruction per step, with no pipeline, no queue and no memory latency. *)
(* A halt ends the run; where pc points afterwards is left open.           *)
(***************************************************************************)
EXTENDS Isa

CONSTANTS RESET_PC, DAddr, DmemInit, IrqLines

VARIABLES
  imem,      \* what instruction memory holds, never written
  pc, regs, csr,
  mem,       \* data memory
  trapped,   \* the previous step entered a trap
  halted     \* [kind, exit] of the halt, or None

vars == <<imem, pc, regs, csr, mem, trapped, halted>>

Init ==
  /\ pc = RESET_PC
  /\ regs = [r \in Reg |-> 0]
  /\ csr = CsrReset
  /\ mem = DmemInit
  /\ trapped = FALSE
  /\ halted = None

\* The instruction at pc, ir in all that follows; illegal if the word is none.
Fetched == [Meaning(imem[pc]) EXCEPT !.illegal = ~Executes(imem[pc])]

Val(r)     == IF r = 0 THEN 0 ELSE regs[r]
V1(ir)     == Val(ir.rs1)
V2(ir)     == Val(ir.rs2)
Result(ir) == AluResult(ir, pc, V1(ir), V2(ir))
Target(ir) == BranchTarget(ir, pc, V1(ir))
Taken(ir)  == BranchTaken(ir, V1(ir), V2(ir))

Legal(ir) == halted = None /\ ~ir.illegal /\ ~ir.if_bus_error

\* The first instruction of a handler may not trap again.
MayTrap == ~(trapped /\ pc = csr["mtvec"])

SetRd(ir, w) == regs' = IF ir.rd = 0 THEN regs ELSE [regs EXCEPT ![ir.rd] = w]
Retire(to)   == pc' = to /\ trapped' = FALSE /\ UNCHANGED <<imem, halted>>

Int(ir) ==
  /\ Legal(ir)
  /\ ir.fu_type = "INT" \/ ir.sys_kind = "WFI"
  /\ SetRd(ir, Result(ir))
  /\ Retire(NextPc(pc))
  /\ UNCHANGED <<csr, mem>>

Branch(ir) ==
  /\ Legal(ir) /\ ir.fu_type = "BRANCH"
  /\ Taken(ir) => ~Misaligned(Target(ir))
  /\ SetRd(ir, NextPc(pc))
  /\ Retire(IF Taken(ir) THEN Target(ir) ELSE NextPc(pc))
  /\ UNCHANGED <<csr, mem>>

\* An access to an address that is not mapped, or not aligned.
Misses(ir) == Misaligned(Result(ir)) \/ Result(ir) \notin DAddr

Load(ir) ==
  /\ Legal(ir) /\ IsLoad(ir) /\ ~Misses(ir)
  /\ SetRd(ir, mem[Result(ir)])
  /\ Retire(NextPc(pc))
  /\ UNCHANGED <<csr, mem>>

Store(ir) ==
  /\ Legal(ir) /\ IsStore(ir) /\ ~Misses(ir)
  /\ mem' = [mem EXCEPT ![Result(ir)] = V2(ir)]
  /\ Retire(NextPc(pc))
  /\ UNCHANGED <<regs, csr>>

Csr(ir) ==
  /\ Legal(ir) /\ ir.fu_type = "CSR" /\ ~CsrIllegal(ir)
  /\ \E mip \in SUBSET IrqLines :
       LET old == ReadCsr(csr, ir.csr_addr, mip) IN
       /\ SetRd(ir, old)
       /\ csr' = IF ir.csr_writes
                 THEN WriteCsr(csr, ir.csr_addr, CsrNew(ir, old, CsrSource(ir, V1(ir))))
                 ELSE csr
  /\ Retire(NextPc(pc))
  /\ UNCHANGED mem

Mret(ir) ==
  /\ Legal(ir) /\ ir.sys_kind = "MRET"
  /\ csr' = MretExit(csr)
  /\ Retire(csr["mepc"])
  /\ UNCHANGED <<regs, mem>>

EnterTrap(ir, cause) ==
  /\ Legal(ir) /\ MayTrap
  /\ csr' = TrapEntry(csr, pc, cause)
  /\ pc' = csr["mtvec"]
  /\ trapped' = TRUE
  /\ UNCHANGED <<imem, regs, mem, halted>>

Ecall(ir) == ir.sys_kind = "ECALL" /\ EnterTrap(ir, CAUSE_ECALL)
Interrupt(ir) == \E line \in EnabledIrqs(csr, IrqLines) : EnterTrap(ir, AsyncCauseOf(line))

\* The word is no instruction, or one that accesses a CSR it may not.
Faulty(ir) == ir.illegal \/ CsrIllegal(ir)

\* The core acts on a word in EXE and finds out in MEM that it is no instruction.
\* With the opcode of a branch it halts for its target, if that is misaligned; as
\* an MRET it has returned from the handler before it halts.
StrayJump(ir) == ir.fu_type = "BRANCH" /\ Misaligned(Target(ir))

StrayReturn(ir, kind) == kind = "ILLEGAL" /\ ir.sys_kind = "MRET"

Stop(ir, kind) ==
  /\ halted = None
  /\ halted' = [kind |-> kind, exit |-> IF kind = "VOLUNTARY" THEN Val(A0) ELSE 0]
  /\ pc' \in Word
  /\ trapped' \in BOOLEAN
  /\ csr' = IF StrayReturn(ir, kind) THEN MretExit(csr) ELSE csr
  /\ UNCHANGED <<imem, regs, mem>>

\* What ends the run.
Halt(ir) ==
  \/ ir.if_bus_error /\ Stop(ir, "BUS_ERROR_IF")
  \/ /\ ~ir.if_bus_error /\ Faulty(ir)
     /\ Stop(ir, IF StrayJump(ir) THEN "MISALIGN_PC" ELSE "ILLEGAL")
  \/ /\ Legal(ir) /\ ~CsrIllegal(ir)
     /\ \/ ir.sys_kind = "EBREAK" /\ Stop(ir, "VOLUNTARY")
        \/ ir.sys_kind = "ECALL" /\ ~MayTrap /\ Stop(ir, "DOUBLE_TRAP")
        \/ Taken(ir) /\ Misaligned(Target(ir)) /\ Stop(ir, "MISALIGN_PC")
        \/ /\ IsLoad(ir) /\ Misses(ir)
           /\ Stop(ir, IF Misaligned(Result(ir)) THEN "MISALIGN_LD" ELSE "BUS_ERROR_LD")
        \/ /\ IsStore(ir) /\ Misses(ir)
           /\ Stop(ir, IF Misaligned(Result(ir)) THEN "MISALIGN_ST" ELSE "BUS_ERROR_ST")

\* An interrupt that is enabled on the first instruction of a handler.
InterruptHalt(ir) ==
  Legal(ir) /\ ~MayTrap /\ EnabledIrqs(csr, IrqLines) # {} /\ Stop(ir, "DOUBLE_TRAP")

Next ==
  \E ir \in {Fetched} :
    \/ Int(ir) \/ Branch(ir) \/ Load(ir) \/ Store(ir) \/ Csr(ir) \/ Mret(ir)
    \/ Ecall(ir) \/ Interrupt(ir) \/ Halt(ir) \/ InterruptHalt(ir)

Spec == Init /\ [][Next]_vars
=============================================================================
