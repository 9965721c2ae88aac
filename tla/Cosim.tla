------------------------------- MODULE Cosim --------------------------------
(***************************************************************************)
(* The core next to the reference machine.  What the commit stream says    *)
(* about the CSRs and the data memory is gathered in two history           *)
(* variables, as a co-simulator that sees only commits would; the general  *)
(* registers are the register file itself, and the program counter is the  *)
(* address of the oldest instruction that is still alive.                  *)
(***************************************************************************)
EXTENDS Core

VARIABLES
  acsr,   \* the CSRs after the last commit
  amem    \* the data memory after the last commit

historyVars == <<acsr, amem>>
cosimVars   == <<vars, historyVars>>

\* The effect on the CSRs of a token that is alive and past EXE.
CsrEffect(csr, t) ==
  CASE ~Alive(t) -> csr
    [] Alive(t) /\ t.trap_cause # None -> TrapEntry(csr, t.pc, t.trap_cause)
    [] Alive(t) /\ t.trap_cause = None /\ t.ir.sys_kind = "MRET" -> MretExit(csr)
    [] Alive(t) /\ t.trap_cause = None /\ t.ir.fu_type = "CSR"
         /\ t.ir.csr_writes /\ ~t.ir.illegal ->
         WriteCsr(csr, t.ir.csr_addr, t.csr_new)
    [] OTHER -> csr

CosimInit ==
  /\ Init
  /\ acsr = CsrReset
  /\ amem = DmemInit

RecordCommit ==
  /\ acsr' = IF done = None /\ CommitValid THEN CsrEffect(acsr, wb_q) ELSE acsr
  /\ amem' = IF done = None /\ CommitsStore
             THEN [amem EXCEPT ![wb_q.mem_addr] = wb_q.rs2_val] ELSE amem

CosimNext == Next /\ RecordCommit

CosimSpec == CosimInit /\ [][CosimNext]_cosimVars

-----------------------------------------------------------------------------
\* The oldest instruction that has not committed and was not killed.
ArchPc ==
  CASE Alive(wb_q) -> wb_q.pc
    [] ~Alive(wb_q) /\ Alive(mem_q) -> mem_q.pc
    [] ~Alive(wb_q) /\ ~Alive(mem_q) /\ Alive(exe_q) -> exe_q.pc
    [] OTHER -> OldestFetchPc

Ref == INSTANCE Iss WITH
  pc <- ArchPc, regs <- regs_q, csr <- acsr, mem <- amem,
  trapped <- last_step_entered_trap_q, halted <- done

\* Every commit is one step of the reference machine: operands, targets, trap
\* entry and exit and memory contents are those of executing one instruction
\* at a time, whatever was forwarded, stalled, killed or refetched on the way.
ImplementsIss == Ref!Spec

\* The CSR file and the data memory run ahead of the commit stream by exactly
\* the tokens alive in WB and MEM, never by an instruction that is killed later,
\* and not by more when a halt commits (backend.sv:242): nothing kills what is
\* behind the halt, so the store of the instruction behind an EBREAK may be in
\* memory when the run ends, and no other.
CsrRunsAhead == csr_q = CsrEffect(CsrEffect(acsr, wb_q), mem_q)

StoreEffect(mem, t) ==
  IF /\ Alive(t) /\ t.trap_cause = None /\ t.halt_kind = "NONE"
     /\ IsStore(t.ir) /\ t.mem_addr \in DAddr
  THEN [mem EXCEPT ![t.mem_addr] = t.rs2_val] ELSE mem

DmemRunsAhead ==
  dmem = LET committed == StoreEffect(amem, wb_q)
         IN  IF req_sent_q THEN StoreEffect(committed, mem_q) ELSE committed

-----------------------------------------------------------------------------
(* What the documents and comments of the repository say of interrupts and  *)
(* of the commit packet, and what the code does not keep.                   *)

\* A store that an interrupt turns into a trap has not reached memory: MEM is
\* where store safety is enforced (docs/traps-csr-stores.md).
StoresAreSafe ==
  Alive(wb_q) /\ wb_q.trap_cause # None /\ IsStore(wb_q.ir) => dmem = amem

\* An interrupt on the MRET that ends a handler saves the context from before
\* that MRET, as the software that returns to it relies on
\* (freertos_demo/port_glue/app_irq_handler.c): the CSR file is that of the last
\* commit with the trap entered, not one in which the return has been used up.
ReturnContextSaved ==
  Alive(wb_q) /\ wb_q.trap_cause # None /\ wb_q.ir.sys_kind = "MRET" =>
    csr_q = TrapEntry(acsr, wb_q.pc, wb_q.trap_cause)
=============================================================================
