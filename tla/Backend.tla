------------------------------ MODULE Backend -------------------------------
(***************************************************************************)
(* The backend: issue through the three-row scoreboard, the EXE, MEM and   *)
(* WB token registers, the register file and the CSR file.  The operators  *)
(* with primes are the clock edges of the four kinds of cycle: MEM stalls, *)
(* MEM takes a trap, EXE redirects, or the pipeline simply advances.       *)
(*                                                                         *)
(* The inputs of a cycle are parameters: cand, the head of the IR queue or *)
(* None; dresp, the data-memory response or None; mip, the pending         *)
(* interrupt lines.                                                        *)
(***************************************************************************)
EXTENDS Datapath

VARIABLES
  fwd,          \* build parameters: which of "mem" and "wb" forward
  exe_q, mem_q, wb_q,              \* inst_token_t, None when not valid
  exe_row_q, mem_row_q, wb_row_q,  \* scoreboard rows, None when not valid
  regs_q, csr_q,
  req_sent_q,                      \* MEM's request has been accepted
  last_step_entered_trap_q

tokenVars   == <<exe_q, mem_q, wb_q, exe_row_q, mem_row_q, wb_row_q>>
backendVars == <<fwd, tokenVars, regs_q, csr_q, req_sent_q, last_step_entered_trap_q>>

\* inst_token_t.  trap_cause = None is trap_pending = 0 and halt_kind = "NONE"
\* is halt_observed = 0.
Token ==
  [pc : Word, epoch : Epoch, seq_id : SeqId, killed : BOOLEAN, ir : Ir,
   rs1_val : Word, rs2_val : Word, rd_value : Word, mem_addr : Word,
   csr_new : Word, trap_cause : Word \cup {None}, halt_kind : HaltKind]

Row == [epoch : Epoch, seq_id : SeqId, killed : BOOLEAN,
        rd : Reg \cup {0}, rd_ready : BOOLEAN]

BackendTypeOK ==
  /\ fwd \subseteq {"mem", "wb"}
  /\ {exe_q, mem_q, wb_q} \subseteq Token \cup {None}
  /\ {exe_row_q, mem_row_q, wb_row_q} \subseteq Row \cup {None}
  /\ regs_q \in [Reg -> Word]
  /\ csr_q \in [CsrReg -> Word]
  /\ req_sent_q \in BOOLEAN
  /\ last_step_entered_trap_q \in BOOLEAN

BackendInit ==
  /\ exe_q = None /\ mem_q = None /\ wb_q = None
  /\ exe_row_q = None /\ mem_row_q = None /\ wb_row_q = None
  /\ regs_q = [r \in Reg |-> 0]
  /\ csr_q = CsrReset
  /\ req_sent_q = FALSE
  /\ last_step_entered_trap_q = FALSE

Alive(t) == t # None /\ ~t.killed

Gpr(r) == IF r = 0 THEN 0 ELSE regs_q[r]

-----------------------------------------------------------------------------
(* IS: hazards, forwarding and the new token.                               *)
RdMatch(row, r) == row # None /\ ~row.killed /\ r # 0 /\ row.rd = r

\* Where the candidate gets the value of register r: the youngest writer in
\* flight decides, and EXE never forwards.
OperandSource(r) ==
  CASE RdMatch(exe_row_q, r) -> "hazard"
    [] ~RdMatch(exe_row_q, r) /\ RdMatch(mem_row_q, r) ->
         IF "mem" \in fwd /\ mem_row_q.rd_ready THEN "mem" ELSE "hazard"
    [] ~RdMatch(exe_row_q, r) /\ ~RdMatch(mem_row_q, r) /\ RdMatch(wb_row_q, r) ->
         IF "wb" \in fwd /\ wb_row_q.rd_ready THEN "wb" ELSE "hazard"
    [] OTHER -> "gpr"

Operand(r) ==
  CASE OperandSource(r) = "mem" -> mem_q.rd_value
    [] OperandSource(r) = "wb"  -> wb_q.rd_value
    [] OTHER                    -> Gpr(r)

\* issue_valid in a cycle in which MEM does not stall.
Issuable(cand) ==
  /\ cand # None
  /\ OperandSource(cand.inst.rs1) # "hazard"
  /\ OperandSource(cand.inst.rs2) # "hazard"

IssueToken(cand) ==
  [pc |-> cand.pc, epoch |-> cand.epoch, seq_id |-> cand.seq_id, killed |-> FALSE,
   ir |-> cand.inst, rs1_val |-> Operand(cand.inst.rs1), rs2_val |-> Operand(cand.inst.rs2),
   rd_value |-> 0, mem_addr |-> 0, csr_new |-> 0, trap_cause |-> None, halt_kind |-> "NONE"]

RowFromIr(cand) ==
  [epoch |-> cand.epoch, seq_id |-> cand.seq_id, killed |-> FALSE,
   rd |-> cand.inst.rd, rd_ready |-> FALSE]

\* Mutant of ShiftRow: the row of a killed token stays alive.
ShiftRowUnkilled(row, ready, kill) ==
  IF row = None THEN None ELSE [row EXCEPT !.rd_ready = @ \/ ready]

ShiftRow(row, ready, kill) ==
  IF row = None THEN None
  ELSE [KillIfYounger(row, kill) EXCEPT !.rd_ready = @ \/ ready]

-----------------------------------------------------------------------------
(* EXE                                                                      *)
\* Mutant of ExeRdReady: a load counts as ready when it leaves EXE.
ExeRdReadyLoads == Alive(exe_q)

ExeRdReady == Alive(exe_q) /\ ~IsLoad(exe_q.ir)

\* In a cycle in which MEM neither stalls nor traps.
ExeTakesBranch == BranchTaken(exe_q.ir, exe_q.rs1_val, exe_q.rs2_val)
ExeRedirects   == Alive(exe_q) /\ (ExeTakesBranch \/ exe_q.ir.sys_kind = "MRET")
ExeCommitsCsr  == Alive(exe_q) /\ exe_q.ir.fu_type = "CSR"
ExeCommitsMret == Alive(exe_q) /\ exe_q.ir.sys_kind = "MRET"

ExeTarget ==
  IF exe_q.ir.sys_kind = "MRET" THEN csr_q["mepc"]
  ELSE BranchTarget(exe_q.ir, exe_q.pc, exe_q.rs1_val)

ExeCsrNew(mip) ==
  CsrNew(exe_q.ir, ReadCsr(csr_q, exe_q.ir.csr_addr, mip), CsrSource(exe_q.ir, exe_q.rs1_val))

ExeRdValue(mip) ==
  CASE exe_q.ir.fu_type = "BRANCH" -> NextPc(exe_q.pc)
    [] exe_q.ir.fu_type = "CSR"    -> ReadCsr(csr_q, exe_q.ir.csr_addr, mip)
    [] OTHER -> AluResult(exe_q.ir, exe_q.pc, exe_q.rs1_val, exe_q.rs2_val)

\* exe_o, the token EXE hands to MEM.
ExeOut(mip) ==
  IF exe_q = None THEN None
  ELSE [exe_q EXCEPT
          !.rd_value   = ExeRdValue(mip),
          !.mem_addr   = AluResult(exe_q.ir, exe_q.pc, exe_q.rs1_val, exe_q.rs2_val),
          !.csr_new    = ExeCsrNew(mip),
          !.ir.illegal = @ \/ (Alive(exe_q) /\ CsrIllegal(exe_q.ir)),
          !.halt_kind  = IF /\ Alive(exe_q) /\ ExeTakesBranch
                            /\ Misaligned(BranchTarget(exe_q.ir, exe_q.pc, exe_q.rs1_val))
                         THEN "MISALIGN_PC" ELSE @]

\* The CSR file at an edge at which EXE may commit (csr_commit_o, mret_commit_o).
CsrAfterExe(mip) ==
  IF ExeCommitsMret THEN MretExit(csr_q)
  ELSE IF ExeCommitsCsr /\ exe_q.ir.csr_writes /\ ~CsrIllegal(exe_q.ir)
       THEN WriteCsr(csr_q, exe_q.ir.csr_addr, ExeCsrNew(mip)) ELSE csr_q

-----------------------------------------------------------------------------
(* MEM                                                                      *)
MemAlive == Alive(mem_q)
IsMemory == MemAlive /\ IsMem(mem_q.ir)
MemMisaligned == IsMemory /\ Misaligned(mem_q.mem_addr)

PreHalt ==
  \/ mem_q.halt_kind # "NONE"
  \/ mem_q.ir.if_bus_error
  \/ mem_q.ir.illegal
  \/ mem_q.ir.sys_kind = "EBREAK"
  \/ MemMisaligned

\* The cause of the trap the token would take: an interrupt first, then ECALL.
PendingCause(mip) ==
  IF AsyncCause(csr_q, mip) # None THEN AsyncCause(csr_q, mip)
  ELSE IF mem_q.ir.sys_kind = "ECALL" THEN CAUSE_ECALL ELSE None

Traps(mip) == MemAlive /\ ~PreHalt /\ PendingCause(mip) # None

\* A trap on the first instruction of the handler the previous step entered.
DoubleTrap(mip) ==
  Traps(mip) /\ last_step_entered_trap_q /\ mem_q.pc = csr_q["mtvec"]

TakeTrap(mip) == Traps(mip) /\ ~DoubleTrap(mip)
TakeHalt(mip) == (MemAlive /\ PreHalt) \/ DoubleTrap(mip)

Answered(dresp) == req_sent_q /\ dresp # None

\* Mutant of MemStall: MEM waits for the request to be accepted, not answered.
MemStallAccepted(dresp, mip) ==
  /\ IsMemory /\ ~MemMisaligned
  /\ ~TakeTrap(mip) /\ ~TakeHalt(mip)
  /\ ~req_sent_q

MemStall(dresp, mip) ==
  /\ IsMemory /\ ~MemMisaligned
  /\ ~TakeTrap(mip) /\ ~TakeHalt(mip)
  /\ ~Answered(dresp)

DmemReqValid(mip) ==
  IsMemory /\ ~req_sent_q /\ ~TakeTrap(mip) /\ ~TakeHalt(mip) /\ ~MemMisaligned

MemRdReady(dresp) == MemAlive /\ (IsLoad(mem_q.ir) => Answered(dresp))

HaltKindOf(mip) ==
  IF DoubleTrap(mip) THEN "DOUBLE_TRAP"
  ELSE IF mem_q.halt_kind # "NONE" THEN mem_q.halt_kind
  ELSE IF mem_q.ir.if_bus_error THEN "BUS_ERROR_IF"
  ELSE IF mem_q.ir.illegal THEN "ILLEGAL"
  ELSE IF mem_q.ir.sys_kind = "EBREAK" THEN "VOLUNTARY"
  ELSE IF IsStore(mem_q.ir) THEN "MISALIGN_ST" ELSE "MISALIGN_LD"

BusError(dresp) == IsMemory /\ Answered(dresp) /\ dresp.error

\* mem_o, the token MEM hands to WB.
MemOut(dresp, mip) ==
  IF mem_q = None THEN None
  ELSE [mem_q EXCEPT
          !.rd_value   = IF MemAlive /\ IsLoad(mem_q.ir) /\ dresp # None
                         THEN dresp.rdata ELSE @,
          !.trap_cause = IF TakeTrap(mip) THEN PendingCause(mip) ELSE @,
          !.halt_kind  = IF BusError(dresp)
                         THEN IF IsStore(mem_q.ir) THEN "BUS_ERROR_ST" ELSE "BUS_ERROR_LD"
                         ELSE IF TakeHalt(mip) THEN HaltKindOf(mip) ELSE @]

-----------------------------------------------------------------------------
(* WB                                                                       *)
CommitValid == Alive(wb_q)

\* Mutant of RfWe: an instruction that an interrupt replaced still writes.
RfWeTrapped == CommitValid /\ wb_q.halt_kind = "NONE" /\ wb_q.ir.rd # 0

RfWe == CommitValid /\ wb_q.trap_cause = None /\ wb_q.halt_kind = "NONE" /\ wb_q.ir.rd # 0

CommitsStore ==
  CommitValid /\ wb_q.trap_cause = None /\ wb_q.halt_kind = "NONE" /\ IsStore(wb_q.ir)

CommitsHalt == CommitValid /\ wb_q.halt_kind # "NONE"

\* Every clock edge lets WB commit what it holds.
WriteBack ==
  /\ regs_q' = IF RfWe THEN [regs_q EXCEPT ![wb_q.ir.rd] = wb_q.rd_value] ELSE regs_q
  /\ last_step_entered_trap_q' =
       IF CommitValid THEN wb_q.trap_cause # None ELSE last_step_entered_trap_q
  /\ UNCHANGED fwd

-----------------------------------------------------------------------------
(* The clock edges.                                                         *)
Kill(t) == [epoch |-> t.epoch, seq_id |-> t.seq_id]

\* The tokens and the scoreboard rows move on, and the younger ones are marked.
Shift(kill, dresp, mip) ==
  /\ mem_q' = KillIfYounger(ExeOut(mip), kill)
  /\ wb_q' = KillIfYounger(MemOut(dresp, mip), kill)
  /\ mem_row_q' = ShiftRow(exe_row_q, ExeRdReady, kill)
  /\ wb_row_q' = ShiftRow(mem_row_q, MemRdReady(dresp), kill)
  /\ req_sent_q' = FALSE

\* Mutant of BackendStall: the request counts as sent without dmem_req_ready_i.
BackendStallUnready(dready, dresp, mip) ==
  /\ MemStall(dresp, mip)
  /\ wb_q' = None /\ wb_row_q' = None
  /\ req_sent_q' = (req_sent_q \/ DmemReqValid(mip))
  /\ WriteBack
  /\ UNCHANGED <<exe_q, mem_q, exe_row_q, mem_row_q, csr_q>>

\* MEM waits for the data memory: it and EXE hold, WB drains.  Nothing is
\* killed: no trap is taken and EXE may not redirect.
BackendStall(dready, dresp, mip) ==
  /\ MemStall(dresp, mip)
  /\ wb_q' = None /\ wb_row_q' = None
  /\ req_sent_q' = (req_sent_q \/ (DmemReqValid(mip) /\ dready))
  /\ WriteBack
  /\ UNCHANGED <<exe_q, mem_q, exe_row_q, mem_row_q, csr_q>>

\* Mutant of BackendTrap: EXE is not told of the trap and carries out its CSR
\* instruction although it is killed.
BackendTrapExeCommits(dresp, mip) ==
  /\ TakeTrap(mip)
  /\ Shift(Kill(mem_q), dresp, mip)
  /\ exe_q' = None /\ exe_row_q' = None
  /\ csr_q' = TrapEntry(CsrAfterExe(mip), mem_q.pc, PendingCause(mip))
  /\ WriteBack

\* MEM takes a trap: the CSR file enters it and everything younger is killed.
\* The queue offers nothing in a redirect cycle, so EXE becomes empty.
BackendTrap(dresp, mip) ==
  /\ TakeTrap(mip)
  /\ Shift(Kill(mem_q), dresp, mip)
  /\ exe_q' = None /\ exe_row_q' = None
  /\ csr_q' = TrapEntry(csr_q, mem_q.pc, PendingCause(mip))
  /\ WriteBack

\* EXE redirects: a taken branch, a jump or MRET.
BackendRedirect(dresp, mip) ==
  /\ ~MemStall(dresp, mip) /\ ~TakeTrap(mip)
  /\ ExeRedirects
  /\ Shift(Kill(exe_q), dresp, mip)
  /\ exe_q' = None /\ exe_row_q' = None
  /\ csr_q' = CsrAfterExe(mip)
  /\ WriteBack

\* The pipeline advances and the head of the queue issues if it can.
BackendAdvance(cand, dresp, mip) ==
  /\ ~MemStall(dresp, mip) /\ ~TakeTrap(mip)
  /\ ~ExeRedirects
  /\ Shift(None, dresp, mip)
  /\ exe_q' = IF Issuable(cand) THEN IssueToken(cand) ELSE None
  /\ exe_row_q' = IF Issuable(cand) THEN RowFromIr(cand) ELSE None
  /\ csr_q' = CsrAfterExe(mip)
  /\ WriteBack
=============================================================================
