----------------------------- MODULE Datapath -------------------------------
(***************************************************************************)
(* What one instruction computes: the decoded instruction, the ALU, the    *)
(* branch unit, the address check of the LSU and the CSR file as functions *)
(* of their inputs.  The ALU's ten operations are one addition and the six *)
(* comparisons of the branch unit are one equality: the properties ask     *)
(* which operands reach them and when, not which function is applied.      *)
(***************************************************************************)
EXTENDS Uarch

CONSTANTS
  WordBits,   \* WordMod = 2^WordBits
  Reg,        \* the general registers except x0
  A0          \* the register that holds the exit code (x10)

ASSUME DatapathAssumption ==
  /\ WordBits \in Nat /\ WordBits >= 3
  /\ WordMod = 2^WordBits /\ WordMod >= 8
  /\ Reg \subseteq Nat \ {0}
  /\ A0 \in Reg

FuType     == {"INT", "BRANCH", "CSR", "LOAD", "STORE", "SYSTEM"}
SystemKind == {"NOT", "ECALL", "EBREAK", "MRET", "WFI", "CSR_RW", "CSR_RS", "CSR_RC"}
Op1Sel     == {"RS1", "PC", "ZERO"}
BranchOp   == {"JUMP", "JALR", "EQ"}
HaltKind   == {"NONE", "VOLUNTARY", "ILLEGAL", "BUS_ERROR_IF", "BUS_ERROR_LD",
               "BUS_ERROR_ST", "MISALIGN_PC", "MISALIGN_LD", "MISALIGN_ST",
               "DOUBLE_TRAP"}

CsrReg  == {"mstatus", "mie", "mtvec", "mscratch", "mepc", "mcause", "mtval"}
CsrAddr == CsrReg \cup {"mip", "mhartid", "unknown"}

\* decoded_ir_t.  A register number of 0 also stands for "not used" and "no
\* destination": the code treats x0 and an unused operand alike.
Ir == [fu_type : FuType, sys_kind : SystemKind, branch_op : BranchOp, alu_op1_sel : Op1Sel,
       rs1 : Reg \cup {0}, rs2 : Reg \cup {0}, rd : Reg \cup {0}, imm : Word,
       csr_addr : CsrAddr, csr_writes : BOOLEAN,
       illegal : BOOLEAN, if_bus_error : BOOLEAN]

IsLoad(ir)  == ir.fu_type = "LOAD"
IsStore(ir) == ir.fu_type = "STORE"
IsMem(ir)   == IsLoad(ir) \/ IsStore(ir)

-----------------------------------------------------------------------------
\* The first operand: the pc for AUIPC, 0 for LUI.
AluLhs(ir, pc, v1) ==
  CASE ir.alu_op1_sel = "RS1"  -> v1
    [] ir.alu_op1_sel = "PC"   -> pc
    [] ir.alu_op1_sel = "ZERO" -> 0

\* Mutant of AluResult: the carry out of the word is kept.
AluResultWide(ir, pc, v1, v2) ==
  AluLhs(ir, pc, v1) + (IF ir.fu_type = "INT" /\ ir.rs2 # 0 THEN v2 ELSE ir.imm)

\* The second operand is rs2 for register-register operations, else imm.
AluResult(ir, pc, v1, v2) ==
  Add(AluLhs(ir, pc, v1), IF ir.fu_type = "INT" /\ ir.rs2 # 0 THEN v2 ELSE ir.imm)

BranchTaken(ir, v1, v2) ==
  ir.fu_type = "BRANCH" /\ (ir.branch_op # "EQ" \/ v1 = v2)

BranchTarget(ir, pc, v1) ==
  IF ir.branch_op = "JALR" THEN Add(v1, ir.imm) ELSE Add(pc, ir.imm)

Misaligned(addr) == addr % 2 = 1

-----------------------------------------------------------------------------
(* CSRFile.  mstatus keeps MIE and MPIE, mie and mip one bit per source.    *)
MIE  == 1
MPIE == 2
MSIP == 0
MTIP == 1
MEIP == 2
IrqLine == {MSIP, MTIP, MEIP}

CAUSE_ECALL == 1
AsyncCauseOf(line) == CASE line = MSIP -> 3 [] line = MTIP -> 5 [] OTHER -> 7

Bits(w)   == {i \in 0 .. WordBits - 1 : (w \div 2^i) % 2 = 1}
WordOf(S) == CHOOSE w \in Word : Bits(w) = S

\* Every set of bits is that of a word: by WordMod = 2^WordBits.
ASSUME BitsAssumption == \A S \in SUBSET (0 .. WordBits - 1) : \E w \in Word : Bits(w) = S

MieSet(csr)  == csr["mstatus"] % 2 = 1
MpieSet(csr) == csr["mstatus"] >= MPIE

CsrReset == [c \in CsrReg |-> 0]

Recognised(c) == c # "unknown"
Writable(c)   == Recognised(c) /\ c # "mhartid"

CsrIllegal(ir) ==
  /\ ir.fu_type = "CSR"
  /\ ~Recognised(ir.csr_addr) \/ (ir.csr_writes /\ ~Writable(ir.csr_addr))

ReadCsr(csr, c, mip) ==
  IF c \in CsrReg THEN csr[c] ELSE IF c = "mip" THEN WordOf(mip) ELSE 0

\* The immediate forms have no source register.
CsrSource(ir, v1) == IF ir.rs1 = 0 THEN ir.imm ELSE v1

CsrNew(ir, old, source) ==
  CASE ir.sys_kind = "CSR_RW" -> source
    [] ir.sys_kind = "CSR_RS" -> WordOf(Bits(old) \cup Bits(source))
    [] ir.sys_kind = "CSR_RC" -> WordOf(Bits(old) \ Bits(source))
    [] OTHER -> old

MaskWrite(c, w) ==
  CASE c = "mstatus"           -> w % 4
    [] c = "mie"               -> w % 8
    [] c \in {"mtvec", "mepc"} -> w - (w % 2)
    [] OTHER                   -> w

\* A write to mip or misa is accepted and has no effect.
WriteCsr(csr, c, w) ==
  IF c \in CsrReg THEN [csr EXCEPT ![c] = MaskWrite(c, w)] ELSE csr

TrapEntry(csr, epc, cause) ==
  [csr EXCEPT !["mepc"] = MaskWrite("mepc", epc), !["mcause"] = cause,
              !["mtval"] = 0, !["mstatus"] = IF MieSet(csr) THEN MPIE ELSE 0]

MretExit(csr) ==
  [csr EXCEPT !["mstatus"] = IF MpieSet(csr) THEN MPIE + MIE ELSE MPIE]

\* The enabled pending interrupts, and the one the core prefers.
EnabledIrqs(csr, mip) == IF MieSet(csr) THEN Bits(csr["mie"]) \cap mip ELSE {}

AsyncCause(csr, mip) ==
  LET live == EnabledIrqs(csr, mip)
  IN  IF MEIP \in live THEN AsyncCauseOf(MEIP)
      ELSE IF MSIP \in live THEN AsyncCauseOf(MSIP)
      ELSE IF MTIP \in live THEN AsyncCauseOf(MTIP) ELSE None
=============================================================================
