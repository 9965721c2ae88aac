-------------------------------- MODULE Isa ---------------------------------
(***************************************************************************)
(* The instructions the core promises, RV32I with the CSR instructions,    *)
(* MRET and WFI: which words are instructions, and field by field which    *)
(* instructions have that field.  Decoder goes opcode by opcode.           *)
(***************************************************************************)
EXTENDS Decoder

\* The values of funct3 an opcode has instructions for.
Funct3s == [OP |-> 0 .. 7, OP_IMM |-> 0 .. 7, LOAD |-> {0, 1, 2, 4, 5}, STORE |-> {0, 1, 2},
            BRANCH |-> {0, 1, 4, 5, 6, 7}, JALR |-> {0}, MISC_MEM |-> {0},
            SYSTEM |-> {0, 1, 2, 3, 5, 6, 7},
            JAL |-> 0 .. 7, LUI |-> 0 .. 7, AUIPC |-> 0 .. 7, other |-> {}]

IsPriv(w)   == w.opcode = "SYSTEM" /\ w.funct3 = 0
IsCsr(w)    == w.opcode = "SYSTEM" /\ w.funct3 \notin {0, 4}
IsCsrImm(w) == IsCsr(w) /\ w.funct3 \in 5 .. 7

\* Shifts by an immediate and register operations have a funct7; only SUB, SRA and
\* SRAI have the other one.
IsInstruction(w) ==
  /\ w.funct3 \in Funct3s[w.opcode]
  /\ w.opcode = "OP" \/ (w.opcode = "OP_IMM" /\ w.funct3 \in {1, 5}) =>
       \/ w.funct7 = "00"
       \/ w.funct7 = "20" /\ (w.funct3 = 5 \/ (w.opcode = "OP" /\ w.funct3 = 0))
  /\ IsPriv(w) => w.funct12 \in PrivOp /\ w.rs1 = 0 /\ w.rd = 0

\* The words the ISA reserves that the core takes for a neighbour: a register
\* operation that has no second form, with the funct7 of a second form.
Tolerated(w) == w.opcode = "OP" /\ w.funct7 = "20" /\ w.funct3 \notin {0, 5}

Executes(w) == IsInstruction(w) \/ Tolerated(w)

ReadsRs1(w) ==
  \/ w.opcode \in {"OP", "OP_IMM", "LOAD", "STORE", "BRANCH", "JALR"}
  \/ IsCsr(w) /\ ~IsCsrImm(w)
ReadsRs2(w) == w.opcode \in {"OP", "STORE", "BRANCH"}
WritesRd(w) ==
  \/ w.opcode \in {"OP", "OP_IMM", "LOAD", "JAL", "JALR", "LUI", "AUIPC"}
  \/ IsCsr(w)
HasImm(w) ==
  \/ w.opcode \in {"OP_IMM", "LOAD", "STORE", "BRANCH", "JAL", "JALR", "LUI", "AUIPC"}
  \/ IsCsrImm(w)

UnitOf(w) ==
  CASE w.opcode \in {"LOAD", "STORE"}           -> w.opcode
    [] w.opcode \in {"BRANCH", "JAL", "JALR"}   -> "BRANCH"
    [] w.opcode \notin {"LOAD", "STORE", "BRANCH", "JAL", "JALR"} ->
         IF IsPriv(w) THEN "SYSTEM" ELSE IF IsCsr(w) THEN "CSR" ELSE "INT"

KindOf(w) ==
  CASE IsPriv(w)                         -> w.funct12
    [] IsCsr(w) /\ w.funct3 \in {1, 5}   -> "CSR_RW"
    [] IsCsr(w) /\ w.funct3 \in {2, 6}   -> "CSR_RS"
    [] IsCsr(w) /\ w.funct3 \in {3, 7}   -> "CSR_RC"
    [] ~IsPriv(w) /\ ~IsCsr(w)           -> "NOT"

\* A CSR instruction that only sets or clears writes nothing if its source is
\* x0 or the immediate 0.
WritesCsr(w) ==
  IsCsr(w) /\ (KindOf(w) = "CSR_RW" \/ (IF IsCsrImm(w) THEN w.imm ELSE w.rs1) # 0)

\* What the instruction in the word is.
Meaning(w) ==
  [fu_type     |-> UnitOf(w),
   sys_kind    |-> KindOf(w),
   branch_op   |-> IF w.opcode = "BRANCH" THEN "EQ" ELSE IF w.opcode = "JALR" THEN "JALR" ELSE "JUMP",
   alu_op1_sel |-> IF w.opcode = "AUIPC" THEN "PC" ELSE IF w.opcode = "LUI" THEN "ZERO" ELSE "RS1",
   rs1         |-> IF ReadsRs1(w) THEN w.rs1 ELSE 0,
   rs2         |-> IF ReadsRs2(w) THEN w.rs2 ELSE 0,
   rd          |-> IF WritesRd(w) THEN w.rd ELSE 0,
   imm         |-> IF HasImm(w) THEN w.imm ELSE 0,
   csr_addr    |-> IF IsCsr(w) /\ w.funct12 \in CsrAddr THEN w.funct12 ELSE "unknown",
   csr_writes  |-> WritesCsr(w),
   illegal     |-> FALSE, if_bus_error |-> w.error]
=============================================================================
