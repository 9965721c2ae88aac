------------------------------ MODULE Decoder -------------------------------
(***************************************************************************)
(* The decoder.  An instruction word is the record of its fields; one that *)
(* decoder.sv only compares with a few values has those values and one     *)
(* more for all others.  imm is the immediate of the word's format, sign   *)
(* extended; for the immediate CSR instructions it is the field rs1.       *)
(***************************************************************************)
EXTENDS Datapath

Opcode == {"LOAD", "MISC_MEM", "OP_IMM", "AUIPC", "STORE", "OP", "LUI", "BRANCH",
           "JALR", "JAL", "SYSTEM", "other"}

PrivOp == {"ECALL", "EBREAK", "MRET", "WFI"}

\* What memory answers to a fetch: a word, and whether there was a bus error.
\* funct12 names a CSR or one of the privileged instructions.
Packet == [opcode : Opcode, funct3 : 0 .. 7, funct7 : {"00", "20", "other"},
           funct12 : PrivOp \cup CsrAddr,
           rs1 : Reg \cup {0}, rs2 : Reg \cup {0}, rd : Reg \cup {0}, imm : Word,
           error : BOOLEAN]

\* The defaults, which stand when the opcode says nothing else.
Defaults(w) ==
  [fu_type |-> "INT", sys_kind |-> "NOT", branch_op |-> "JUMP", alu_op1_sel |-> "RS1",
   rs1 |-> 0, rs2 |-> 0, rd |-> 0, imm |-> 0,
   csr_addr |-> "unknown", csr_writes |-> FALSE,
   illegal |-> FALSE, if_bus_error |-> w.error]

DecodeOp(w) ==
  [Defaults(w) EXCEPT !.rs1 = w.rs1, !.rs2 = w.rs2, !.rd = w.rd,
                      !.illegal = w.funct7 = "other"]

DecodeOpImm(w) ==
  [Defaults(w) EXCEPT !.rs1 = w.rs1, !.rd = w.rd, !.imm = w.imm,
     !.illegal = \/ w.funct3 = 1 /\ w.funct7 # "00"
                 \/ w.funct3 = 5 /\ w.funct7 = "other"]

DecodeLoad(w) ==
  [Defaults(w) EXCEPT !.fu_type = "LOAD", !.rs1 = w.rs1, !.rd = w.rd, !.imm = w.imm,
                      !.illegal = w.funct3 \notin {0, 1, 2, 4, 5}]

DecodeStore(w) ==
  [Defaults(w) EXCEPT !.fu_type = "STORE", !.rs1 = w.rs1, !.rs2 = w.rs2, !.imm = w.imm,
                      !.illegal = w.funct3 \notin 0 .. 2]

\* A branch with a condition there is not keeps the default, the jump.
DecodeBranch(w) ==
  [Defaults(w) EXCEPT !.fu_type = "BRANCH", !.rs1 = w.rs1, !.rs2 = w.rs2, !.imm = w.imm,
                      !.branch_op = IF w.funct3 \in {2, 3} THEN "JUMP" ELSE "EQ",
                      !.illegal = w.funct3 \in {2, 3}]

DecodeJal(w) == [Defaults(w) EXCEPT !.fu_type = "BRANCH", !.rd = w.rd, !.imm = w.imm]

DecodeJalr(w) ==
  [DecodeJal(w) EXCEPT !.branch_op = "JALR", !.rs1 = w.rs1, !.illegal = w.funct3 # 0]

DecodeUpper(w) ==
  [Defaults(w) EXCEPT !.rd = w.rd, !.imm = w.imm,
                      !.alu_op1_sel = IF w.opcode = "AUIPC" THEN "PC" ELSE "ZERO"]

\* FENCE does nothing; FENCE.I is not there.
DecodeMiscMem(w) == [Defaults(w) EXCEPT !.illegal = w.funct3 # 0]

DecodePriv(w) ==
  [Defaults(w) EXCEPT !.fu_type = "SYSTEM",
     !.sys_kind = IF w.funct12 \in PrivOp THEN w.funct12 ELSE "NOT",
     !.illegal = w.rs1 # 0 \/ w.rd # 0 \/ w.funct12 \notin PrivOp]

\* The six CSR instructions: the upper bit of funct3 selects the immediate.
CsrKind == [i \in 1 .. 3 |-> CASE i = 1 -> "CSR_RW" [] i = 2 -> "CSR_RS" [] i = 3 -> "CSR_RC"]

DecodeCsr(w) ==
  LET isImm  == w.funct3 > 4
      source == IF isImm THEN w.imm ELSE w.rs1
  IN  [Defaults(w) EXCEPT !.fu_type = "CSR", !.sys_kind = CsrKind[w.funct3 % 4],
         !.rd = w.rd, !.rs1 = IF isImm THEN 0 ELSE w.rs1, !.imm = IF isImm THEN w.imm ELSE 0,
         !.csr_addr = IF w.funct12 \in CsrAddr THEN w.funct12 ELSE "unknown",
         !.csr_writes = w.funct3 % 4 = 1 \/ source # 0]

DecodeSystem(w) ==
  CASE w.funct3 = 0 -> DecodePriv(w)
    [] w.funct3 = 4 -> [Defaults(w) EXCEPT !.fu_type = "SYSTEM", !.illegal = TRUE]
    [] w.funct3 \notin {0, 4} -> DecodeCsr(w)

Decode(w) ==
  CASE w.opcode = "OP"               -> DecodeOp(w)
    [] w.opcode = "OP_IMM"           -> DecodeOpImm(w)
    [] w.opcode = "LOAD"             -> DecodeLoad(w)
    [] w.opcode = "STORE"            -> DecodeStore(w)
    [] w.opcode = "BRANCH"           -> DecodeBranch(w)
    [] w.opcode = "JAL"              -> DecodeJal(w)
    [] w.opcode = "JALR"             -> DecodeJalr(w)
    [] w.opcode \in {"AUIPC", "LUI"} -> DecodeUpper(w)
    [] w.opcode = "MISC_MEM"         -> DecodeMiscMem(w)
    [] w.opcode = "SYSTEM"           -> DecodeSystem(w)
    [] w.opcode = "other"            -> [Defaults(w) EXCEPT !.illegal = TRUE]
=============================================================================
