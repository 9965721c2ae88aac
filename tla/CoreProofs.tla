----------------------------- MODULE CoreProofs ------------------------------
(***************************************************************************)
(* Proofs about Core, for every set of programs, word size, number of tags *)
(* and registers, forwarding build and timing of the memories.             *)
(***************************************************************************)
EXTENDS CoreFetch, Isa, SequenceTheorems, TLAPS

-----------------------------------------------------------------------------
(* The decoder.                                                             *)

\* The instructions of the CSR file and the privileged ones.
LEMMA DecodesSystem ==
  ASSUME NEW w \in Packet, w.opcode = "SYSTEM"
  PROVE  /\ Decode(w).illegal <=> ~Executes(w)
         /\ Executes(w) => Decode(w) = Meaning(w)
<1>1. Decode(w) = DecodeSystem(w)
  BY DEF Decode
<1>2. CASE w.funct3 = 0
  <2>1. Decode(w) = DecodePriv(w)
    BY <1>1, <1>2 DEF DecodeSystem
  <2>2. Executes(w) <=> w.rs1 = 0 /\ w.rd = 0 /\ w.funct12 \in PrivOp
    BY <1>2 DEF Executes, IsInstruction, Tolerated, IsPriv, Funct3s
  <2>3. IsPriv(w) /\ ~IsCsr(w) /\ ~IsCsrImm(w) /\ WritesCsr(w) = FALSE
    BY <1>2 DEF IsPriv, IsCsr, IsCsrImm, WritesCsr
  <2>4. UnitOf(w) = "SYSTEM" /\ KindOf(w) = w.funct12
        /\ ~ReadsRs1(w) /\ ~ReadsRs2(w) /\ ~WritesRd(w) /\ ~HasImm(w)
    BY <2>3 DEF UnitOf, KindOf, ReadsRs1, ReadsRs2, WritesRd, HasImm
  <2>5. QED BY <2>1, <2>2, <2>3, <2>4 DEF DecodePriv, Defaults, Meaning
<1>3. CASE w.funct3 = 4
  <2>1. Decode(w).illegal = TRUE
    <3>1. Decode(w) = [Defaults(w) EXCEPT !.fu_type = "SYSTEM", !.illegal = TRUE]
      BY <1>1, <1>3 DEF DecodeSystem
    <3>2. QED BY <3>1 DEF Defaults
  <2>2. w.funct3 \notin Funct3s[w.opcode]
    BY <1>3 DEF Funct3s
  <2>3. QED BY <2>1, <2>2 DEF Executes, IsInstruction, Tolerated
<1>4. CASE w.funct3 \in {1, 2, 3, 5, 6, 7}
  <2>1. Decode(w) = DecodeCsr(w) /\ Executes(w)
    BY <1>1, <1>4 DEF DecodeSystem, Executes, IsInstruction, Funct3s, IsPriv
  <2>2. ~Decode(w).illegal
    BY <2>1 DEF DecodeCsr, Defaults
  <2>3. IsCsr(w) /\ ~IsPriv(w) /\ (IsCsrImm(w) <=> w.funct3 > 4)
    BY <1>4 DEF IsCsr, IsPriv, IsCsrImm
  <2>4. KindOf(w) = CsrKind[w.funct3 % 4] /\ (KindOf(w) = "CSR_RW" <=> w.funct3 % 4 = 1)
    <3>1. \/ w.funct3 \in {1, 5} /\ w.funct3 % 4 = 1
          \/ w.funct3 \in {2, 6} /\ w.funct3 % 4 = 2
          \/ w.funct3 \in {3, 7} /\ w.funct3 % 4 = 3
      BY <1>4
    <3>2. QED BY <2>3, <3>1 DEF KindOf, CsrKind
  <2>5. Decode(w) = Meaning(w)
    BY <1>4, <2>1, <2>3, <2>4
    DEF DecodeCsr, Defaults, Meaning, UnitOf, WritesCsr, ReadsRs1, ReadsRs2, WritesRd, HasImm
  <2>6. QED BY <2>1, <2>2, <2>5
<1>5. QED BY <1>2, <1>3, <1>4 DEF Packet

\* The decoder takes a word for an instruction exactly when it is one the core
\* executes, and decodes it into what it means: opcode by opcode (decoder.sv) and
\* field by field (Isa) come to the same for every word.
THEOREM DecodesIsa ==
  ASSUME NEW w \in Packet
  PROVE  /\ Decode(w).illegal <=> ~Executes(w)
         /\ Executes(w) => Decode(w) = Meaning(w)
<1>1. w.opcode # "SYSTEM" => ~IsPriv(w) /\ ~IsCsr(w) /\ ~IsCsrImm(w)
                             /\ KindOf(w) = "NOT" /\ WritesCsr(w) = FALSE
  BY DEF IsPriv, IsCsr, IsCsrImm, KindOf, WritesCsr
<1>2. CASE w.opcode = "OP"
  <2>1. Executes(w) <=> w.funct7 # "other"
    BY <1>1, <1>2 DEF Executes, IsInstruction, Tolerated, Funct3s, Packet
  <2>2. UnitOf(w) = "INT"
    BY <1>1, <1>2 DEF UnitOf
  <2>3. ReadsRs1(w) /\ ReadsRs2(w) /\ WritesRd(w) /\ ~HasImm(w)
    BY <1>1, <1>2 DEF ReadsRs1, ReadsRs2, WritesRd, HasImm
  <2>4. QED BY <1>1, <1>2, <2>1, <2>2, <2>3 DEF Decode, DecodeOp, Defaults, Meaning
<1>3. CASE w.opcode = "OP_IMM"
  <2>1. Executes(w) <=> ~(w.funct3 = 1 /\ w.funct7 # "00") /\ ~(w.funct3 = 5 /\ w.funct7 = "other")
    BY <1>1, <1>3 DEF Executes, IsInstruction, Tolerated, Funct3s, Packet
  <2>2. UnitOf(w) = "INT"
    BY <1>1, <1>3 DEF UnitOf
  <2>3. ReadsRs1(w) /\ ~ReadsRs2(w) /\ WritesRd(w) /\ HasImm(w)
    BY <1>1, <1>3 DEF ReadsRs1, ReadsRs2, WritesRd, HasImm
  <2>4. QED BY <1>1, <1>3, <2>1, <2>2, <2>3 DEF Decode, DecodeOpImm, Defaults, Meaning
<1>4. CASE w.opcode = "LOAD"
  <2>1. Executes(w) <=> w.funct3 \in {0, 1, 2, 4, 5}
    BY <1>1, <1>4 DEF Executes, IsInstruction, Tolerated, Funct3s, Packet
  <2>2. UnitOf(w) = "LOAD"
    BY <1>1, <1>4 DEF UnitOf
  <2>3. ReadsRs1(w) /\ ~ReadsRs2(w) /\ WritesRd(w) /\ HasImm(w)
    BY <1>1, <1>4 DEF ReadsRs1, ReadsRs2, WritesRd, HasImm
  <2>4. QED BY <1>1, <1>4, <2>1, <2>2, <2>3 DEF Decode, DecodeLoad, Defaults, Meaning
<1>5. CASE w.opcode = "STORE"
  <2>1. Executes(w) <=> w.funct3 \in 0 .. 2
    BY <1>1, <1>5 DEF Executes, IsInstruction, Tolerated, Funct3s, Packet
  <2>2. UnitOf(w) = "STORE"
    BY <1>1, <1>5 DEF UnitOf
  <2>3. ReadsRs1(w) /\ ReadsRs2(w) /\ ~WritesRd(w) /\ HasImm(w)
    BY <1>1, <1>5 DEF ReadsRs1, ReadsRs2, WritesRd, HasImm
  <2>4. QED BY <1>1, <1>5, <2>1, <2>2, <2>3 DEF Decode, DecodeStore, Defaults, Meaning
<1>6. CASE w.opcode = "BRANCH"
  <2>1. Executes(w) <=> w.funct3 \notin {2, 3}
    BY <1>1, <1>6 DEF Executes, IsInstruction, Tolerated, Funct3s, Packet
  <2>2. UnitOf(w) = "BRANCH"
    BY <1>1, <1>6 DEF UnitOf
  <2>3. ReadsRs1(w) /\ ReadsRs2(w) /\ ~WritesRd(w) /\ HasImm(w)
    BY <1>1, <1>6 DEF ReadsRs1, ReadsRs2, WritesRd, HasImm
  <2>4. Decode(w) = DecodeBranch(w)
    BY <1>6 DEF Decode
  <2>5. Decode(w).illegal <=> ~Executes(w)
    <3>1. CASE w.funct3 \in {2, 3}
      BY <2>1, <2>4, <3>1 DEF DecodeBranch, Defaults
    <3>2. CASE w.funct3 \notin {2, 3}
      BY <2>1, <2>4, <3>2 DEF DecodeBranch, Defaults
    <3>3. QED BY <3>1, <3>2
  <2>6. Executes(w) => Decode(w) = Meaning(w)
    <3>1. SUFFICES ASSUME Executes(w) PROVE Decode(w) = Meaning(w)
      OBVIOUS
    <3>2. (w.funct3 \in {2, 3}) = FALSE
      BY <2>1, <3>1
    <3>3. Decode(w) = [Defaults(w) EXCEPT !.fu_type = "BRANCH", !.rs1 = w.rs1, !.rs2 = w.rs2,
                         !.imm = w.imm, !.branch_op = "EQ", !.illegal = FALSE]
      BY <2>4, <3>2 DEF DecodeBranch
    <3>4. QED BY <1>1, <1>6, <2>2, <2>3, <3>3 DEF Defaults, Meaning
  <2>7. QED BY <2>5, <2>6
<1>7. CASE w.opcode = "JAL"
  <2>1. Executes(w) <=> TRUE
    BY <1>1, <1>7 DEF Executes, IsInstruction, Tolerated, Funct3s, Packet
  <2>2. UnitOf(w) = "BRANCH"
    BY <1>1, <1>7 DEF UnitOf
  <2>3. ~ReadsRs1(w) /\ ~ReadsRs2(w) /\ WritesRd(w) /\ HasImm(w)
    BY <1>1, <1>7 DEF ReadsRs1, ReadsRs2, WritesRd, HasImm
  <2>4. QED BY <1>1, <1>7, <2>1, <2>2, <2>3 DEF Decode, DecodeJal, Defaults, Meaning
<1>8. CASE w.opcode = "JALR"
  <2>1. Executes(w) <=> w.funct3 = 0
    BY <1>1, <1>8 DEF Executes, IsInstruction, Tolerated, Funct3s, Packet
  <2>2. UnitOf(w) = "BRANCH"
    BY <1>1, <1>8 DEF UnitOf
  <2>3. ReadsRs1(w) /\ ~ReadsRs2(w) /\ WritesRd(w) /\ HasImm(w)
    BY <1>1, <1>8 DEF ReadsRs1, ReadsRs2, WritesRd, HasImm
  <2>4. QED BY <1>1, <1>8, <2>1, <2>2, <2>3 DEF Decode, DecodeJal, DecodeJalr, Defaults, Meaning
<1>9. CASE w.opcode \in {"AUIPC", "LUI"}
  <2>1. Executes(w) <=> TRUE
    BY <1>1, <1>9 DEF Executes, IsInstruction, Tolerated, Funct3s, Packet
  <2>2. UnitOf(w) = "INT"
    BY <1>1, <1>9 DEF UnitOf
  <2>3. ~ReadsRs1(w) /\ ~ReadsRs2(w) /\ WritesRd(w) /\ HasImm(w)
    BY <1>1, <1>9 DEF ReadsRs1, ReadsRs2, WritesRd, HasImm
  <2>4. QED BY <1>1, <1>9, <2>1, <2>2, <2>3 DEF Decode, DecodeUpper, Defaults, Meaning
<1>10. CASE w.opcode = "MISC_MEM"
  <2>1. Executes(w) <=> w.funct3 = 0
    BY <1>1, <1>10 DEF Executes, IsInstruction, Tolerated, Funct3s, Packet
  <2>2. UnitOf(w) = "INT"
    BY <1>1, <1>10 DEF UnitOf
  <2>3. ~ReadsRs1(w) /\ ~ReadsRs2(w) /\ ~WritesRd(w) /\ ~HasImm(w)
    BY <1>1, <1>10 DEF ReadsRs1, ReadsRs2, WritesRd, HasImm
  <2>4. QED BY <1>1, <1>10, <2>1, <2>2, <2>3 DEF Decode, DecodeMiscMem, Defaults, Meaning
<1>11. CASE w.opcode = "SYSTEM"
  BY <1>11, DecodesSystem, Zenon
<1>12. CASE w.opcode = "other"
  BY <1>1, <1>12 DEF Decode, Defaults, Executes, IsInstruction, Tolerated, Funct3s
<1>13. QED
  BY <1>2, <1>3, <1>4, <1>5, <1>6, <1>7, <1>8, <1>9, <1>10, <1>11, <1>12 DEF Packet, Opcode

\* An MRET, a word that is none included, is never decoded as a memory access.
LEMMA DecodeMret ==
  ASSUME NEW w \in Packet, Decode(w).sys_kind = "MRET"
  PROVE  ~IsMem(Decode(w))
<1>1. CASE w.opcode \in {"LOAD", "STORE"}
  BY <1>1 DEF Decode, DecodeLoad, DecodeStore, Defaults
<1>2. CASE w.opcode = "SYSTEM"
  BY <1>2 DEF Decode, DecodeSystem, DecodePriv, DecodeCsr, Defaults, IsMem, IsLoad, IsStore
<1>3. CASE w.opcode \in {"BRANCH", "JAL", "JALR"}
  BY <1>3 DEF Decode, DecodeBranch, DecodeJal, DecodeJalr, Defaults, IsMem, IsLoad, IsStore
<1>4. CASE w.opcode \in {"OP", "OP_IMM", "AUIPC", "LUI", "MISC_MEM", "other"}
  BY <1>4 DEF Decode, DecodeOp, DecodeOpImm, DecodeUpper, DecodeMiscMem, Defaults,
              IsMem, IsLoad, IsStore
<1>5. QED BY <1>1, <1>2, <1>3, <1>4 DEF Packet, Opcode

-----------------------------------------------------------------------------
(* Types.                                                                   *)

\* Words, and the adders that stay in them.
LEMMA WordFacts ==
  /\ WordMod \in Nat /\ WordMod >= 8 /\ WordBits \in Nat /\ WordBits >= 3
  /\ \A a, b \in Word : Add(a, b) \in Word
  /\ \A a \in Word : NextPc(a) \in Word
  /\ 0 .. 7 \subseteq Word
  /\ \A w \in Word : w % 4 \in Word /\ w % 8 \in Word /\ w - (w % 2) \in Word
<1>1. WordMod \in Nat /\ WordMod >= 8 /\ WordBits \in Nat /\ WordBits >= 3
  BY UarchAssumption, DatapathAssumption
<1>2. \A a, b \in Word : Add(a, b) \in Word
  BY <1>1 DEF Word, Add
<1>3. 0 .. 7 \subseteq Word
  BY <1>1 DEF Word
<1>4. \A w \in Word : w % 4 \in Word /\ w % 8 \in Word /\ w - (w % 2) \in Word
  <2>1. \A w \in Word : w % 4 \in 0 .. 7 /\ w % 8 \in 0 .. 7 /\ w % 2 \in 0 .. 1 /\ w % 2 <= w
    <3>1. \A w \in Nat : w % 4 \in 0 .. 7 /\ w % 8 \in 0 .. 7 /\ w % 2 \in 0 .. 1 /\ w % 2 <= w
      OBVIOUS
    <3>2. QED BY <1>1, <3>1 DEF Word
  <2>2. QED BY <1>1, <1>3, <2>1 DEF Word
<1>5. \A a \in Word : NextPc(a) \in Word
  BY <1>2, <1>3 DEF NextPc
<1>6. QED BY <1>1, <1>2, <1>3, <1>4, <1>5

LEMMA MaskType == ASSUME NEW c, NEW w \in Word PROVE MaskWrite(c, w) \in Word
  BY WordFacts DEF MaskWrite

\* The words that sets of bits stand for.
LEMMA BitsFacts ==
  /\ \A w : Bits(w) \subseteq 0 .. WordBits - 1
  /\ \A S \in SUBSET (0 .. WordBits - 1) : WordOf(S) \in Word
  BY BitsAssumption DEF Bits, WordOf

LEMMA IrqLinesAreBits == \A mip \in SUBSET IrqLine : mip \in SUBSET (0 .. WordBits - 1)
  BY WordFacts DEF IrqLine, MSIP, MTIP, MEIP

-----------------------------------------------------------------------------
\* The CSR file keeps words in its registers.
CsrFile == [CsrReg -> Word]

LEMMA ReadType ==
  ASSUME NEW csr \in CsrFile, NEW c, NEW mip \in SUBSET IrqLine
  PROVE  ReadCsr(csr, c, mip) \in Word
  BY BitsFacts, IrqLinesAreBits, WordFacts DEF ReadCsr, CsrFile

LEMMA NewType ==
  ASSUME NEW ir, NEW old \in Word, NEW source \in Word
  PROVE  CsrNew(ir, old, source) \in Word
<1>1. Bits(old) \cup Bits(source) \in SUBSET (0 .. WordBits - 1)
      /\ Bits(old) \ Bits(source) \in SUBSET (0 .. WordBits - 1)
  BY BitsFacts
<1>2. QED BY <1>1, BitsFacts DEF CsrNew

LEMMA CsrTypes ==
  ASSUME NEW csr \in CsrFile
  PROVE  /\ \A c, w : w \in Word => WriteCsr(csr, c, w) \in CsrFile
         /\ \A epc, cause \in Word : TrapEntry(csr, epc, cause) \in CsrFile
         /\ MretExit(csr) \in CsrFile
<1>1. \A c, w : w \in Word => WriteCsr(csr, c, w) \in CsrFile
  BY MaskType DEF WriteCsr, CsrFile
<1>2. \A epc, cause \in Word : TrapEntry(csr, epc, cause) \in CsrFile
  <2>1. MPIE \in Word /\ 0 \in Word
    BY WordFacts DEF MPIE
  <2>2. QED BY <2>1, MaskType DEF TrapEntry, CsrFile
<1>3. MretExit(csr) \in CsrFile
  <2>1. MPIE + MIE \in Word /\ MPIE \in Word
    BY WordFacts DEF MPIE, MIE
  <2>2. QED BY <2>1 DEF MretExit, CsrFile
<1>4. QED BY <1>1, <1>2, <1>3

LEMMA CauseType == ASSUME NEW csr, NEW mip PROVE AsyncCause(csr, mip) \in {3, 5, 7, None}
  BY DEF AsyncCause, AsyncCauseOf

-----------------------------------------------------------------------------
\* Tokens and rows on their way through the stages.
LEMMA NoneIsNone ==
  None \notin Token /\ None \notin Row /\ None \notin FetchPkt /\ None \notin FetchReq
  BY ResponseAssumption, NoneAssumption

LEMMA KillTypes ==
  ASSUME NEW kill
  PROVE  /\ \A t \in Token \cup {None} : KillIfYounger(t, kill) \in Token \cup {None}
         /\ \A r \in Row \cup {None}, ready \in BOOLEAN :
              ShiftRow(r, ready, kill) \in Row \cup {None}
<1>1. ASSUME NEW t \in Token PROVE KillIfYounger(t, kill) \in Token \cup {None}
  <2>1. (t.killed \/ KilledBy(t, kill)) \in BOOLEAN
    BY DEF Token, KilledBy
  <2>2. QED BY <2>1 DEF KillIfYounger, Token
<1>2. ASSUME NEW r \in Row PROVE KillIfYounger(r, kill) \in Row \cup {None}
  <2>1. (r.killed \/ KilledBy(r, kill)) \in BOOLEAN
    BY DEF Row, KilledBy
  <2>2. QED BY <2>1 DEF KillIfYounger, Row
<1>3. ASSUME NEW r \in Row, NEW ready \in BOOLEAN PROVE ShiftRow(r, ready, kill) \in Row
  <2>1. KillIfYounger(r, kill) \in Row
    <3>1. r # None
      BY NoneIsNone
    <3>2. (r.killed \/ KilledBy(r, kill)) \in BOOLEAN
      BY DEF Row, KilledBy
    <3>3. QED BY <3>1, <3>2 DEF KillIfYounger, Row
  <2>2. QED BY <2>1, NoneIsNone DEF ShiftRow, Row
<1>4. QED BY <1>1, <1>3, NoneIsNone DEF KillIfYounger, ShiftRow

\* The backend's registers; each has its type.
LEMMA BackendTypes ==
  ASSUME BackendTypeOK
  PROVE  /\ exe_q \in Token \cup {None} /\ mem_q \in Token \cup {None} /\ wb_q \in Token \cup {None}
         /\ exe_row_q \in Row \cup {None} /\ mem_row_q \in Row \cup {None}
         /\ wb_row_q \in Row \cup {None}
         /\ regs_q \in [Reg -> Word] /\ csr_q \in CsrFile
         /\ req_sent_q \in BOOLEAN /\ last_step_entered_trap_q \in BOOLEAN
  BY DEF BackendTypeOK, CsrFile

LEMMA OperandType ==
  ASSUME BackendTypeOK, NEW r \in Reg \cup {0},
         RowsTrackTokens
  PROVE  Operand(r) \in Word
<1>1. CASE OperandSource(r) = "mem"
  <2>1. mem_row_q # None
    BY <1>1 DEF OperandSource, RdMatch
  <2>2. mem_q \in Token
    BY <2>1, BackendTypes DEF RowsTrackTokens, Tracks
  <2>3. QED BY <1>1, <2>2 DEF Operand, Token
<1>2. CASE OperandSource(r) = "wb"
  <2>1. wb_row_q # None
    BY <1>2 DEF OperandSource, RdMatch
  <2>2. wb_q \in Token
    BY <2>1, BackendTypes DEF RowsTrackTokens, Tracks
  <2>3. QED BY <1>2, <2>2 DEF Operand, Token
<1>3. CASE OperandSource(r) \notin {"mem", "wb"}
  BY <1>3, BackendTypes, WordFacts DEF Operand, Gpr
<1>4. QED BY <1>1, <1>2, <1>3

LEMMA IssueTypes ==
  ASSUME BackendTypeOK, RowsTrackTokens, NEW cand \in FetchPkt
  PROVE  IssueToken(cand) \in Token /\ RowFromIr(cand) \in Row
<1>1. /\ cand.pc \in Word /\ cand.epoch \in Epoch /\ cand.seq_id \in SeqId
      /\ cand.inst \in Ir
  BY CoreAssumption DEF FetchPkt
<1>2. cand.inst.rs1 \in Reg \cup {0} /\ cand.inst.rs2 \in Reg \cup {0} /\ cand.inst.rd \in Reg \cup {0}
  BY <1>1 DEF Ir
<1>3. Operand(cand.inst.rs1) \in Word /\ Operand(cand.inst.rs2) \in Word
  BY <1>2, OperandType
<1>4. "NONE" \in HaltKind /\ 0 \in Word
  BY WordFacts DEF HaltKind
<1>5. QED BY <1>1, <1>2, <1>3, <1>4 DEF IssueToken, RowFromIr, Token, Row

\* Two tokens of one instruction.
SameTags(t, u) ==
  /\ t = None <=> u = None
  /\ u # None => /\ t.epoch = u.epoch /\ t.seq_id = u.seq_id /\ t.killed = u.killed
                 /\ t.ir.rd = u.ir.rd /\ t.ir.fu_type = u.ir.fu_type

\* EXE and MEM hand on a token of the instruction they hold.
LEMMA ExeOutType ==
  ASSUME BackendTypeOK, NEW mip \in SUBSET IrqLine
  PROVE  /\ ExeOut(mip) \in Token \cup {None}
         /\ SameTags(ExeOut(mip), exe_q)
<1>1. CASE exe_q = None
  BY <1>1 DEF ExeOut, SameTags
<1>2. CASE exe_q # None
  <2>1. exe_q \in Token /\ csr_q \in CsrFile
    BY <1>2, BackendTypes
  <2>2. /\ exe_q.ir \in Ir /\ exe_q.rs1_val \in Word /\ exe_q.rs2_val \in Word
        /\ exe_q.pc \in Word /\ exe_q.ir.imm \in Word /\ exe_q.halt_kind \in HaltKind
    BY <2>1 DEF Token, Ir
  <2>3. AluResult(exe_q.ir, exe_q.pc, exe_q.rs1_val, exe_q.rs2_val) \in Word
    <3>1. exe_q.ir.alu_op1_sel \in Op1Sel
      BY <2>1 DEF Token, Ir
    <3>2. QED BY <2>2, <3>1, WordFacts DEF AluResult, AluLhs, Op1Sel
  <2>4. ReadCsr(csr_q, exe_q.ir.csr_addr, mip) \in Word
    BY <2>1, ReadType
  <2>5. ExeRdValue(mip) \in Word
    BY <2>2, <2>3, <2>4, WordFacts DEF ExeRdValue
  <2>6. CsrSource(exe_q.ir, exe_q.rs1_val) \in Word
    BY <2>2 DEF CsrSource
  <2>7. ExeCsrNew(mip) \in Word
    BY <2>4, <2>6, NewType DEF ExeCsrNew
  <2> DEFINE illegal == exe_q.ir.illegal \/ (Alive(exe_q) /\ CsrIllegal(exe_q.ir))
             ir      == [exe_q.ir EXCEPT !.illegal = illegal]
             halt    == IF /\ Alive(exe_q) /\ ExeTakesBranch
                           /\ Misaligned(BranchTarget(exe_q.ir, exe_q.pc, exe_q.rs1_val))
                        THEN "MISALIGN_PC" ELSE exe_q.halt_kind
             alu     == AluResult(exe_q.ir, exe_q.pc, exe_q.rs1_val, exe_q.rs2_val)
  <2>8. ir \in Ir /\ ir.rd = exe_q.ir.rd /\ ir.fu_type = exe_q.ir.fu_type
    <3>1. illegal \in BOOLEAN
      BY <2>2 DEF Ir
    <3>2. QED BY <2>2, <3>1 DEF Ir
  <2>9. halt \in HaltKind
    BY <2>2 DEF HaltKind
  <2>10. ExeOut(mip) = [exe_q EXCEPT !.rd_value = ExeRdValue(mip), !.mem_addr = alu,
                                     !.csr_new = ExeCsrNew(mip), !.ir = ir, !.halt_kind = halt]
    BY <1>2, <2>1 DEF ExeOut, Token
  <2> HIDE DEF ir, halt, alu, illegal
  <2>11. alu \in Word
    BY <2>3 DEF alu
  <2>12. ExeOut(mip) \in Token
    BY <2>1, <2>5, <2>7, <2>8, <2>9, <2>10, <2>11 DEF Token
  <2>13. SameTags(ExeOut(mip), exe_q)
    BY <1>2, <2>1, <2>8, <2>10, <2>12, NoneIsNone DEF Token, SameTags
  <2>14. QED BY <2>12, <2>13
<1>3. QED BY <1>1, <1>2

LEMMA MemOutType ==
  ASSUME BackendTypeOK, NEW mip \in SUBSET IrqLine, NEW resp \in Response \cup {None}
  PROVE  /\ MemOut(resp, mip) \in Token \cup {None}
         /\ SameTags(MemOut(resp, mip), mem_q)
         /\ PendingCause(mip) \in Word \cup {None}
<1>1. PendingCause(mip) \in Word \cup {None}
  BY CauseType, WordFacts DEF PendingCause, CAUSE_ECALL
<1>2. CASE mem_q = None
  BY <1>1, <1>2 DEF MemOut, SameTags
<1>3. CASE mem_q # None
  <2>1. /\ mem_q \in Token /\ mem_q.rd_value \in Word /\ mem_q.halt_kind \in HaltKind
        /\ mem_q.trap_cause \in Word \cup {None}
    BY <1>3, BackendTypes DEF Token
  <2> DEFINE value == IF MemAlive /\ IsLoad(mem_q.ir) /\ resp # None
                      THEN resp.rdata ELSE mem_q.rd_value
             cause == IF TakeTrap(mip) THEN PendingCause(mip) ELSE mem_q.trap_cause
             halt  == IF BusError(resp)
                      THEN IF IsStore(mem_q.ir) THEN "BUS_ERROR_ST" ELSE "BUS_ERROR_LD"
                      ELSE IF TakeHalt(mip) THEN HaltKindOf(mip) ELSE mem_q.halt_kind
  <2>2. value \in Word
    BY <2>1 DEF Response
  <2>3. cause \in Word \cup {None}
    BY <1>1, <2>1
  <2>4. halt \in HaltKind
    <3>1. HaltKindOf(mip) \in HaltKind
      BY <2>1 DEF HaltKindOf, HaltKind
    <3>2. QED BY <2>1, <3>1 DEF HaltKind
  <2>5. MemOut(resp, mip) =
          [mem_q EXCEPT !.rd_value = value, !.trap_cause = cause, !.halt_kind = halt]
    BY <1>3, <2>1 DEF MemOut, Token
  <2> HIDE DEF value, cause, halt
  <2>6. MemOut(resp, mip) \in Token
    BY <2>1, <2>2, <2>3, <2>4, <2>5 DEF Token
  <2>7. SameTags(MemOut(resp, mip), mem_q)
    BY <1>3, <2>1, <2>5, <2>6, NoneIsNone DEF Token, SameTags
  <2>8. QED BY <1>1, <2>6, <2>7
<1>4. QED BY <1>2, <1>3

\* A row and a token that track each other are killed together.
LEMMA ShiftTracks ==
  ASSUME NEW row \in Row \cup {None}, NEW t \in Token \cup {None},
         NEW u \in Token \cup {None}, NEW kill, NEW ready \in BOOLEAN,
         Tracks(row, t), SameTags(u, t)
  PROVE  Tracks(ShiftRow(row, ready, kill), KillIfYounger(u, kill))
<1>1. CASE row = None
  BY <1>1 DEF Tracks, SameTags, ShiftRow, KillIfYounger
<1>2. CASE row # None
  <2>1. row \in Row /\ t \in Token /\ u \in Token /\ t # None /\ u # None
    BY <1>2 DEF Tracks, SameTags
  <2>2. /\ row.epoch = u.epoch /\ row.seq_id = u.seq_id /\ row.killed = u.killed
        /\ row.rd = u.ir.rd
    BY <2>1 DEF Tracks, SameTags
  <2>3. KilledBy(row, kill) <=> KilledBy(u, kill)
    BY <2>2 DEF KilledBy
  <2>4. KillIfYounger(u, kill) = [u EXCEPT !.killed = u.killed \/ KilledBy(u, kill)]
    BY <2>1, NoneIsNone DEF KillIfYounger
  <2>5. /\ KillIfYounger(row, kill) = [row EXCEPT !.killed = row.killed \/ KilledBy(row, kill)]
        /\ ShiftRow(row, ready, kill)
             = [[row EXCEPT !.killed = row.killed \/ KilledBy(row, kill)]
                  EXCEPT !.rd_ready = @ \/ ready]
    BY <2>1, <1>2 DEF KillIfYounger, ShiftRow
  <2>6. /\ KillIfYounger(u, kill) \in Token /\ KillIfYounger(u, kill) # None
        /\ ShiftRow(row, ready, kill) \in Row /\ ShiftRow(row, ready, kill) # None
    <3>1. KillIfYounger(u, kill) \in Token
      <4>1. (u.killed \/ KilledBy(u, kill)) \in BOOLEAN
        BY <2>1 DEF Token, KilledBy
      <4>2. QED BY <2>1, <2>4, <4>1 DEF Token
    <3>2. ShiftRow(row, ready, kill) \in Row
      <4>1. (row.killed \/ KilledBy(row, kill)) \in BOOLEAN /\ (row.rd_ready \/ ready) \in BOOLEAN
        BY <2>1 DEF Row, KilledBy
      <4>2. QED BY <2>1, <2>5, <4>1 DEF Row
    <3>3. QED BY <3>1, <3>2, NoneIsNone
  <2>7. LET a == KillIfYounger(u, kill)  r == ShiftRow(row, ready, kill)
        IN  /\ a.epoch = u.epoch /\ a.seq_id = u.seq_id /\ a.ir = u.ir
            /\ a.killed = (u.killed \/ KilledBy(u, kill))
            /\ r.epoch = row.epoch /\ r.seq_id = row.seq_id /\ r.rd = row.rd
            /\ r.killed = (row.killed \/ KilledBy(row, kill))
    BY <2>1, <2>4, <2>5 DEF Token, Row
  <2>8. (u.killed \/ KilledBy(u, kill)) = (row.killed \/ KilledBy(row, kill))
    BY <2>2, <2>3
  <2>9. QED BY <2>2, <2>6, <2>7, <2>8 DEF Tracks
<1>3. QED BY <1>1, <1>2

-----------------------------------------------------------------------------
\* The types of the backend's tokens and the rows beside them.
BackendInv == BackendTypeOK /\ RowsTrackTokens

LEMMA WriteBackTypes ==
  ASSUME BackendTypeOK, WriteBack
  PROVE  regs_q' \in [Reg -> Word] /\ last_step_entered_trap_q' \in BOOLEAN /\ fwd' = fwd
<1>1. CASE RfWe
  <2>1. wb_q \in Token /\ wb_q.rd_value \in Word
    BY <1>1, BackendTypes DEF RfWe, CommitValid, Alive, Token
  <2>2. QED BY <1>1, <2>1, BackendTypes DEF WriteBack
<1>2. CASE ~RfWe
  BY <1>2, BackendTypes DEF WriteBack
<1>3. QED BY <1>1, <1>2

LEMMA ShiftKeeps ==
  ASSUME BackendInv, NEW mip \in SUBSET IrqLine, NEW resp \in Response \cup {None},
         NEW kill, Shift(kill, resp, mip)
  PROVE  /\ mem_q' \in Token \cup {None} /\ wb_q' \in Token \cup {None}
         /\ mem_row_q' \in Row \cup {None} /\ wb_row_q' \in Row \cup {None}
         /\ Tracks(mem_row_q', mem_q') /\ Tracks(wb_row_q', wb_q') /\ req_sent_q' = FALSE
<1>1. /\ ExeOut(mip) \in Token \cup {None} /\ MemOut(resp, mip) \in Token \cup {None}
      /\ SameTags(ExeOut(mip), exe_q) /\ SameTags(MemOut(resp, mip), mem_q)
  BY ExeOutType, MemOutType DEF BackendInv
<1>2. ExeRdReady \in BOOLEAN /\ MemRdReady(resp) \in BOOLEAN
  BY DEF ExeRdReady, MemRdReady
<1>3. /\ exe_q \in Token \cup {None} /\ mem_q \in Token \cup {None}
      /\ exe_row_q \in Row \cup {None} /\ mem_row_q \in Row \cup {None}
      /\ Tracks(exe_row_q, exe_q) /\ Tracks(mem_row_q, mem_q)
  BY BackendTypes DEF BackendInv, RowsTrackTokens
<1>4. Tracks(mem_row_q', mem_q') /\ Tracks(wb_row_q', wb_q')
  BY <1>1, <1>2, <1>3, ShiftTracks DEF Shift
<1>5. QED BY <1>1, <1>2, <1>3, <1>4, KillTypes DEF Shift
\* What the CSR file holds after any edge.
LEMMA CsrAfterTypes ==
  ASSUME BackendInv, NEW mip \in SUBSET IrqLine
  PROVE  /\ CsrAfterExe(mip) \in CsrFile
         /\ TakeTrap(mip) => TrapEntry(csr_q, mem_q.pc, PendingCause(mip)) \in CsrFile
<1>1. csr_q \in CsrFile /\ exe_q \in Token \cup {None} /\ mem_q \in Token \cup {None}
  BY BackendTypes DEF BackendInv
<1>2. ExeCommitsMret => CsrAfterExe(mip) \in CsrFile
  <2>1. MretExit(csr_q) \in CsrFile
    BY <1>1, CsrTypes
  <2>2. QED BY <2>1 DEF CsrAfterExe
<1>3. ASSUME ~ExeCommitsMret, ExeCommitsCsr PROVE CsrAfterExe(mip) \in CsrFile
  <2>1. exe_q \in Token
    BY <1>1, <1>3 DEF ExeCommitsCsr, Alive
  <2>2. exe_q.ir.imm \in Word /\ exe_q.rs1_val \in Word
    BY <2>1 DEF Token, Ir
  <2>3. ReadCsr(csr_q, exe_q.ir.csr_addr, mip) \in Word
    BY <1>1, ReadType
  <2>4. CsrSource(exe_q.ir, exe_q.rs1_val) \in Word
    BY <2>2 DEF CsrSource
  <2>5. ExeCsrNew(mip) \in Word
    BY <2>3, <2>4, NewType DEF ExeCsrNew
  <2>6. WriteCsr(csr_q, exe_q.ir.csr_addr, ExeCsrNew(mip)) \in CsrFile
    BY <1>1, <2>5, CsrTypes
  <2>7. QED BY <1>1, <1>3, <2>6 DEF CsrAfterExe
<1>4. ~ExeCommitsMret /\ ~ExeCommitsCsr => CsrAfterExe(mip) \in CsrFile
  BY <1>1 DEF CsrAfterExe
<1>5. ASSUME TakeTrap(mip) PROVE TrapEntry(csr_q, mem_q.pc, PendingCause(mip)) \in CsrFile
  <2>1. mem_q \in Token /\ PendingCause(mip) # None
    BY <1>1, <1>5 DEF TakeTrap, Traps, MemAlive, Alive
  <2>2. mem_q.pc \in Word /\ PendingCause(mip) \in Word
    <3>1. PendingCause(mip) \in Word \cup {None}
      BY CauseType, WordFacts DEF PendingCause, CAUSE_ECALL
    <3>2. QED BY <2>1, <3>1 DEF Token
  <2>3. QED BY <1>1, <2>2, CsrTypes
<1>6. CsrAfterExe(mip) \in CsrFile
  BY <1>2, <1>3, <1>4
<1>7. (TakeTrap(mip)) => TrapEntry(csr_q, mem_q.pc, PendingCause(mip)) \in CsrFile
  BY <1>5
<1>8. QED BY <1>6, <1>7

-----------------------------------------------------------------------------
(* The four edges of the backend keep its invariant.                        *)
LEMMA StallKeeps ==
  ASSUME BackendInv, NEW mip \in SUBSET IrqLine, NEW resp \in Response \cup {None},
         NEW dready \in BOOLEAN, BackendStall(dready, resp, mip)
  PROVE  BackendInv'
<1>1. BackendTypeOK'
  <2>1. WriteBack
    BY DEF BackendStall
  <2>2. regs_q' \in [Reg -> Word] /\ last_step_entered_trap_q' \in BOOLEAN /\ fwd' = fwd
    BY <2>1, WriteBackTypes DEF BackendInv
  <2>3. req_sent_q' \in BOOLEAN
    BY DEF BackendStall, BackendInv, BackendTypeOK, DmemReqValid
  <2>4. QED BY <2>2, <2>3 DEF BackendStall, BackendInv, BackendTypeOK
<1>2. RowsTrackTokens'
  BY DEF BackendStall, BackendInv, RowsTrackTokens, Tracks
<1>3. QED BY <1>1, <1>2 DEF BackendInv

LEMMA TrapKeeps ==
  ASSUME BackendInv, NEW mip \in SUBSET IrqLine, NEW resp \in Response \cup {None},
         BackendTrap(resp, mip)
  PROVE  BackendInv'
<1>1. /\ mem_q' \in Token \cup {None} /\ wb_q' \in Token \cup {None}
      /\ mem_row_q' \in Row \cup {None} /\ wb_row_q' \in Row \cup {None}
      /\ Tracks(mem_row_q', mem_q') /\ Tracks(wb_row_q', wb_q') /\ req_sent_q' = FALSE
  <2>1. Shift(Kill(mem_q), resp, mip)
    BY DEF BackendTrap
  <2>2. QED BY <2>1, ShiftKeeps
<1>2. regs_q' \in [Reg -> Word] /\ last_step_entered_trap_q' \in BOOLEAN /\ fwd' = fwd
  BY WriteBackTypes DEF BackendInv, BackendTrap
<1>3. csr_q' \in CsrFile
  BY CsrAfterTypes DEF BackendTrap
<1>4. exe_q' = None /\ exe_row_q' = None
  BY DEF BackendTrap
<1>5. QED BY <1>1, <1>2, <1>3, <1>4 DEF BackendInv, BackendTypeOK, CsrFile, RowsTrackTokens, Tracks

LEMMA RedirectKeeps ==
  ASSUME BackendInv, NEW mip \in SUBSET IrqLine, NEW resp \in Response \cup {None},
         BackendRedirect(resp, mip)
  PROVE  BackendInv'
<1>1. /\ mem_q' \in Token \cup {None} /\ wb_q' \in Token \cup {None}
      /\ mem_row_q' \in Row \cup {None} /\ wb_row_q' \in Row \cup {None}
      /\ Tracks(mem_row_q', mem_q') /\ Tracks(wb_row_q', wb_q') /\ req_sent_q' = FALSE
  <2>1. Shift(Kill(exe_q), resp, mip)
    BY DEF BackendRedirect
  <2>2. QED BY <2>1, ShiftKeeps
<1>2. regs_q' \in [Reg -> Word] /\ last_step_entered_trap_q' \in BOOLEAN /\ fwd' = fwd
  BY WriteBackTypes DEF BackendInv, BackendRedirect
<1>3. csr_q' \in CsrFile
  BY CsrAfterTypes DEF BackendRedirect
<1>4. exe_q' = None /\ exe_row_q' = None
  BY DEF BackendRedirect
<1>5. QED BY <1>1, <1>2, <1>3, <1>4 DEF BackendInv, BackendTypeOK, CsrFile, RowsTrackTokens, Tracks

LEMMA AdvanceKeeps ==
  ASSUME BackendInv, NEW mip \in SUBSET IrqLine, NEW resp \in Response \cup {None},
         NEW cand \in FetchPkt \cup {None}, BackendAdvance(cand, resp, mip)
  PROVE  BackendInv'
<1>1. /\ mem_q' \in Token \cup {None} /\ wb_q' \in Token \cup {None}
      /\ mem_row_q' \in Row \cup {None} /\ wb_row_q' \in Row \cup {None}
      /\ Tracks(mem_row_q', mem_q') /\ Tracks(wb_row_q', wb_q') /\ req_sent_q' = FALSE
  <2>1. Shift(None, resp, mip)
    BY DEF BackendAdvance
  <2>2. QED BY <2>1, ShiftKeeps
<1>2. regs_q' \in [Reg -> Word] /\ last_step_entered_trap_q' \in BOOLEAN /\ fwd' = fwd
  BY WriteBackTypes DEF BackendInv, BackendAdvance
<1>3. csr_q' \in CsrFile
  BY CsrAfterTypes DEF BackendAdvance
<1>4. /\ exe_q' \in Token \cup {None} /\ exe_row_q' \in Row \cup {None}
      /\ Tracks(exe_row_q', exe_q')
  <2>1. CASE Issuable(cand)
    <3>1. cand \in FetchPkt
      BY <2>1 DEF Issuable
    <3>2. IssueToken(cand) \in Token /\ RowFromIr(cand) \in Row
      BY <3>1, IssueTypes DEF BackendInv
    <3>3. Tracks(RowFromIr(cand), IssueToken(cand))
      BY <3>2, NoneIsNone DEF Tracks, RowFromIr, IssueToken
    <3>4. exe_q' = IssueToken(cand) /\ exe_row_q' = RowFromIr(cand)
      BY <2>1 DEF BackendAdvance
    <3>5. QED BY <3>2, <3>3, <3>4
  <2>2. CASE ~Issuable(cand)
    BY <2>2 DEF BackendAdvance, Tracks
  <2>3. QED BY <2>1, <2>2
<1>5. QED BY <1>1, <1>2, <1>3, <1>4 DEF BackendInv, BackendTypeOK, CsrFile, RowsTrackTokens

-----------------------------------------------------------------------------
(* The frontend's registers.                                                *)

LEMMA RedirectTypes ==
  ASSUME FrontendTypeOK, NEW iresp \in BOOLEAN, NEW target \in Word,
         FrontendRedirect(target, iresp)
  PROVE  FrontendTypeOK'
<1>1. IncEpoch(current_epoch_q) \in Epoch
  BY UarchAssumption DEF FrontendTypeOK, IncEpoch, Epoch
<1>2. ir_queue' \in Seq(FetchPkt) /\ Len(ir_queue') <= IR_QUEUE_DEPTH
  <2>1. CASE QueueStale
    BY <2>1, HeadTailProperties, FrontendAssumption
    DEF FrontendTypeOK, FrontendRedirect, QueueStale
  <2>2. CASE ~QueueStale
    BY <2>2 DEF FrontendTypeOK, FrontendRedirect
  <2>3. QED BY <2>1, <2>2
<1>3. Decoded' = Decoded
  BY DEF FrontendRedirect, Decoded
<1>4. QED BY <1>1, <1>2, <1>3 DEF FrontendTypeOK, FrontendRedirect

LEMMA RunTypes ==
  ASSUME FrontendTypeOK, NEW iready \in BOOLEAN, NEW iresp \in BOOLEAN, NEW issue \in BOOLEAN,
         iresp => req_q # None, issue => IrValid,
         FrontendRun(iready, iresp, issue)
  PROVE  FrontendTypeOK'
<1> DEFINE fire == ImemReqValid /\ iready
           push == out_q # None /\ QueueReady
           pop  == issue \/ QueueStale
           rest == IF pop THEN Tail(ir_queue) ELSE ir_queue
<1>1. pc_q' \in Word /\ next_seq_id_q' \in SeqId
  <2>1. IncSeq(next_seq_id_q) \in SeqId
    BY UarchAssumption DEF FrontendTypeOK, IncSeq, SeqId
  <2>2. QED BY <2>1, WordFacts DEF FrontendTypeOK, FrontendRun
<1>2. req_q' \in FetchReq \cup {None} /\ drop_q' \in BOOLEAN
  BY DEF FrontendTypeOK, FrontendRun, FetchReq, Discards, ResponseStale
<1>3. out_q' \in FetchPkt \cup {None}
  <2>1. ASSUME iresp PROVE Fetched(req_q) \in FetchPkt
    BY <2>1 DEF FrontendTypeOK, Fetched, FetchReq, FetchPkt
  <2>2. QED BY <2>1 DEF FrontendTypeOK, FrontendRun
<1>4. /\ rest \in Seq(FetchPkt)
      /\ Len(rest) \in Nat /\ Len(rest) <= Len(ir_queue)
  <2>1. CASE pop
    <3>1. ir_queue # <<>>
      BY <2>1 DEF IrValid, QueueStale
    <3>2. QED BY <2>1, <3>1, HeadTailProperties DEF FrontendTypeOK
  <2>2. CASE ~pop
    BY <2>2 DEF FrontendTypeOK
  <2>3. QED BY <2>1, <2>2
<1>5. ir_queue' = IF push THEN Append(rest, out_q) ELSE rest
  BY DEF FrontendRun
<1> HIDE DEF rest
<1>6. ir_queue' \in Seq(FetchPkt) /\ Len(ir_queue') <= IR_QUEUE_DEPTH
  <2>1. CASE push
    <3>1. out_q \in FetchPkt /\ Len(ir_queue) < IR_QUEUE_DEPTH
      BY <2>1, FrontendAssumption DEF FrontendTypeOK, QueueReady
    <3>2. Append(rest, out_q) \in Seq(FetchPkt) /\ Len(Append(rest, out_q)) = Len(rest) + 1
      BY <1>4, <3>1
    <3>3. QED BY <1>4, <1>5, <2>1, <3>1, <3>2, FrontendAssumption DEF FrontendTypeOK
  <2>2. CASE ~push
    BY <1>4, <1>5, <2>2, FrontendAssumption DEF FrontendTypeOK
  <2>3. QED BY <2>1, <2>2
<1>7. Decoded' = Decoded /\ current_epoch_q' = current_epoch_q
  BY DEF FrontendRun, Decoded
<1>8. QED BY <1>1, <1>2, <1>3, <1>6, <1>7 DEF FrontendTypeOK

-----------------------------------------------------------------------------
(* The data memory and the outcome.                                         *)
LEMMA AnswerTypes ==
  ASSUME TypeOK, NEW resp \in DmemResp
  PROVE  /\ resp \in Response \cup {None} /\ (resp # None => dresp # <<>>)
         /\ Undelivered(resp) \in Seq(Response)
         /\ Len(Undelivered(resp)) \in Nat /\ Len(Undelivered(resp)) <= Len(dresp)
<1>1. resp \in Response \cup {None} /\ (resp # None => dresp # <<>>)
  BY HeadTailProperties DEF TypeOK, DmemResp
<1>2. QED BY <1>1, HeadTailProperties DEF TypeOK, Undelivered

LEMMA DmemTypes ==
  ASSUME TypeOK, NEW resp \in DmemResp, NEW accept \in BOOLEAN,
         accept => MemAlive /\ Len(dresp) # DmemSlots,
         DmemStep(accept, resp)
  PROVE  /\ dmem' \in [DAddr -> Word]
         /\ dresp' \in Seq(Response) /\ Len(dresp') <= DmemSlots
<1>1. /\ Undelivered(resp) \in Seq(Response)
      /\ Len(Undelivered(resp)) \in Nat /\ Len(Undelivered(resp)) <= Len(dresp)
      /\ Len(dresp) \in Nat /\ Len(dresp) <= DmemSlots /\ DmemSlots \in Nat
  BY AnswerTypes, CoreAssumption DEF TypeOK
<1>2. CASE accept
  <2>1. mem_q \in Token
    BY <1>2, BackendTypes DEF TypeOK, MemAlive, Alive
  <2>2. Performed \in Response
    BY <2>1, WordFacts DEF TypeOK, Performed, Response
  <2>3. dresp' = Append(Undelivered(resp), Performed)
    BY <1>2 DEF DmemStep
  <2>4. dresp' \in Seq(Response) /\ Len(dresp') = Len(Undelivered(resp)) + 1
    BY <1>1, <2>2, <2>3
  <2>5. Len(dresp') <= DmemSlots
    BY <1>1, <1>2, <2>4
  <2>6. dmem' \in [DAddr -> Word]
    BY <2>1 DEF TypeOK, DmemStep, Token
  <2>7. QED BY <2>4, <2>5, <2>6
<1>3. CASE ~accept
  BY <1>1, <1>3 DEF DmemStep, TypeOK
<1>4. QED BY <1>2, <1>3

LEMMA IdleTypes ==
  ASSUME TypeOK, NEW resp \in DmemResp, DmemIdle(resp)
  PROVE  /\ dmem' \in [DAddr -> Word]
         /\ dresp' \in Seq(Response) /\ Len(dresp') <= DmemSlots
BY AnswerTypes, CoreAssumption DEF DmemIdle, TypeOK

LEMMA ObserveTypes == ASSUME TypeOK, Observe PROVE done' \in Outcome \cup {None}
<1>1. CASE CommitsHalt
  <2>1. wb_q \in Token
    BY <1>1, BackendTypes DEF TypeOK, CommitsHalt, CommitValid, Alive
  <2>2. wb_q.halt_kind \in HaltKind /\ Gpr(A0) \in Word /\ 0 \in Word
    BY <2>1, BackendTypes, DatapathAssumption, WordFacts DEF TypeOK, Token, Gpr
  <2>3. QED BY <1>1, <2>2 DEF Observe, Outcome
<1>2. CASE ~CommitsHalt
  BY <1>2 DEF Observe, TypeOK
<1>3. QED BY <1>1, <1>2

-----------------------------------------------------------------------------
(* Every clock edge keeps the types and the rows.                           *)
CoreInv == TypeOK /\ RowsTrackTokens

\* The inputs of a cycle: what the environment may choose.
LEMMA InputTypes ==
  ASSUME CoreInv, NEW iresp \in ImemResp, NEW resp \in DmemResp, NEW mip \in Mip
  PROVE  /\ iresp \in BOOLEAN /\ (iresp => req_q # None)
         /\ resp \in Response \cup {None} /\ mip \in SUBSET IrqLine
         /\ BackendInv
<1>1. mip \in SUBSET IrqLine
  BY CoreAssumption DEF Mip
<1>2. iresp \in BOOLEAN /\ (iresp => req_q # None)
  BY DEF ImemResp
<1>3. QED BY <1>1, <1>2, AnswerTypes DEF CoreInv, TypeOK, BackendInv

LEMMA StallStep ==
  ASSUME CoreInv, Observe, NEW iresp \in ImemResp, NEW resp \in DmemResp, NEW mip \in Mip,
         NEW iready \in ImemReady, NEW dready \in DmemReady,
         ClockStall(iready, iresp, dready, resp, mip)
  PROVE  CoreInv'
<1>1. /\ iresp \in BOOLEAN /\ (iresp => req_q # None)
      /\ resp \in Response \cup {None} /\ mip \in SUBSET IrqLine /\ BackendInv
  BY InputTypes
<1>2. iready \in BOOLEAN /\ dready \in BOOLEAN /\ (dready => Len(dresp) # DmemSlots)
  BY DEF ImemReady, DmemReady
<1>3. BackendInv'
  BY <1>1, <1>2, StallKeeps DEF ClockStall
<1>4. FrontendTypeOK'
  BY <1>1, <1>2, RunTypes DEF ClockStall, CoreInv, TypeOK
<1>5. dmem' \in [DAddr -> Word] /\ dresp' \in Seq(Response) /\ Len(dresp') <= DmemSlots
  <2>1. (DmemReqValid(mip) /\ dready) \in BOOLEAN
    BY DEF DmemReqValid
  <2>2. (DmemReqValid(mip) /\ dready) => MemAlive /\ Len(dresp) # DmemSlots
    BY <1>2 DEF DmemReqValid, IsMemory
  <2>3. QED BY <2>1, <2>2, DmemTypes DEF ClockStall, CoreInv
<1>6. QED BY <1>3, <1>4, <1>5, ObserveTypes DEF CoreInv, TypeOK, BackendInv

LEMMA TrapStep ==
  ASSUME CoreInv, Observe, NEW iresp \in ImemResp, NEW resp \in DmemResp, NEW mip \in Mip,
         ClockTrap(iresp, resp, mip)
  PROVE  CoreInv'
<1>1. /\ iresp \in BOOLEAN /\ (iresp => req_q # None)
      /\ resp \in Response \cup {None} /\ mip \in SUBSET IrqLine /\ BackendInv
  BY InputTypes
<1>2. BackendInv'
  BY <1>1, TrapKeeps DEF ClockTrap
<1>3. FrontendTypeOK'
  <2>1. csr_q["mtvec"] \in Word
    BY <1>1, BackendTypes DEF BackendInv, CsrFile, CsrReg
  <2>2. QED BY <1>1, <2>1, RedirectTypes DEF ClockTrap, CoreInv, TypeOK
<1>4. dmem' \in [DAddr -> Word] /\ dresp' \in Seq(Response) /\ Len(dresp') <= DmemSlots
  BY IdleTypes DEF ClockTrap, CoreInv
<1>5. QED BY <1>2, <1>3, <1>4, ObserveTypes DEF CoreInv, TypeOK, BackendInv

LEMMA RedirectStep ==
  ASSUME CoreInv, Observe, NEW iresp \in ImemResp, NEW resp \in DmemResp, NEW mip \in Mip,
         ClockRedirect(iresp, resp, mip)
  PROVE  CoreInv'
<1>1. /\ iresp \in BOOLEAN /\ (iresp => req_q # None)
      /\ resp \in Response \cup {None} /\ mip \in SUBSET IrqLine /\ BackendInv
  BY InputTypes
<1>2. BackendInv'
  BY <1>1, RedirectKeeps DEF ClockRedirect
<1>3. FrontendTypeOK'
  <2>1. exe_q \in Token /\ csr_q \in CsrFile
    BY <1>1, BackendTypes DEF BackendInv, ClockRedirect, BackendRedirect, ExeRedirects, Alive
  <2>2. csr_q["mepc"] \in Word /\ exe_q.pc \in Word /\ exe_q.rs1_val \in Word /\ exe_q.ir.imm \in Word
    BY <2>1 DEF CsrFile, CsrReg, Token, Ir
  <2>3. ExeTarget \in Word
    BY <2>2, WordFacts DEF ExeTarget, BranchTarget
  <2>4. QED BY <1>1, <2>3, RedirectTypes DEF ClockRedirect, CoreInv, TypeOK
<1>4. dmem' \in [DAddr -> Word] /\ dresp' \in Seq(Response) /\ Len(dresp') <= DmemSlots
  BY IdleTypes DEF ClockRedirect, CoreInv
<1>5. QED BY <1>2, <1>3, <1>4, ObserveTypes DEF CoreInv, TypeOK, BackendInv

LEMMA AdvanceStep ==
  ASSUME CoreInv, Observe, NEW iresp \in ImemResp, NEW resp \in DmemResp, NEW mip \in Mip,
         NEW iready \in ImemReady, ClockAdvance(iready, iresp, resp, mip)
  PROVE  CoreInv'
<1>1. /\ iresp \in BOOLEAN /\ (iresp => req_q # None)
      /\ resp \in Response \cup {None} /\ mip \in SUBSET IrqLine /\ BackendInv
  BY InputTypes
<1>2. Candidate \in FetchPkt \cup {None} /\ iready \in BOOLEAN
  BY HeadTailProperties DEF Candidate, IrValid, CoreInv, TypeOK, FrontendTypeOK, ImemReady
<1>3. BackendInv'
  BY <1>1, <1>2, AdvanceKeeps DEF ClockAdvance
<1>4. FrontendTypeOK'
  <2>1. Issuable(Candidate) \in BOOLEAN /\ (Issuable(Candidate) => IrValid)
    BY DEF Issuable, Candidate
  <2>2. QED BY <1>1, <1>2, <2>1, RunTypes DEF ClockAdvance, CoreInv, TypeOK
<1>5. dmem' \in [DAddr -> Word] /\ dresp' \in Seq(Response) /\ Len(dresp') <= DmemSlots
  BY IdleTypes DEF ClockAdvance, CoreInv
<1>6. QED BY <1>3, <1>4, <1>5, ObserveTypes DEF CoreInv, TypeOK, BackendInv

LEMMA CoreInitial == Init => CoreInv
<1> SUFFICES ASSUME Init PROVE CoreInv
  OBVIOUS
<1>1. FrontendTypeOK
  <2>1. Decoded \in [Word -> Inst]
    BY CoreAssumption DEF Init, Decoded
  <2>2. 0 \in Epoch /\ 0 \in SeqId /\ RESET_PC \in Word
    BY FrontendAssumption, UarchAssumption DEF Epoch, SeqId
  <2>3. <<>> \in Seq(FetchPkt) /\ Len(<<>>) <= IR_QUEUE_DEPTH
    BY FrontendAssumption
  <2>4. QED BY <2>1, <2>2, <2>3 DEF Init, FrontendInit, FrontendTypeOK
<1>2. BackendTypeOK
  <2>1. fwd \subseteq {"mem", "wb"}
    BY CoreAssumption DEF Init
  <2>2. regs_q \in [Reg -> Word] /\ csr_q \in [CsrReg -> Word]
    BY WordFacts DEF Init, BackendInit, CsrReset
  <2>3. QED BY <2>1, <2>2 DEF Init, BackendInit, BackendTypeOK
<1>3. RowsTrackTokens
  BY DEF Init, BackendInit, RowsTrackTokens, Tracks
<1>4. QED BY <1>1, <1>2, <1>3, CoreAssumption DEF Init, CoreInv, TypeOK

LEMMA CoreInductive == CoreInv /\ [Next]_vars => CoreInv'
<1> SUFFICES ASSUME CoreInv, [Next]_vars PROVE CoreInv'
  OBVIOUS
<1>1. CASE UNCHANGED vars
  BY <1>1
  DEF CoreInv, TypeOK, FrontendTypeOK, Decoded, BackendTypeOK, RowsTrackTokens, vars,
      frontendVars, ifVars, backendVars, tokenVars
<1>2. CASE Clock
  <2>1. PICK iresp \in ImemResp, resp \in DmemResp, mip \in Mip :
          \/ ClockTrap(iresp, resp, mip)
          \/ ClockRedirect(iresp, resp, mip)
          \/ \E iready \in ImemReady :
               \/ ClockAdvance(iready, iresp, resp, mip)
               \/ \E dready \in DmemReady : ClockStall(iready, iresp, dready, resp, mip)
    BY <1>2 DEF Clock
  <2>2. Observe
    BY <1>2 DEF Clock
  <2>3. QED BY <2>1, <2>2, StallStep, TrapStep, RedirectStep, AdvanceStep
<1>3. QED BY <1>1, <1>2 DEF Next, Finished

-----------------------------------------------------------------------------
(* One request at a time.                                                   *)

\* Why MEM and the data memory agree: the instruction that sent a request stays
\* in MEM, unable to trap or halt, until the only answer arrives.
RequestInv ==
  /\ OneRequest
  /\ Len(dresp) <= 1
  /\ req_sent_q => /\ IsMemory /\ ~MemMisaligned /\ ~PreHalt
                   /\ mem_q.ir.sys_kind # "ECALL"

\* With no interrupt pending only an ECALL traps.
LEMMA QuietCause == ASSUME NEW csr PROVE AsyncCause(csr, {}) = None
  BY DEF AsyncCause, EnabledIrqs

\* While a request is out nothing replaces the instruction that sent it.
LEMMA SentIsSafe ==
  ASSUME PreciseIrqs, RequestInv, req_sent_q, NEW mip \in Mip
  PROVE  ~Traps(mip) /\ ~TakeTrap(mip) /\ ~TakeHalt(mip)
<1>1. MemAlive /\ ~PreHalt /\ mem_q.ir.sys_kind # "ECALL"
  BY DEF RequestInv, IsMemory
<1>2. mip = {}
  BY <1>1 DEF Mip, Restartable
<1>3. ~Traps(mip)
  BY <1>1, <1>2, QuietCause DEF Traps, PendingCause
<1>4. QED BY <1>1, <1>3 DEF TakeTrap, TakeHalt, DoubleTrap

\* An edge at which MEM hands its instruction on leaves no answer behind.
LEMMA LeavesNoAnswer ==
  ASSUME PreciseIrqs, CoreInv, RequestInv, NEW resp \in DmemResp, NEW mip \in Mip,
         ~MemStall(resp, mip)
  PROVE  Undelivered(resp) = <<>>
<1>1. CASE req_sent_q
  <2>1. IsMemory /\ ~MemMisaligned /\ ~TakeTrap(mip) /\ ~TakeHalt(mip)
    BY <1>1, SentIsSafe DEF RequestInv
  <2>2. resp # None /\ dresp # <<>>
    BY <1>1, <2>1 DEF MemStall, Answered, RequestInv, OneRequest
  <2>3. dresp \in Seq(Response) /\ Len(dresp) <= 1
    BY DEF RequestInv, CoreInv, TypeOK
  <2>4. Tail(dresp) = <<>>
    <3>1. Tail(dresp) \in Seq(Response) /\ Len(Tail(dresp)) = Len(dresp) - 1
      BY <2>2, <2>3, HeadTailProperties
    <3>2. Len(Tail(dresp)) = 0
      BY <2>3, <3>1
    <3>3. QED BY <3>1, <3>2, EmptySeq
  <2>5. QED BY <2>2, <2>4 DEF Undelivered
<1>2. CASE ~req_sent_q
  BY <1>2 DEF RequestInv, OneRequest, Undelivered, DmemResp
<1>3. QED BY <1>1, <1>2

LEMMA RequestStep ==
  ASSUME PreciseIrqs, CoreInv, RequestInv, [Next]_vars
  PROVE  RequestInv'
<1>1. CASE UNCHANGED vars
  BY <1>1
  DEF RequestInv, OneRequest, IsMemory, MemMisaligned, PreHalt, MemAlive, vars, backendVars,
      tokenVars
<1>2. CASE Clock
  <2>1. PICK iresp \in ImemResp, resp \in DmemResp, mip \in Mip :
          \/ ClockTrap(iresp, resp, mip)
          \/ ClockRedirect(iresp, resp, mip)
          \/ \E iready \in ImemReady :
               \/ ClockAdvance(iready, iresp, resp, mip)
               \/ \E dready \in DmemReady : ClockStall(iready, iresp, dready, resp, mip)
    BY <1>2 DEF Clock
  <2>2. ASSUME req_sent_q' = FALSE, ~MemStall(resp, mip), DmemIdle(resp) PROVE RequestInv'
    <3>1. dresp' = <<>>
      BY <2>2, LeavesNoAnswer DEF DmemIdle
    <3>2. QED BY <2>2, <3>1 DEF RequestInv, OneRequest
  <2>3. CASE ClockTrap(iresp, resp, mip)
    <3>1. ~MemStall(resp, mip)
      BY <2>3 DEF ClockTrap, BackendTrap, MemStall
    <3>2. QED BY <2>2, <2>3, <3>1 DEF ClockTrap, BackendTrap, Shift
  <2>4. CASE ClockRedirect(iresp, resp, mip)
    BY <2>2, <2>4 DEF ClockRedirect, BackendRedirect, Shift
  <2>5. ASSUME NEW iready \in ImemReady, ClockAdvance(iready, iresp, resp, mip)
        PROVE RequestInv'
    BY <2>2, <2>5 DEF ClockAdvance, BackendAdvance, Shift
  <2>6. ASSUME NEW iready \in ImemReady, NEW dready \in DmemReady,
               ClockStall(iready, iresp, dready, resp, mip)
        PROVE RequestInv'
    <3>1. MemStall(resp, mip)
      BY <2>6 DEF ClockStall, BackendStall
    <3>2. IsMemory /\ ~MemMisaligned /\ ~TakeTrap(mip) /\ ~TakeHalt(mip)
          /\ ~Answered(resp) /\ MemAlive
      BY <3>1 DEF MemStall, IsMemory
    <3>3. ~PreHalt /\ mem_q.ir.sys_kind # "ECALL"
      <4>1. ~PreHalt /\ ~Traps(mip)
        BY <3>2 DEF TakeHalt, TakeTrap
      <4>2. PendingCause(mip) = None
        BY <3>2, <4>1 DEF Traps
      <4>3. CAUSE_ECALL # None
        BY ResponseAssumption, WordFacts DEF CAUSE_ECALL
      <4>4. QED BY <4>1, <4>2, <4>3 DEF PendingCause
    <3>4. mem_q' = mem_q
      BY <2>6 DEF ClockStall, BackendStall
    <3>5. (IsMemory /\ ~MemMisaligned /\ ~PreHalt /\ mem_q.ir.sys_kind # "ECALL")'
      BY <3>2, <3>3, <3>4 DEF IsMemory, MemMisaligned, PreHalt, MemAlive
    <3>6. Undelivered(resp) = dresp
      BY <3>2 DEF Answered, Undelivered, RequestInv, OneRequest, DmemResp
    <3>7. DmemReqValid(mip) <=> ~req_sent_q
      BY <3>2 DEF DmemReqValid
    <3>8. /\ dresp' = IF ~req_sent_q /\ dready THEN Append(dresp, Performed) ELSE dresp
          /\ req_sent_q' = (req_sent_q \/ (~req_sent_q /\ dready))
      BY <2>6, <3>6, <3>7 DEF ClockStall, BackendStall, DmemStep
    <3>9. /\ Len(dresp') <= 1 /\ (dresp' # <<>> <=> req_sent_q')
      <4>1. CASE ~req_sent_q /\ dready
        <5>1. dresp = <<>>
          BY <4>1 DEF RequestInv, OneRequest
        <5>2. dresp' = <<Performed>>
          BY <3>8, <4>1, <5>1
        <5>3. Len(<<Performed>>) = 1 /\ Len(<<>>) = 0
          OBVIOUS
        <5>4. dresp' # <<>> /\ Len(dresp') <= 1
          BY <5>2, <5>3
        <5>5. QED BY <3>8, <4>1, <5>4
      <4>2. CASE ~(~req_sent_q /\ dready)
        BY <3>8, <4>2 DEF RequestInv, OneRequest
      <4>3. QED BY <4>1, <4>2
    <3>10. QED BY <3>5, <3>9 DEF RequestInv, OneRequest
  <2>7. QED BY <2>1, <2>3, <2>4, <2>5, <2>6
<1>3. QED BY <1>1, <1>2 DEF Next, Finished

-----------------------------------------------------------------------------
(* The theorems.                                                            *)

\* Every register of the core keeps its type, for any program, word size and
\* timing of the memories: no token carries a value, a tag or a cause outside
\* its field, the queue never outgrows its slots and the data memory never owes
\* more answers than it has slots (Top.sv and below).
THEOREM CoreTypes == Spec => []TypeOK
<1>1. CoreInv => TypeOK
  BY DEF CoreInv
<1>. QED  BY CoreInitial, CoreInductive, <1>1, PTL DEF Spec

\* The copies of an instruction in the scoreboard and in the pipeline are moved
\* and killed separately and never come apart (scoreboard.sv, backend.sv).
THEOREM RowsTrack == Spec => []RowsTrackTokens
<1>1. CoreInv => RowsTrackTokens
  BY DEF CoreInv
<1>. QED  BY CoreInitial, CoreInductive, <1>1, PTL DEF Spec

\* If an interrupt is taken only where the instruction in MEM can be restarted,
\* MEM waits exactly for the one answer the data memory owes it, whatever the
\* memory's timing: no answer is left over for the next access (mem_stage.sv).
\* Without the condition an interrupt abandons the request: run store_safety.
THEOREM RequestIsAnswered == PreciseIrqs /\ Spec => []OneRequest
<1>1. CASE PreciseIrqs
  <2> DEFINE Inv == CoreInv /\ RequestInv
  <2>1. Init => Inv
    <3>1. Init => RequestInv
      BY DEF Init, BackendInit, RequestInv, OneRequest
    <3>2. QED BY <3>1, CoreInitial
  <2>2. Inv /\ [Next]_vars => Inv'
    BY <1>1, CoreInductive, RequestStep
  <2>3. Inv => OneRequest
    BY DEF RequestInv
  <2> HIDE DEF Inv
  <2>. QED  BY <2>1, <2>2, <2>3, PTL DEF Spec
<1>2. CASE ~PreciseIrqs
  BY <1>2
<1>. QED  BY <1>1, <1>2

-----------------------------------------------------------------------------
(* The backend as the environment of the frontend.                          *)

\* What FetchUnit says of the frontend's registers is what Frontend says.
LEMMA UnitIsFrontend ==
  ASSUME NEW a, NEW b, NEW c
  PROVE  /\ FrontendRun(a, b, c) => Unit!FrontendRun(a, b, c)
         /\ FrontendRedirect(a, b) => Unit!FrontendRedirect(a, b)
         /\ IrValid => Unit!IrValid
<1>1. /\ Unit!QueueStale <=> QueueStale
      /\ Unit!IrValid <=> IrValid
      /\ Unit!ImemReqValid <=> ImemReqValid
      /\ Unit!QueueReady <=> QueueReady
      /\ Unit!ResponseStale <=> ResponseStale
      /\ Unit!Discards(b) <=> Discards(b)
  BY DEF Unit!QueueStale, QueueStale, Unit!IrValid, IrValid, Unit!ImemReqValid, ImemReqValid,
         Unit!QueueReady, QueueReady, Unit!ResponseStale, ResponseStale, Unit!Discards, Discards
<1>2. /\ Unit!NextPc(pc_q) = NextPc(pc_q)
      /\ Unit!IncSeq(next_seq_id_q) = IncSeq(next_seq_id_q)
      /\ Unit!IncEpoch(current_epoch_q) = IncEpoch(current_epoch_q)
      /\ Unit!Fetched(req_q) = Fetched(req_q)
  BY DEF Unit!NextPc, NextPc, Unit!Add, Add, Unit!IncSeq, IncSeq, Unit!IncEpoch, IncEpoch,
         Unit!Fetched, Fetched, Unit!Decoded, Decoded, Unit!Word, Word
<1>3. FrontendRun(a, b, c) => Unit!FrontendRun(a, b, c)
  BY <1>1, <1>2, Zenon DEF FrontendRun, Unit!FrontendRun
<1>4. FrontendRedirect(a, b) => Unit!FrontendRedirect(a, b)
  BY <1>1, <1>2, Zenon DEF FrontendRedirect, Unit!FrontendRedirect
<1>5. QED BY <1>1, <1>3, <1>4

\* A token alive in MEM after an edge was alive in EXE and out of the kill's reach.
LEMMA ComesFromExe ==
  ASSUME CoreInv, NEW mip \in SUBSET IrqLine, NEW kill, NEW resp,
         Shift(kill, resp, mip), Alive(mem_q')
  PROVE  /\ Alive(exe_q) /\ ~KilledBy(exe_q, kill)
         /\ mem_q'.epoch = exe_q.epoch /\ mem_q'.seq_id = exe_q.seq_id
         /\ mem_q'.ir.fu_type = exe_q.ir.fu_type
<1>1. ExeOut(mip) \in Token \cup {None} /\ SameTags(ExeOut(mip), exe_q)
  BY ExeOutType DEF CoreInv, TypeOK
<1>2. mem_q' = KillIfYounger(ExeOut(mip), kill)
  BY DEF Shift
<1>3. ExeOut(mip) \in Token /\ exe_q # None
  BY <1>1, <1>2 DEF Alive, KillIfYounger, SameTags
<1>4. mem_q' = [ExeOut(mip) EXCEPT !.killed = ExeOut(mip).killed \/ KilledBy(ExeOut(mip), kill)]
  BY <1>2, <1>3, NoneIsNone DEF KillIfYounger
<1>5. ~ExeOut(mip).killed /\ ~KilledBy(ExeOut(mip), kill)
  BY <1>3, <1>4 DEF Alive, Token
<1>6. /\ mem_q'.epoch = ExeOut(mip).epoch /\ mem_q'.seq_id = ExeOut(mip).seq_id
      /\ mem_q'.ir = ExeOut(mip).ir
  BY <1>3, <1>4 DEF Token
<1>7. ~KilledBy(exe_q, kill)
  BY <1>1, <1>3, <1>5 DEF SameTags, KilledBy
<1>8. QED BY <1>1, <1>3, <1>5, <1>6, <1>7 DEF SameTags, Alive

\* How each kind of edge changes the number of redirects that can still come.
LEMMA StallCredit ==
  ASSUME NEW iresp, NEW resp, NEW mip, NEW iready, NEW dready,
         ClockStall(iready, iresp, dready, resp, mip)
  PROVE  Credit' \in 0 .. Credit
BY DEF ClockStall, BackendStall, Credit, Alive

LEMMA TrapCredit ==
  ASSUME CoreInv, NEW iresp, NEW resp, NEW mip \in SUBSET IrqLine, ClockTrap(iresp, resp, mip)
  PROVE  Credit > 0 /\ Credit' \in 0 .. Credit - 1
<1>1. exe_q' = None /\ Alive(mem_q) /\ Shift(Kill(mem_q), resp, mip)
  BY DEF ClockTrap, BackendTrap, TakeTrap, Traps, MemAlive
<1>2. Alive(mem_q') => Alive(exe_q)
  BY <1>1, ComesFromExe
<1>3. ~Alive(exe_q')
  BY <1>1 DEF Alive
<1>4. (Credit = IF Alive(exe_q) THEN 2 ELSE 1)
      /\ (Credit' = IF Alive(mem_q') THEN 1 ELSE 0)
  BY <1>1, <1>3 DEF Credit
<1>5. QED BY <1>2, <1>4

LEMMA RedirectCredit ==
  ASSUME NEW iresp, NEW resp, NEW mip, ClockRedirect(iresp, resp, mip)
  PROVE  Credit > 0 /\ Credit' \in 0 .. Credit - 1
<1>1. exe_q' = None /\ Alive(exe_q)
  BY DEF ClockRedirect, BackendRedirect, ExeRedirects
<1>2. ~Alive(exe_q')
  BY <1>1 DEF Alive
<1>3. Credit = 2 /\ Credit' \in {0, 1}
  BY <1>1, <1>2 DEF Credit
<1>4. QED BY <1>3

LEMMA BubbleCredit ==
  ASSUME CoreInv, NEW resp, NEW mip \in SUBSET IrqLine,
         exe_q' = None, Shift(None, resp, mip)
  PROVE  Credit' \in 0 .. Credit
<1>1. Alive(mem_q') => Alive(exe_q)
  BY ComesFromExe
<1>2. ~Alive(exe_q')
  BY DEF Alive
<1>3. (Alive(exe_q) => Credit = 2) /\ Credit \in {0, 1, 2}
      /\ (Credit' = IF Alive(mem_q') THEN 1 ELSE 0)
  BY <1>2 DEF Credit
<1>4. QED BY <1>1, <1>3

\* The token in EXE is the one issued last, and nothing kills it there.
IssuedInv == exe_q # None => /\ ~exe_q.killed
                            /\ issued = [pc |-> exe_q.pc, inst |-> exe_q.ir]

\* Each kind of edge is a step that FetchUnit allows its environment.
LEMMA StallWaits ==
  ASSUME IssuedInv, RecordIssue,
         NEW iresp, NEW resp, NEW mip, NEW iready, NEW dready,
         ClockStall(iready, iresp, dready, resp, mip)
  PROVE  Unit!Wait(iready, iresp) /\ IssuedInv'
<1>1. exe_q' = exe_q /\ mem_q' = mem_q /\ FrontendRun(iready, iresp, FALSE)
  BY DEF ClockStall, BackendStall
<1>2. issued' = issued
  BY <1>1 DEF RecordIssue
<1>3. Credit' \in 0 .. Credit
  BY StallCredit
<1>4. IssuedInv'
  BY <1>1, <1>2 DEF IssuedInv
<1>5. QED BY <1>1, <1>2, <1>3, <1>4, UnitIsFrontend DEF Unit!Wait

LEMMA TrapRedirects ==
  ASSUME CoreInv, RecordIssue, NEW iresp, NEW resp, NEW mip \in SUBSET IrqLine,
         ClockTrap(iresp, resp, mip)
  PROVE  Unit!Redirect(csr_q["mtvec"], iresp) /\ IssuedInv'
<1>1. /\ exe_q' = None /\ FrontendRedirect(csr_q["mtvec"], iresp) /\ Alive(mem_q)
  BY DEF ClockTrap, BackendTrap, TakeTrap, Traps, MemAlive
<1>2. issued' = issued
  BY <1>1 DEF RecordIssue
<1>3. Credit > 0 /\ Credit' \in 0 .. Credit - 1
  BY TrapCredit
<1>4. QED BY <1>1, <1>2, <1>3, UnitIsFrontend DEF Unit!Redirect, IssuedInv

LEMMA RedirectRedirects ==
  ASSUME RecordIssue, NEW iresp, NEW resp, NEW mip, ClockRedirect(iresp, resp, mip)
  PROVE  Unit!Redirect(ExeTarget, iresp) /\ IssuedInv'
<1>1. exe_q' = None /\ FrontendRedirect(ExeTarget, iresp) /\ Alive(exe_q)
  BY DEF ClockRedirect, BackendRedirect, ExeRedirects
<1>2. issued' = issued
  BY <1>1 DEF RecordIssue
<1>3. Credit > 0 /\ Credit' \in 0 .. Credit - 1
  BY RedirectCredit
<1>4. QED BY <1>1, <1>2, <1>3, UnitIsFrontend DEF Unit!Redirect, IssuedInv

LEMMA AdvanceIssues ==
  ASSUME CoreInv, IssuedInv, RecordIssue, NEW iresp, NEW resp, NEW mip \in SUBSET IrqLine,
         NEW iready, ClockAdvance(iready, iresp, resp, mip)
  PROVE  (Unit!Issue(iready, iresp) \/ Unit!Wait(iready, iresp)) /\ IssuedInv'
<1>1. CASE Issuable(Candidate)
  <2>1. IrValid /\ Candidate = Head(ir_queue) /\ Candidate # None
    BY <1>1 DEF Issuable, Candidate
  <2>2. FrontendRun(iready, iresp, TRUE)
    <3>1. Issuable(Candidate) = TRUE
      BY <1>1 DEF Issuable
    <3>2. QED BY <3>1 DEF ClockAdvance
  <2>3. exe_q' = IssueToken(Candidate)
    BY <1>1 DEF ClockAdvance, BackendAdvance
  <2>4. /\ exe_q' # None /\ ~exe_q'.killed
        /\ exe_q'.pc = Candidate.pc /\ exe_q'.ir = Candidate.inst
    <3>1. Candidate \in FetchPkt
      BY <2>1, HeadTailProperties DEF IrValid, CoreInv, TypeOK, FrontendTypeOK
    <3>2. IssueToken(Candidate) \in Token
      BY <3>1, IssueTypes DEF CoreInv, TypeOK
    <3>3. QED BY <2>3, <3>2, NoneIsNone DEF IssueToken
  <2>5. issued' = [pc |-> Candidate.pc, inst |-> Candidate.inst]
    BY <2>4 DEF RecordIssue, IssuedInv
  <2>6. Credit' = 2
    BY <2>4 DEF Credit, Alive
  <2>7. Unit!Issue(iready, iresp)
    BY <2>1, <2>2, <2>5, <2>6, UnitIsFrontend DEF Unit!Issue
  <2>8. QED BY <2>4, <2>5, <2>7 DEF IssuedInv
<1>2. CASE ~Issuable(Candidate)
  <2>1. FrontendRun(iready, iresp, FALSE)
    <3>1. Issuable(Candidate) = FALSE
      BY <1>2 DEF Issuable
    <3>2. QED BY <3>1 DEF ClockAdvance
  <2>2. exe_q' = None /\ Shift(None, resp, mip)
    BY <1>2 DEF ClockAdvance, BackendAdvance
  <2>3. issued' = issued
    BY <2>2 DEF RecordIssue
  <2>4. Credit' \in 0 .. Credit
    BY <2>2, BubbleCredit
  <2>5. QED BY <2>1, <2>2, <2>3, <2>4, UnitIsFrontend DEF Unit!Wait, IssuedInv
<1>3. QED BY <1>1, <1>2

LEMMA EnvironmentStep ==
  ASSUME CoreInv, IssuedInv, [FetchNext]_fetchVars
  PROVE  [Unit!Next]_(Unit!vars) /\ IssuedInv'
<1>1. CASE UNCHANGED vars /\ issued' = issued
  <2>1. UNCHANGED <<frontendVars, Credit, issued>>
    BY <1>1 DEF vars, backendVars, tokenVars, Credit, Alive
  <2>2. UNCHANGED Unit!vars
    BY <2>1 DEF Unit!vars, Unit!frontendVars, Unit!ifVars, frontendVars, ifVars
  <2>3. IssuedInv'
    BY <1>1 DEF IssuedInv, vars, backendVars, tokenVars
  <2>4. QED BY <2>2, <2>3
<1>2. CASE Clock /\ RecordIssue
  <2>1. PICK iresp \in ImemResp, resp \in DmemResp, mip \in Mip :
          \/ ClockTrap(iresp, resp, mip)
          \/ ClockRedirect(iresp, resp, mip)
          \/ \E iready \in ImemReady :
               \/ ClockAdvance(iready, iresp, resp, mip)
               \/ \E dready \in DmemReady : ClockStall(iready, iresp, dready, resp, mip)
    BY <1>2 DEF Clock
  <2>2. iresp \in Unit!Answers /\ mip \in SUBSET IrqLine /\ ImemReady \subseteq BOOLEAN
    BY InputTypes DEF Unit!Answers, ImemResp, ImemReady
  <2>3. Unit!Word = Word
    BY DEF Unit!Word, Word
  <2>4. CASE ClockTrap(iresp, resp, mip)
    <3>1. csr_q["mtvec"] \in Word
      BY BackendTypes DEF CoreInv, TypeOK, CsrFile, CsrReg
    <3>2. QED BY <1>2, <2>2, <2>3, <2>4, <3>1, TrapRedirects DEF Unit!Next
  <2>5. CASE ClockRedirect(iresp, resp, mip)
    <3>1. ExeTarget \in Word
      <4>1. exe_q \in Token /\ csr_q \in CsrFile
        BY <2>5, BackendTypes
        DEF CoreInv, TypeOK, ClockRedirect, BackendRedirect, ExeRedirects, Alive
      <4>2. /\ csr_q["mepc"] \in Word /\ exe_q.pc \in Word /\ exe_q.rs1_val \in Word
            /\ exe_q.ir.imm \in Word
        BY <4>1 DEF CsrFile, CsrReg, Token, Ir
      <4>3. QED BY <4>2, WordFacts DEF ExeTarget, BranchTarget
    <3>2. QED BY <1>2, <2>2, <2>3, <2>5, <3>1, RedirectRedirects DEF Unit!Next
  <2>6. ASSUME NEW iready \in ImemReady, ClockAdvance(iready, iresp, resp, mip)
        PROVE  [Unit!Next]_(Unit!vars) /\ IssuedInv'
    BY <1>2, <2>2, <2>6, AdvanceIssues DEF Unit!Next
  <2>7. ASSUME NEW iready \in ImemReady, NEW dready \in DmemReady,
               ClockStall(iready, iresp, dready, resp, mip)
        PROVE  [Unit!Next]_(Unit!vars) /\ IssuedInv'
    BY <1>2, <2>2, <2>7, StallWaits DEF Unit!Next
  <2>8. QED BY <2>1, <2>4, <2>5, <2>6, <2>7
<1>3. CASE Finished /\ RecordIssue
  BY <1>1, <1>3 DEF Finished, RecordIssue, vars, backendVars, tokenVars
<1>4. QED BY <1>1, <1>2, <1>3 DEF FetchNext, Next, fetchVars

\* Inside the core the frontend is FetchUnit: the backend takes only what it is
\* offered and redirects no more often than two epoch bits can tell apart, for
\* every program and every arrival of interrupts (frontend.sv, backend.sv).
THEOREM EnvironmentHolds == FetchSpec => BackendIsEnvironment
<1>1. FetchInit => Unit!Init /\ CoreInv /\ IssuedInv
  <2> SUFFICES ASSUME FetchInit PROVE Unit!Init /\ CoreInv /\ IssuedInv
    OBVIOUS
  <2>1. Unit!Decoded \in [Unit!Word -> Inst]
    BY CoreAssumption DEF FetchInit, Init, Unit!Decoded, Unit!Word, Word
  <2>2. Credit = 0
    BY DEF FetchInit, Init, BackendInit, Credit, Alive
  <2>3. Unit!FrontendInit
    BY DEF FetchInit, Init, FrontendInit, Unit!FrontendInit
  <2>4. IssuedInv
    BY DEF FetchInit, Init, BackendInit, IssuedInv
  <2>5. QED BY <2>1, <2>2, <2>3, <2>4, CoreInitial DEF FetchInit, Unit!Init
<1>2. [FetchNext]_fetchVars => [Next]_vars
  BY DEF FetchNext, fetchVars
<1>. QED  BY <1>1, <1>2, CoreInductive, EnvironmentStep, PTL
     DEF FetchSpec, BackendIsEnvironment, Unit!Spec

-----------------------------------------------------------------------------
(* The frontend's path inside the core, by the lemmas of FetchUnitProofs.    *)

Fetch == INSTANCE FetchUnitProofs WITH credit <- Credit, last <- None

\* The assumptions of FetchUnit are among those of Core.
LEMMA FetchAssumptions ==
  /\ None \notin Fetch!FetchReq /\ None \notin Fetch!FetchPkt
       /\ None \notin [pc : Fetch!Word, inst : Inst]
  /\ IR_QUEUE_DEPTH \in Nat \ {0}
  /\ RESET_PC \in Fetch!Word
  /\ EpochMod \in Nat /\ EpochMod >= 3
  /\ SeqMod \in Nat /\ SeqMod >= 4
  /\ WordMod \in Nat /\ WordMod >= 4
<1>1. Fetch!Word = Word /\ Fetch!FetchReq = FetchReq /\ Fetch!FetchPkt = FetchPkt
  BY DEF Fetch!Word, Word, Fetch!FetchReq, FetchReq, Fetch!FetchPkt, FetchPkt,
         Fetch!Epoch, Epoch, Fetch!SeqId, SeqId
<1>2. QED BY <1>1, NoneAssumption, FrontendAssumption, UarchAssumption

\* What FetchUnit says of the frontend's registers is what Frontend says.
LEMMA FetchIsFrontend ==
  ASSUME NEW a, NEW b, NEW c
  PROVE  /\ Fetch!FrontendRun(a, b, c) <=> FrontendRun(a, b, c)
         /\ Fetch!FrontendRedirect(a, b) <=> FrontendRedirect(a, b)
         /\ Fetch!IrValid <=> IrValid
         /\ Fetch!QueueStale <=> QueueStale
         /\ Fetch!QueueReady <=> QueueReady
         /\ Fetch!NextFetch = NextFetch
         /\ Fetch!BehindQueue = BehindQueue /\ Fetch!BehindQueue' = BehindQueue'
         /\ Fetch!FrontendTypeOK <=> FrontendTypeOK
<1>1. /\ Fetch!QueueStale <=> QueueStale
      /\ Fetch!IrValid <=> IrValid
      /\ Fetch!ImemReqValid <=> ImemReqValid
      /\ Fetch!QueueReady <=> QueueReady
      /\ Fetch!ResponseStale <=> ResponseStale
      /\ Fetch!Discards(b) <=> Discards(b)
  BY DEF Fetch!QueueStale, QueueStale, Fetch!IrValid, IrValid, Fetch!ImemReqValid, ImemReqValid,
         Fetch!QueueReady, QueueReady, Fetch!ResponseStale, ResponseStale, Fetch!Discards, Discards
<1>2. /\ Fetch!NextPc(pc_q) = NextPc(pc_q)
      /\ Fetch!IncSeq(next_seq_id_q) = IncSeq(next_seq_id_q)
      /\ Fetch!IncEpoch(current_epoch_q) = IncEpoch(current_epoch_q)
      /\ Fetch!Fetched(req_q) = Fetched(req_q)
  BY DEF Fetch!NextPc, NextPc, Fetch!Add, Add, Fetch!IncSeq, IncSeq, Fetch!IncEpoch, IncEpoch,
         Fetch!Fetched, Fetched, Fetch!Decoded, Decoded, Fetch!Word, Word
<1>3. Fetch!FrontendRun(a, b, c) <=> FrontendRun(a, b, c)
  BY <1>1, <1>2, Zenon DEF FrontendRun, Fetch!FrontendRun
<1>4. Fetch!FrontendRedirect(a, b) <=> FrontendRedirect(a, b)
  BY <1>1, <1>2, Zenon DEF FrontendRedirect, Fetch!FrontendRedirect
<1>5. /\ Fetch!NextFetch = NextFetch
      /\ Fetch!BehindQueue = BehindQueue /\ Fetch!BehindQueue' = BehindQueue'
  BY DEF Fetch!NextFetch, NextFetch, Fetch!BehindQueue, BehindQueue
<1>6. Fetch!FrontendTypeOK <=> FrontendTypeOK
  BY DEF Fetch!FrontendTypeOK, FrontendTypeOK, Fetch!Decoded, Decoded, Fetch!Word, Word, Fetch!FetchReq, FetchReq,
         Fetch!FetchPkt, FetchPkt, Fetch!Epoch, Epoch, Fetch!SeqId, SeqId
<1>7. QED BY <1>1, <1>3, <1>4, <1>5, <1>6

\* The invariant of FetchUnit with the credit of the tokens in flight.
PathHolds == Fetch!PathInv

LEMMA FetchTypes == ASSUME CoreInv, PathHolds PROVE Fetch!Inv
<1>1. Credit \in 0 .. 2
  BY DEF Credit
<1>2. QED BY <1>1, FetchIsFrontend DEF Fetch!Inv, Fetch!TypeOK, CoreInv, TypeOK, PathHolds

\* A cycle without a redirect, as FetchUnitProofs describes it.
LEMMA RunFacts ==
  ASSUME CoreInv, PathHolds, NEW iready \in BOOLEAN, NEW iresp \in BOOLEAN, NEW issue \in BOOLEAN,
         iresp => req_q # None, issue => IrValid,
         FrontendRun(iready, iresp, issue),
         NEW n, n = IF issue \/ QueueStale THEN Len(ir_queue) - 1 ELSE Len(ir_queue)
  PROVE  /\ BehindQueue' = IF out_q # None THEN NextFetch ELSE BehindQueue
         /\ ir_queue' \in Seq(FetchPkt) /\ n \in Nat
         /\ Len(ir_queue') = IF out_q # None THEN n + 1 ELSE n
         /\ \A i \in 1 .. n : ir_queue'[i] = ir_queue[IF issue \/ QueueStale THEN i + 1 ELSE i]
         /\ out_q # None => ir_queue'[n + 1] = out_q
         /\ current_epoch_q' = current_epoch_q /\ imem' = imem
<1>1. Fetch!Inv /\ Fetch!FrontendRun(iready, iresp, issue) /\ (issue => Fetch!IrValid)
  BY FetchTypes, FetchIsFrontend
<1>2. BehindQueue' = IF out_q # None THEN NextFetch ELSE BehindQueue
  BY <1>1, FetchAssumptions, FetchIsFrontend, Fetch!RunFetch
<1>3. n = IF issue \/ Fetch!QueueStale THEN Len(ir_queue) - 1 ELSE Len(ir_queue)
  BY FetchIsFrontend
<1>4. /\ ir_queue' \in Seq(Fetch!FetchPkt) /\ n \in Nat
      /\ Len(ir_queue') = IF out_q # None THEN n + 1 ELSE n
      /\ \A i \in 1 .. n :
           ir_queue'[i] = ir_queue[IF issue \/ Fetch!QueueStale THEN i + 1 ELSE i]
      /\ out_q # None => ir_queue'[n + 1] = out_q
  BY <1>1, <1>3, FetchAssumptions, Fetch!RunQueue
<1>5. Fetch!FetchPkt = FetchPkt
  BY DEF Fetch!FetchPkt, FetchPkt, Fetch!Word, Word, Fetch!Epoch, Epoch, Fetch!SeqId, SeqId
<1>6. QED BY <1>2, <1>4, <1>5, FetchIsFrontend DEF FrontendRun

\* The queue's contents, as FetchUnit's invariant has them.
LEMMA PathFacts ==
  ASSUME CoreInv, PathHolds
  PROVE  /\ Len(ir_queue) \in Nat
         /\ \A i \in 1 .. Len(ir_queue) :
              /\ ir_queue[i].inst = Decoded[ir_queue[i].pc] /\ ir_queue[i].pc \in Word
              /\ ir_queue[i].epoch = current_epoch_q =>
                   /\ \A j \in i .. Len(ir_queue) : ir_queue[j].epoch = current_epoch_q
                   /\ i < Len(ir_queue) =>
                        ir_queue[i + 1].seq_id = IncSeq(ir_queue[i].seq_id)
                   /\ i = Len(ir_queue) =>
                        BehindQueue.seq_id = IncSeq(ir_queue[i].seq_id)
         /\ out_q # None => out_q.epoch = current_epoch_q
         /\ drop_q => \A i \in 1 .. Len(ir_queue) : ir_queue[i].epoch # current_epoch_q
         /\ IrValid => ir_queue # <<>> /\ ir_queue[1].epoch = current_epoch_q
<1>1. ir_queue \in Seq(FetchPkt) /\ Len(ir_queue) \in Nat
  BY DEF CoreInv, TypeOK, FrontendTypeOK
<1>2. Fetch!QueueInv /\ Fetch!FetchInv
  BY DEF PathHolds, Fetch!PathInv
<1>3. \A x : Fetch!IncSeq(x) = IncSeq(x)
  BY DEF Fetch!IncSeq, IncSeq
<1>4. \A i \in 1 .. Len(ir_queue) : ir_queue[i].pc \in Word
  <2>1. \A i \in 1 .. Len(ir_queue) : ir_queue[i] \in FetchPkt
    BY <1>1
  <2>2. QED BY <2>1 DEF FetchPkt
<1>5. \A i \in 1 .. Len(ir_queue) :
        /\ ir_queue[i].inst = Decoded[ir_queue[i].pc]
        /\ ir_queue[i].epoch = current_epoch_q =>
             /\ \A j \in i .. Len(ir_queue) : ir_queue[j].epoch = current_epoch_q
             /\ i < Len(ir_queue) => ir_queue[i + 1].seq_id = IncSeq(ir_queue[i].seq_id)
             /\ i = Len(ir_queue) => BehindQueue.seq_id = IncSeq(ir_queue[i].seq_id)
  <2>1. Fetch!Decoded = Decoded
    BY DEF Fetch!Decoded, Decoded, Fetch!Word, Word
  <2>2. QED BY <1>2, <1>3, <2>1, FetchIsFrontend DEF Fetch!QueueInv, Fetch!Live, Fetch!Follows
<1>6. /\ out_q # None => out_q.epoch = current_epoch_q
      /\ drop_q => \A i \in 1 .. Len(ir_queue) : ir_queue[i].epoch # current_epoch_q
  BY <1>2 DEF Fetch!FetchInv, Fetch!Live
<1>7. IrValid => ir_queue # <<>> /\ ir_queue[1].epoch = current_epoch_q
  BY <1>1 DEF IrValid, QueueStale
<1>8. QED BY <1>1, <1>4, <1>5, <1>6, <1>7

\* The four edges keep the path.
LEMMA WaitPath ==
  ASSUME CoreInv, PathHolds, NEW iready \in BOOLEAN, NEW iresp \in BOOLEAN,
         iresp => req_q # None, FrontendRun(iready, iresp, FALSE), Credit' \in 0 .. Credit
  PROVE  PathHolds'
<1>1. iresp \in Fetch!Answers
  BY DEF Fetch!Answers
<1>2. Fetch!Inv /\ Fetch!Wait(iready, iresp)
  BY FetchTypes, FetchIsFrontend DEF Fetch!Wait
<1>3. Fetch!Inv'
  BY <1>1, <1>2, FetchAssumptions, Fetch!WaitInv
<1>4. QED BY <1>3 DEF Fetch!Inv, PathHolds

LEMMA IssuePath ==
  ASSUME CoreInv, PathHolds, NEW iready \in BOOLEAN, NEW iresp \in BOOLEAN,
         iresp => req_q # None, IrValid, FrontendRun(iready, iresp, TRUE)
  PROVE  PathHolds'
<1>1. Fetch!Inv /\ Fetch!FrontendRun(iready, iresp, TRUE) /\ Fetch!IrValid
  BY FetchTypes, FetchIsFrontend
<1>2. Len(ir_queue) \in Nat \ {0}
  BY PathFacts, EmptySeq DEF CoreInv, TypeOK, FrontendTypeOK
<1>3. \A i \in 1 .. Len(ir_queue) : ir_queue[i].epoch = current_epoch_q
  BY <1>2, PathFacts
<1>4. ~drop_q
  BY <1>2, <1>3, PathFacts
<1>5. /\ \A i \in 1 .. Len(ir_queue) :
           \/ Fetch!Live(i) \/ (Fetch!QueueStale /\ i = 1)
           \/ ir_queue[i].epoch \in Fetch!StaleEpochs'
      /\ drop_q => req_q.epoch \in Fetch!StaleEpochs'
  BY <1>3, <1>4 DEF Fetch!Live
<1>6. TRUE \in BOOLEAN
  OBVIOUS
<1>7. Fetch!PathInv'
  BY <1>1, <1>5, <1>6, FetchAssumptions, Fetch!RunInv
<1>8. QED BY <1>7 DEF PathHolds

LEMMA RedirectPath ==
  ASSUME CoreInv, PathHolds, NEW target \in Word, NEW iresp \in BOOLEAN,
         iresp => req_q # None, FrontendRedirect(target, iresp),
         Credit > 0, Credit' \in 0 .. Credit - 1
  PROVE  /\ PathHolds'
         /\ \A i \in 1 .. Len(ir_queue') : ir_queue'[i].epoch # current_epoch_q'
<1>1. target \in Fetch!Word
  BY DEF Fetch!Word, Word
<1>2. Fetch!Inv /\ Fetch!Redirect(target, iresp)
  BY FetchTypes, FetchIsFrontend DEF Fetch!Redirect
<1>3. Fetch!PathInv' /\ \A i \in 1 .. Len(ir_queue') : ~Fetch!Live(i)'
  BY <1>1, <1>2, FetchAssumptions, Fetch!RedirectInv
<1>4. QED BY <1>3 DEF PathHolds, Fetch!Live

-----------------------------------------------------------------------------
(* The next instruction of the path and the tokens in flight.               *)

\* The oldest instruction of the path that was not issued has sequence id s.
NextSeqIs(s) ==
  \/ \E i \in 1 .. Len(ir_queue) :
       /\ ir_queue[i].epoch = current_epoch_q /\ ir_queue[i].seq_id = s
       /\ \A j \in 1 .. i - 1 : ir_queue[j].epoch # current_epoch_q
  \/ /\ \A i \in 1 .. Len(ir_queue) : ir_queue[i].epoch # current_epoch_q
     /\ BehindQueue.seq_id = s

\* A cycle that neither issues nor redirects does not change it.
LEMMA WaitKeepsNext ==
  ASSUME CoreInv, PathHolds, NEW iready \in BOOLEAN, NEW iresp \in BOOLEAN,
         iresp => req_q # None, FrontendRun(iready, iresp, FALSE),
         NEW s, NextSeqIs(s)
  PROVE  NextSeqIs(s)'
<1> DEFINE n == IF FALSE \/ QueueStale THEN Len(ir_queue) - 1 ELSE Len(ir_queue)
           old(i) == IF QueueStale THEN i + 1 ELSE i
<1>1. /\ BehindQueue' = IF out_q # None THEN NextFetch ELSE BehindQueue
      /\ n \in Nat
      /\ Len(ir_queue') = IF out_q # None THEN n + 1 ELSE n
      /\ \A i \in 1 .. n : ir_queue'[i] = ir_queue[old(i)]
      /\ out_q # None => ir_queue'[n + 1] = out_q
      /\ current_epoch_q' = current_epoch_q
  <2>1. FALSE \in BOOLEAN /\ (FALSE => IrValid)
    OBVIOUS
  <2>2. QED BY <2>1, RunFacts
<1>2. Len(ir_queue) \in Nat /\ n = (IF QueueStale THEN Len(ir_queue) - 1 ELSE Len(ir_queue))
  BY PathFacts
<1>3. QueueStale => ir_queue # <<>> /\ ir_queue[1].epoch # current_epoch_q
  BY DEF QueueStale, CoreInv, TypeOK, FrontendTypeOK
<1> HIDE DEF n
<1>4. ASSUME NEW i \in 1 .. Len(ir_queue),
             ir_queue[i].epoch = current_epoch_q, ir_queue[i].seq_id = s,
             \A j \in 1 .. i - 1 : ir_queue[j].epoch # current_epoch_q
      PROVE  NextSeqIs(s)'
  <2>1. PICK k \in 1 .. n : old(k) = i
    <3>1. CASE QueueStale
      <4>1. i # 1 /\ i - 1 \in 1 .. n /\ old(i - 1) = i
        BY <1>2, <1>3, <1>4, <3>1
      <4>2. QED BY <4>1
    <3>2. CASE ~QueueStale
      BY <1>2, <3>2
    <3>3. QED BY <3>1, <3>2
  <2>2. k \in 1 .. Len(ir_queue') /\ ir_queue'[k] = ir_queue[i]
    BY <1>1, <2>1
  <2>3. ASSUME NEW j \in 1 .. k - 1 PROVE ir_queue'[j].epoch # current_epoch_q
    <3>1. j \in 1 .. n /\ old(j) \in 1 .. i - 1
      BY <1>1, <2>1
    <3>2. ir_queue'[j] = ir_queue[old(j)]
      BY <1>1, <3>1
    <3>3. QED BY <1>4, <3>1, <3>2
  <2>4. QED BY <1>1, <1>4, <2>2, <2>3 DEF NextSeqIs
<1>5. ASSUME \A i \in 1 .. Len(ir_queue) : ir_queue[i].epoch # current_epoch_q,
             BehindQueue.seq_id = s
      PROVE  NextSeqIs(s)'
  <2>1. ASSUME NEW i \in 1 .. n PROVE ir_queue'[i].epoch # current_epoch_q
    <3>1. old(i) \in 1 .. Len(ir_queue)
      BY <1>1, <1>2
    <3>2. QED BY <1>1, <1>5, <3>1
  <2>2. CASE out_q # None
    <3>1. out_q.epoch = current_epoch_q /\ BehindQueue.seq_id = out_q.seq_id
      BY <2>2, PathFacts DEF BehindQueue
    <3>2. /\ n + 1 \in 1 .. Len(ir_queue') /\ ir_queue'[n + 1] = out_q
          /\ \A j \in 1 .. (n + 1) - 1 : ir_queue'[j].epoch # current_epoch_q
      BY <1>1, <2>1, <2>2
    <3>3. QED BY <1>1, <1>5, <3>1, <3>2 DEF NextSeqIs
  <2>3. CASE out_q = None
    BY <1>1, <1>5, <2>1, <2>3 DEF NextSeqIs
  <2>4. QED BY <2>2, <2>3
<1>6. QED BY <1>4, <1>5 DEF NextSeqIs

\* An issue takes the oldest, and the next one carries the next id.
LEMMA IssueTakesNext ==
  ASSUME CoreInv, PathHolds, NEW iready \in BOOLEAN, NEW iresp \in BOOLEAN,
         iresp => req_q # None, IrValid, FrontendRun(iready, iresp, TRUE)
  PROVE  /\ Head(ir_queue) = ir_queue[1] /\ ir_queue[1].epoch = current_epoch_q
         /\ 1 \in 1 .. Len(ir_queue)
         /\ \A s : NextSeqIs(s) => s = ir_queue[1].seq_id
         /\ \A s : s = IncSeq(ir_queue[1].seq_id) => NextSeqIs(s)'
<1> DEFINE n == IF TRUE \/ QueueStale THEN Len(ir_queue) - 1 ELSE Len(ir_queue)
<1>1. /\ BehindQueue' = IF out_q # None THEN NextFetch ELSE BehindQueue
      /\ n \in Nat
      /\ Len(ir_queue') = IF out_q # None THEN n + 1 ELSE n
      /\ \A i \in 1 .. n : ir_queue'[i] = ir_queue[i + 1]
      /\ out_q # None => ir_queue'[n + 1] = out_q
      /\ current_epoch_q' = current_epoch_q
  <2>1. TRUE \in BOOLEAN /\ (TRUE => IrValid)
    OBVIOUS
  <2>2. QED BY <2>1, RunFacts
<1>2. /\ Len(ir_queue) \in Nat \ {0} /\ n = Len(ir_queue) - 1
      /\ Head(ir_queue) = ir_queue[1] /\ ir_queue[1].epoch = current_epoch_q
  BY PathFacts, EmptySeq DEF CoreInv, TypeOK, FrontendTypeOK
<1> HIDE DEF n
<1>3. 1 \in 1 .. Len(ir_queue)
      /\ \A i \in 1 .. Len(ir_queue) : ir_queue[i].epoch = current_epoch_q
  BY <1>2, PathFacts
<1>4. ASSUME NEW s, NextSeqIs(s) PROVE s = ir_queue[1].seq_id
  <2>1. PICK i \in 1 .. Len(ir_queue) :
          ir_queue[i].seq_id = s /\ \A j \in 1 .. i - 1 : ir_queue[j].epoch # current_epoch_q
    BY <1>3, <1>4 DEF NextSeqIs
  <2>2. i = 1
    BY <1>2, <1>3, <2>1
  <2>3. QED BY <2>1, <2>2
<1>5. ASSUME NEW s, s = IncSeq(ir_queue[1].seq_id) PROVE NextSeqIs(s)'
  <2>1. CASE n # 0
    <3>1. 1 < Len(ir_queue) /\ 1 \in 1 .. n /\ 2 \in 1 .. Len(ir_queue)
      <4>1. \A m \in Nat \ {0} : m - 1 # 0 => 1 < m /\ 1 \in 1 .. m - 1 /\ 2 \in 1 .. m
        OBVIOUS
      <4>2. QED BY <1>2, <2>1, <4>1
    <3>2. ir_queue'[1] = ir_queue[2] /\ 1 \in 1 .. Len(ir_queue')
      BY <1>1, <3>1
    <3>3. ir_queue[2].seq_id = s /\ ir_queue[2].epoch = current_epoch_q
      <4>1. ir_queue[1 + 1].seq_id = IncSeq(ir_queue[1].seq_id)
        BY <1>2, <1>3, <3>1, PathFacts
      <4>2. QED BY <1>3, <1>5, <3>1, <4>1
    <3>4. \A j \in 1 .. 1 - 1 : ir_queue'[j].epoch # current_epoch_q'
      OBVIOUS
    <3>5. QED BY <1>1, <3>2, <3>3, <3>4 DEF NextSeqIs
  <2>2. CASE n = 0
    <3>1. BehindQueue.seq_id = s
      BY <1>2, <1>3, <1>5, <2>2, PathFacts
    <3>2. CASE out_q # None
      <4>1. out_q.epoch = current_epoch_q /\ out_q.seq_id = s
        BY <3>1, <3>2, PathFacts DEF BehindQueue
      <4>2. ir_queue'[1] = out_q /\ 1 \in 1 .. Len(ir_queue')
        BY <1>1, <2>2, <3>2
      <4>3. \A j \in 1 .. 1 - 1 : ir_queue'[j].epoch # current_epoch_q'
        OBVIOUS
      <4>4. QED BY <1>1, <4>1, <4>2, <4>3 DEF NextSeqIs
    <3>3. CASE out_q = None
      BY <1>1, <2>2, <3>1, <3>3 DEF NextSeqIs
    <3>4. QED BY <3>2, <3>3
  <2>3. QED BY <2>1, <2>2
<1>6. QED BY <1>2, <1>3, <1>4, <1>5

-----------------------------------------------------------------------------
(* The order of the tokens in flight.                                       *)

\* What EXE and MEM hold is of the current path and in its order, right before
\* the next instruction of the path.  Only an instruction that has redirected
\* is of an older path, and it leaves MEM before anything new is offered.
LinkInv ==
  /\ imem \in Programs
  /\ Alive(exe_q) =>
       /\ exe_q.epoch = current_epoch_q /\ NextSeqIs(IncSeq(exe_q.seq_id))
       /\ exe_q.ir.sys_kind = "MRET" => ~IsMem(exe_q.ir)
  /\ Alive(mem_q) =>
       \/ /\ mem_q.epoch = current_epoch_q
          /\ IF Alive(exe_q) THEN exe_q.seq_id = IncSeq(mem_q.seq_id)
                             ELSE NextSeqIs(IncSeq(mem_q.seq_id))
       \/ /\ mem_q.epoch # current_epoch_q /\ ~Alive(exe_q) /\ ~IsMem(mem_q.ir)
          /\ \A i \in 1 .. Len(ir_queue) : ir_queue[i].epoch # current_epoch_q

PathAndLink == CoreInv /\ PathHolds /\ LinkInv

LEMMA SeqFacts == \A s \in SeqId : SeqAfter(IncSeq(s), s)
BY UarchAssumption DEF SeqId, IncSeq, SeqAfter

\* Two live tokens: the kill event of the one in MEM names the one in EXE.
LEMMA LinkReaches == PathAndLink => KillReaches
<1> SUFFICES ASSUME PathAndLink, Alive(mem_q), Alive(exe_q)
             PROVE  KilledBy(exe_q, Kill(mem_q))
  BY DEF KillReaches
<1>1. exe_q.epoch = mem_q.epoch /\ exe_q.seq_id = IncSeq(mem_q.seq_id)
  BY DEF PathAndLink, LinkInv
<1>2. mem_q \in Token /\ mem_q.seq_id \in SeqId
  BY BackendTypes DEF PathAndLink, CoreInv, TypeOK, Alive, Token
<1>3. SeqAfter(exe_q.seq_id, mem_q.seq_id)
  BY <1>1, <1>2, SeqFacts
<1>4. Kill(mem_q) # None
  <2>1. mem_q.epoch \in Epoch
    BY <1>2 DEF Token
  <2>2. QED BY <1>2, <2>1, ResponseAssumption DEF Kill
<1>5. QED BY <1>1, <1>3, <1>4 DEF KilledBy, Kill

LEMMA LinkStall ==
  ASSUME PathAndLink, NEW iresp \in ImemResp, NEW resp \in DmemResp, NEW mip \in Mip,
         NEW iready \in ImemReady, NEW dready \in DmemReady,
         ClockStall(iready, iresp, dready, resp, mip)
  PROVE  PathHolds' /\ LinkInv'
<1>1. /\ iready \in BOOLEAN /\ iresp \in BOOLEAN /\ (iresp => req_q # None)
      /\ FrontendRun(iready, iresp, FALSE)
      /\ exe_q' = exe_q /\ mem_q' = mem_q /\ IsMemory
  BY InputTypes DEF PathAndLink, ImemReady, ClockStall, BackendStall, MemStall
<1>2. PathHolds'
  BY <1>1, StallCredit, WaitPath DEF PathAndLink
<1>3. current_epoch_q' = current_epoch_q /\ imem' = imem
  BY <1>1 DEF FrontendRun
<1>4. \A s : NextSeqIs(s) => NextSeqIs(s)'
  BY <1>1, WaitKeepsNext DEF PathAndLink
<1>5. Alive(exe_q) => NextSeqIs(IncSeq(exe_q.seq_id))'
  BY <1>1, <1>4 DEF PathAndLink, LinkInv, NextSeqIs
<1>6. /\ Alive(mem_q) /\ mem_q.epoch = current_epoch_q
      /\ IF Alive(exe_q) THEN exe_q.seq_id = IncSeq(mem_q.seq_id)
                         ELSE NextSeqIs(IncSeq(mem_q.seq_id))
  BY <1>1 DEF PathAndLink, LinkInv, IsMemory, MemAlive
<1>7. ~Alive(exe_q) => NextSeqIs(IncSeq(mem_q.seq_id))'
  BY <1>1, <1>4, <1>6 DEF NextSeqIs
<1>8. Alive(exe_q)' = Alive(exe_q) /\ Alive(mem_q)' = Alive(mem_q)
  BY <1>1 DEF Alive
<1>9. QED BY <1>1, <1>2, <1>3, <1>5, <1>6, <1>7, <1>8 DEF PathAndLink, LinkInv

LEMMA LinkTrap ==
  ASSUME PathAndLink, NEW iresp \in ImemResp, NEW resp \in DmemResp, NEW mip \in Mip,
         ClockTrap(iresp, resp, mip)
  PROVE  PathHolds' /\ LinkInv'
<1>1. /\ iresp \in BOOLEAN /\ (iresp => req_q # None) /\ mip \in SUBSET IrqLine
      /\ FrontendRedirect(csr_q["mtvec"], iresp)
      /\ exe_q' = None /\ Alive(mem_q) /\ Shift(Kill(mem_q), resp, mip)
      /\ CoreInv /\ PathHolds
  BY InputTypes DEF PathAndLink, ClockTrap, BackendTrap, TakeTrap, Traps, MemAlive
<1>2. csr_q["mtvec"] \in Word
  BY <1>1, BackendTypes DEF CoreInv, TypeOK, CsrFile, CsrReg
<1>3. PathHolds'
  BY <1>1, <1>2, TrapCredit, RedirectPath
<1>4. ~Alive(mem_q')
  <2>1. SUFFICES ASSUME Alive(mem_q') PROVE FALSE
    OBVIOUS
  <2>2. Alive(exe_q) /\ ~KilledBy(exe_q, Kill(mem_q))
    BY <1>1, <2>1, ComesFromExe
  <2>3. QED BY <1>1, <2>2, LinkReaches DEF KillReaches
<1>5. imem' = imem /\ ~Alive(exe_q')
  BY <1>1 DEF FrontendRedirect, Alive
<1>6. QED BY <1>3, <1>4, <1>5 DEF PathAndLink, LinkInv

LEMMA LinkRedirect ==
  ASSUME PathAndLink, NEW iresp \in ImemResp, NEW resp \in DmemResp, NEW mip \in Mip,
         ClockRedirect(iresp, resp, mip)
  PROVE  PathHolds' /\ LinkInv'
<1>1. /\ iresp \in BOOLEAN /\ (iresp => req_q # None) /\ mip \in SUBSET IrqLine
      /\ FrontendRedirect(ExeTarget, iresp)
      /\ exe_q' = None /\ Alive(exe_q) /\ Shift(Kill(exe_q), resp, mip)
      /\ CoreInv /\ PathHolds
  BY InputTypes DEF PathAndLink, ClockRedirect, BackendRedirect, ExeRedirects
<1>2. ExeTarget \in Word
  <2>1. exe_q \in Token /\ csr_q \in CsrFile
    BY <1>1, BackendTypes DEF CoreInv, TypeOK, Alive
  <2>2. /\ csr_q["mepc"] \in Word /\ exe_q.pc \in Word /\ exe_q.rs1_val \in Word
        /\ exe_q.ir.imm \in Word
    BY <2>1 DEF CsrFile, CsrReg, Token, Ir
  <2>3. QED BY <2>2, WordFacts DEF ExeTarget, BranchTarget
<1>3. /\ PathHolds'
      /\ \A i \in 1 .. Len(ir_queue') : ir_queue'[i].epoch # current_epoch_q'
  BY <1>1, <1>2, RedirectCredit, RedirectPath
<1>4. imem' = imem /\ ~Alive(exe_q')
  BY <1>1 DEF FrontendRedirect, Alive
<1>5. ~IsMem(exe_q.ir) /\ exe_q.epoch = current_epoch_q
  BY <1>1 DEF PathAndLink, LinkInv, ClockRedirect, BackendRedirect, ExeRedirects,
              ExeTakesBranch, BranchTaken, IsMem, IsLoad, IsStore
<1>6. current_epoch_q' # current_epoch_q
  <2>1. current_epoch_q \in Epoch /\ current_epoch_q' = IncEpoch(current_epoch_q)
    BY <1>1 DEF CoreInv, TypeOK, FrontendTypeOK, FrontendRedirect
  <2>2. QED BY <2>1, UarchAssumption DEF Epoch, IncEpoch
<1>7. Alive(mem_q') => mem_q'.epoch # current_epoch_q' /\ ~IsMem(mem_q'.ir)
  BY <1>1, <1>5, <1>6, ComesFromExe DEF IsMem, IsLoad, IsStore
<1>8. QED BY <1>3, <1>4, <1>7 DEF PathAndLink, LinkInv

LEMMA LinkAdvance ==
  ASSUME PathAndLink, NEW iresp \in ImemResp, NEW resp \in DmemResp, NEW mip \in Mip,
         NEW iready \in ImemReady, ClockAdvance(iready, iresp, resp, mip)
  PROVE  PathHolds' /\ LinkInv'
<1>1. /\ iready \in BOOLEAN /\ iresp \in BOOLEAN /\ (iresp => req_q # None)
      /\ mip \in SUBSET IrqLine /\ CoreInv /\ PathHolds /\ Shift(None, resp, mip)
      /\ FrontendRun(iready, iresp, Issuable(Candidate))
  BY InputTypes DEF PathAndLink, ImemReady, ClockAdvance, BackendAdvance
<1>2. current_epoch_q' = current_epoch_q /\ imem' = imem
  BY <1>1 DEF FrontendRun
<1>3. Alive(mem_q') =>
        /\ mem_q'.epoch = current_epoch_q /\ mem_q'.seq_id = exe_q.seq_id
        /\ NextSeqIs(IncSeq(exe_q.seq_id))
  BY <1>1, ComesFromExe DEF PathAndLink, LinkInv
<1>4. CASE Issuable(Candidate)
  <2>1. IrValid /\ Candidate = Head(ir_queue) /\ Issuable(Candidate) = TRUE
        /\ exe_q' = IssueToken(Candidate)
    BY <1>4 DEF Issuable, Candidate, ClockAdvance, BackendAdvance
  <2>2. PathHolds'
    BY <1>1, <2>1, IssuePath
  <2>3. /\ Candidate = ir_queue[1] /\ ir_queue[1].epoch = current_epoch_q
        /\ 1 \in 1 .. Len(ir_queue)
        /\ \A s : NextSeqIs(s) => s = ir_queue[1].seq_id
        /\ \A s : s = IncSeq(ir_queue[1].seq_id) => NextSeqIs(s)'
    BY <1>1, <2>1, IssueTakesNext
  <2>4. /\ exe_q'.epoch = ir_queue[1].epoch /\ exe_q'.seq_id = ir_queue[1].seq_id
        /\ exe_q'.ir = ir_queue[1].inst
    BY <2>1, <2>3 DEF IssueToken
  <2>5. exe_q'.ir.sys_kind = "MRET" => ~IsMem(exe_q'.ir)
    <3>1. ir_queue[1].inst = Decoded[ir_queue[1].pc] /\ ir_queue[1].pc \in Word
      BY <1>1, <2>3, PathFacts
    <3>2. /\ imem[ir_queue[1].pc] \in Packet
          /\ Decoded[ir_queue[1].pc] = Decode(imem[ir_queue[1].pc])
      BY <3>1, CoreAssumption DEF PathAndLink, LinkInv, Decoded
    <3>3. QED BY <2>4, <3>1, <3>2, DecodeMret
  <2>6. NextSeqIs(IncSeq(exe_q.seq_id))'
    BY <2>3, <2>4 DEF NextSeqIs
  <2>7. Alive(mem_q') => exe_q'.seq_id = IncSeq(mem_q'.seq_id)
    BY <1>3, <2>3, <2>4
  <2>8. Alive(exe_q')
    <3>1. IssueToken(Candidate) \in Token
      <4>1. Candidate \in FetchPkt
        BY <1>1, <2>3 DEF CoreInv, TypeOK, FrontendTypeOK
      <4>2. QED BY <1>1, <4>1, IssueTypes DEF CoreInv, TypeOK
    <3>2. QED BY <2>1, <3>1, NoneIsNone DEF IssueToken, Alive
  <2>9. QED BY <1>2, <1>3, <2>2, <2>3, <2>4, <2>5, <2>6, <2>7, <2>8 DEF PathAndLink, LinkInv
<1>5. CASE ~Issuable(Candidate)
  <2>1. Issuable(Candidate) = FALSE /\ exe_q' = None
    BY <1>5 DEF Issuable, ClockAdvance, BackendAdvance
  <2>2. FrontendRun(iready, iresp, FALSE)
    BY <1>1, <2>1
  <2>3. PathHolds'
    BY <1>1, <2>1, <2>2, BubbleCredit, WaitPath
  <2>4. \A s : NextSeqIs(s) => NextSeqIs(s)'
    BY <1>1, <2>2, WaitKeepsNext
  <2>5. Alive(mem_q') => NextSeqIs(IncSeq(mem_q.seq_id))'
    BY <1>3, <2>4 DEF NextSeqIs
  <2>6. ~Alive(exe_q')
    BY <2>1 DEF Alive
  <2>7. QED BY <1>2, <1>3, <2>3, <2>5, <2>6 DEF PathAndLink, LinkInv
<1>6. QED BY <1>4, <1>5

LEMMA LinkInductive == PathAndLink /\ [Next]_vars => PathAndLink'
<1> SUFFICES ASSUME PathAndLink, [Next]_vars PROVE PathAndLink'
  OBVIOUS
<1>1. CoreInv'
  BY CoreInductive DEF PathAndLink
<1>2. CASE UNCHANGED vars
  <2>1. PathHolds'
    BY <1>2 DEF PathAndLink, PathHolds, vars, frontendVars, ifVars, backendVars, tokenVars,
         Fetch!PathInv, Fetch!QueueInv, Fetch!FetchInv, Fetch!Live, Fetch!StaleEpochs,
         Fetch!BehindQueue, Fetch!NextFetch, Fetch!QueueReady, Fetch!Decoded, Credit, Alive
  <2>2. LinkInv'
    BY <1>2 DEF PathAndLink, LinkInv, vars, frontendVars, ifVars, backendVars, tokenVars,
         NextSeqIs, BehindQueue, NextFetch, Alive
  <2>3. QED BY <1>1, <2>1, <2>2 DEF PathAndLink
<1>3. CASE Clock
  <2>1. PICK iresp \in ImemResp, resp \in DmemResp, mip \in Mip :
          \/ ClockTrap(iresp, resp, mip)
          \/ ClockRedirect(iresp, resp, mip)
          \/ \E iready \in ImemReady :
               \/ ClockAdvance(iready, iresp, resp, mip)
               \/ \E dready \in DmemReady : ClockStall(iready, iresp, dready, resp, mip)
    BY <1>3 DEF Clock
  <2>2. PathHolds' /\ LinkInv'
    BY <2>1, LinkStall, LinkTrap, LinkRedirect, LinkAdvance
  <2>3. QED BY <1>1, <2>2 DEF PathAndLink
<1>4. QED BY <1>2, <1>3 DEF Next, Finished

\* A trap of the instruction in MEM always reaches the live token in EXE, however
\* long the core runs and however often the sequence ids wrap: with any number
\* of ids from four and of epochs from three (uarch.svh, kill_token_if_younger).
THEOREM KillHolds == Spec => []KillReaches
<1>1. Init => PathAndLink
  <2> SUFFICES ASSUME Init PROVE PathAndLink
    OBVIOUS
  <2>1. PathHolds
    BY DEF Init, FrontendInit, PathHolds, Fetch!PathInv, Fetch!QueueInv, Fetch!FetchInv
  <2>2. LinkInv
    BY DEF Init, BackendInit, LinkInv, Alive
  <2>3. QED BY <2>1, <2>2, CoreInitial DEF PathAndLink
<1>. QED  BY <1>1, LinkInductive, LinkReaches, PTL DEF Spec
=============================================================================
