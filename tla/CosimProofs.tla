---------------------------- MODULE CosimProofs ------------------------------
(***************************************************************************)
(* What the CSR file and the data memory hold, compared with the commits:  *)
(* proofs about Cosim, for every program, word size, queue and timing.     *)
(***************************************************************************)
EXTENDS Cosim, CoreProofs

-----------------------------------------------------------------------------
(* The decoder.                                                             *)

\* What the stages tell apart in a decoded word, whether it is an instruction or
\* not: a CSR instruction is never illegal as a word, nor a return, a call or a
\* breakpoint; those are neither branches nor memory accesses and write nothing;
\* and a word that could not be fetched is nothing but illegal.
UnitsApart(d) ==
  /\ d.fu_type = "CSR" => ~d.illegal /\ d.sys_kind \notin PrivOp
  /\ d.sys_kind \in PrivOp => d.fu_type = "SYSTEM"
  /\ d.fu_type = "SYSTEM" => d.rd = 0 /\ (~d.illegal => d.sys_kind \in PrivOp)

LEMMA DecodeApart ==
  ASSUME NEW w \in Packet
  PROVE  /\ UnitsApart(Decode(w)) /\ Decode(w).if_bus_error = w.error
         /\ w.opcode = "other" => Decode(w).fu_type = "INT" /\ Decode(w).sys_kind = "NOT"
<1> USE DEF UnitsApart, PrivOp
<1>1. CASE w.opcode \in {"OP", "OP_IMM", "AUIPC", "LUI", "MISC_MEM", "other"}
  BY <1>1 DEF Decode, DecodeOp, DecodeOpImm, DecodeUpper, DecodeMiscMem, Defaults
<1>2. CASE w.opcode \in {"LOAD", "STORE"}
  BY <1>2 DEF Decode, DecodeLoad, DecodeStore, Defaults
<1>3. CASE w.opcode \in {"BRANCH", "JAL", "JALR"}
  BY <1>3 DEF Decode, DecodeBranch, DecodeJal, DecodeJalr, Defaults
<1>4. CASE w.opcode = "SYSTEM"
  <2>1. Decode(w) = DecodeSystem(w)
    BY <1>4 DEF Decode
  <2>2. CASE w.funct3 = 0
    <3>1. Decode(w) = DecodePriv(w)
      BY <2>1, <2>2 DEF DecodeSystem
    <3>2. CASE w.funct12 \in PrivOp
      BY <1>4, <3>1, <3>2 DEF DecodePriv, Defaults
    <3>3. CASE w.funct12 \notin PrivOp
      <4>1. Decode(w) = [Defaults(w) EXCEPT !.fu_type = "SYSTEM", !.sys_kind = "NOT",
                                            !.illegal = TRUE]
        BY <3>1, <3>3 DEF DecodePriv
      <4>. QED  BY <1>4, <4>1 DEF Defaults
    <3>. QED  BY <3>2, <3>3
  <2>3. CASE w.funct3 = 4
    <3>1. Decode(w) = [Defaults(w) EXCEPT !.fu_type = "SYSTEM", !.illegal = TRUE]
      BY <2>1, <2>3 DEF DecodeSystem
    <3>. QED  BY <1>4, <3>1 DEF Defaults
  <2>4. CASE w.funct3 \in {1, 2, 3, 5, 6, 7}
    <3>1. Decode(w) = DecodeCsr(w) /\ w.funct3 % 4 \in 1 .. 3
      BY <2>1, <2>4 DEF DecodeSystem
    <3>2. CsrKind[w.funct3 % 4] \in {"CSR_RW", "CSR_RS", "CSR_RC"}
      BY <3>1 DEF CsrKind
    <3>. QED  BY <1>4, <3>1, <3>2 DEF DecodeCsr, Defaults
  <2>. QED  BY <2>2, <2>3, <2>4 DEF Packet
<1>5. w.opcode \in Opcode
  BY DEF Packet
<1> HIDE DEF UnitsApart
<1>. QED  BY <1>1, <1>2, <1>3, <1>4, <1>5 DEF Opcode

-----------------------------------------------------------------------------
(* The token that leaves a stage.                                           *)

\* EXE may find the instruction illegal; the rest of it stays.
LEMMA OnlyIllegal ==
  ASSUME NEW ir \in Ir, NEW b \in BOOLEAN, NEW new, new = [ir EXCEPT !.illegal = b]
  PROVE  /\ new \in Ir /\ new.illegal = b
         /\ new.fu_type = ir.fu_type /\ new.sys_kind = ir.sys_kind
         /\ new.branch_op = ir.branch_op /\ new.alu_op1_sel = ir.alu_op1_sel
         /\ new.rs1 = ir.rs1 /\ new.rs2 = ir.rs2 /\ new.rd = ir.rd /\ new.imm = ir.imm
         /\ new.csr_addr = ir.csr_addr /\ new.csr_writes = ir.csr_writes
         /\ new.if_bus_error = ir.if_bus_error
BY DEF Ir

\* What a live instruction takes from EXE to MEM.
LEMMA ExeOutFields ==
  ASSUME BackendTypeOK, NEW mip \in SUBSET IrqLine, Alive(exe_q), NEW t, t = ExeOut(mip)
  PROVE  /\ t \in Token /\ t # None /\ t.pc = exe_q.pc /\ ~t.killed
         /\ t.epoch = exe_q.epoch /\ t.seq_id = exe_q.seq_id
         /\ t.ir = [exe_q.ir EXCEPT !.illegal = @ \/ CsrIllegal(exe_q.ir)]
         /\ t.rs1_val = exe_q.rs1_val /\ t.rs2_val = exe_q.rs2_val
         /\ t.rd_value = ExeRdValue(mip)
         /\ t.mem_addr = AluResult(exe_q.ir, exe_q.pc, exe_q.rs1_val, exe_q.rs2_val)
         /\ t.csr_new = ExeCsrNew(mip)
         /\ t.trap_cause = exe_q.trap_cause
         /\ t.halt_kind = IF /\ ExeTakesBranch
                             /\ Misaligned(BranchTarget(exe_q.ir, exe_q.pc, exe_q.rs1_val))
                          THEN "MISALIGN_PC" ELSE exe_q.halt_kind
<1>1. exe_q \in Token /\ exe_q # None /\ ~exe_q.killed /\ exe_q.ir \in Ir
  BY BackendTypes DEF Alive, Token
<1>2. t \in Token
  BY ExeOutType, <1>1 DEF SameTags, ExeOut
<1> DEFINE ir == [exe_q.ir EXCEPT !.illegal = exe_q.ir.illegal \/ CsrIllegal(exe_q.ir)]
           halt == IF /\ ExeTakesBranch
                      /\ Misaligned(BranchTarget(exe_q.ir, exe_q.pc, exe_q.rs1_val))
                   THEN "MISALIGN_PC" ELSE exe_q.halt_kind
           alu == AluResult(exe_q.ir, exe_q.pc, exe_q.rs1_val, exe_q.rs2_val)
<1>3. t = [exe_q EXCEPT !.rd_value = ExeRdValue(mip), !.mem_addr = alu,
                        !.csr_new = ExeCsrNew(mip), !.ir = ir, !.halt_kind = halt]
  BY <1>1 DEF ExeOut, Token, Alive
<1>4. ir = [exe_q.ir EXCEPT !.illegal = @ \/ CsrIllegal(exe_q.ir)]
  OBVIOUS
<1> HIDE DEF ir, halt, alu
<1>5. /\ t.pc = exe_q.pc /\ t.killed = exe_q.killed
      /\ t.epoch = exe_q.epoch /\ t.seq_id = exe_q.seq_id
      /\ t.ir = ir /\ t.rs1_val = exe_q.rs1_val /\ t.rs2_val = exe_q.rs2_val
      /\ t.rd_value = ExeRdValue(mip) /\ t.mem_addr = alu /\ t.csr_new = ExeCsrNew(mip)
      /\ t.trap_cause = exe_q.trap_cause /\ t.halt_kind = halt
  BY <1>1, <1>3 DEF Token
<1>. QED  BY <1>1, <1>2, <1>4, <1>5, NoneIsNone DEF halt, alu

\* And from MEM to WB.
LEMMA MemOutFields ==
  ASSUME BackendTypeOK, NEW mip \in SUBSET IrqLine, NEW resp \in Response \cup {None},
         Alive(mem_q), NEW t, t = MemOut(resp, mip)
  PROVE  /\ t \in Token /\ t # None /\ t.pc = mem_q.pc /\ ~t.killed /\ t.ir = mem_q.ir
         /\ t.epoch = mem_q.epoch /\ t.seq_id = mem_q.seq_id
         /\ t.rs1_val = mem_q.rs1_val /\ t.rs2_val = mem_q.rs2_val
         /\ t.mem_addr = mem_q.mem_addr /\ t.csr_new = mem_q.csr_new
         /\ t.rd_value = IF IsLoad(mem_q.ir) /\ resp # None THEN resp.rdata ELSE mem_q.rd_value
         /\ t.trap_cause = IF TakeTrap(mip) THEN PendingCause(mip) ELSE mem_q.trap_cause
         /\ t.halt_kind = IF BusError(resp)
                          THEN IF IsStore(mem_q.ir) THEN "BUS_ERROR_ST" ELSE "BUS_ERROR_LD"
                          ELSE IF TakeHalt(mip) THEN HaltKindOf(mip) ELSE mem_q.halt_kind
<1>1. mem_q \in Token /\ mem_q # None /\ ~mem_q.killed
  BY BackendTypes DEF Alive
<1>2. t \in Token
  BY MemOutType, <1>1 DEF SameTags, MemOut
<1> DEFINE value == IF IsLoad(mem_q.ir) /\ resp # None THEN resp.rdata ELSE mem_q.rd_value
           cause == IF TakeTrap(mip) THEN PendingCause(mip) ELSE mem_q.trap_cause
           halt  == IF BusError(resp)
                    THEN IF IsStore(mem_q.ir) THEN "BUS_ERROR_ST" ELSE "BUS_ERROR_LD"
                    ELSE IF TakeHalt(mip) THEN HaltKindOf(mip) ELSE mem_q.halt_kind
<1>3. t = [mem_q EXCEPT !.rd_value = value, !.trap_cause = cause, !.halt_kind = halt]
  BY <1>1 DEF MemOut, Token, MemAlive, Alive
<1> HIDE DEF value, cause, halt
<1>4. /\ t.pc = mem_q.pc /\ t.killed = mem_q.killed /\ t.ir = mem_q.ir
      /\ t.epoch = mem_q.epoch /\ t.seq_id = mem_q.seq_id
      /\ t.rs1_val = mem_q.rs1_val /\ t.rs2_val = mem_q.rs2_val
      /\ t.mem_addr = mem_q.mem_addr /\ t.csr_new = mem_q.csr_new
      /\ t.rd_value = value /\ t.trap_cause = cause /\ t.halt_kind = halt
  BY <1>1, <1>3 DEF Token
<1>. QED  BY <1>1, <1>2, <1>4, NoneIsNone DEF value, cause, halt

-----------------------------------------------------------------------------
(* The edges.  MEM either holds its instruction, and EXE with it, or hands  *)
(* it on; what the second kind of edge does to the tokens and the CSR file  *)
(* is the same whether there is a trap, a redirect or neither.              *)

Moves(iresp, resp, mip) ==
  \/ ClockTrap(iresp, resp, mip)
  \/ ClockRedirect(iresp, resp, mip)
  \/ \E iready \in ImemReady : ClockAdvance(iready, iresp, resp, mip)

Holds(iresp, resp, mip) ==
  \E iready \in ImemReady, dready \in DmemReady : ClockStall(iready, iresp, dready, resp, mip)

LEMMA EdgeCases ==
  ASSUME [CosimNext]_cosimVars
  PROVE  \/ UNCHANGED cosimVars
         \/ /\ done = None /\ Observe /\ RecordCommit
            /\ \E iresp \in ImemResp, resp \in DmemResp, mip \in Mip :
                 Moves(iresp, resp, mip) \/ Holds(iresp, resp, mip)
<1>1. CASE Clock /\ RecordCommit
  BY <1>1 DEF Clock, Moves, Holds
<1>2. CASE Finished /\ RecordCommit
  BY <1>2 DEF Finished, RecordCommit, cosimVars, historyVars
<1>. QED  BY <1>1, <1>2 DEF CosimNext, Next

\* A token out of a kill event's reach goes on as it is.
LEMMA Spared ==
  ASSUME NEW u \in Token \cup {None}, NEW kill, u # None => ~KilledBy(u, kill)
  PROVE  KillIfYounger(u, kill) = u
<1>1. CASE u = None
  BY <1>1 DEF KillIfYounger
<1>2. CASE u # None
  <2>1. u \in Token /\ (u.killed \/ KilledBy(u, kill)) = u.killed
    BY <1>2 DEF Token
  <2>. QED  BY <1>2, <2>1 DEF KillIfYounger, Token
<1>. QED  BY <1>1, <1>2

\* The order of the ids is strict.
LEMMA SeqOrder ==
  /\ \A s \in SeqId : ~SeqAfter(s, s) /\ ~SeqAfter(s, IncSeq(s))
BY UarchAssumption DEF SeqId, IncSeq, SeqAfter

\* A redirect of EXE and a trap of MEM spare the token in MEM, and the first
\* spares the one in EXE too.
LEMMA KillSpares ==
  ASSUME PathAndLink
  PROVE  /\ Alive(mem_q) => ~KilledBy(mem_q, Kill(mem_q))
         /\ Alive(exe_q) => ~KilledBy(exe_q, Kill(exe_q))
         /\ Alive(mem_q) /\ Alive(exe_q) => ~KilledBy(mem_q, Kill(exe_q))
<1>1. Alive(mem_q) => mem_q.seq_id \in SeqId
  BY BackendTypes DEF PathAndLink, CoreInv, TypeOK, Alive, Token
<1>2. Alive(exe_q) => exe_q.seq_id \in SeqId
  BY BackendTypes DEF PathAndLink, CoreInv, TypeOK, Alive, Token
<1>3. Alive(mem_q) /\ Alive(exe_q) => exe_q.seq_id = IncSeq(mem_q.seq_id)
  BY DEF PathAndLink, LinkInv
<1>. QED  BY <1>1, <1>2, <1>3, SeqOrder DEF KilledBy, Kill

LEMMA MoveFacts ==
  ASSUME PathAndLink, NEW iresp \in ImemResp, NEW resp \in DmemResp, NEW mip \in Mip,
         Moves(iresp, resp, mip)
  PROVE  /\ ~MemStall(resp, mip) /\ WriteBack /\ DmemIdle(resp) /\ req_sent_q' = FALSE
         /\ Alive(wb_q') <=> Alive(mem_q)
         /\ Alive(mem_q) => wb_q' = MemOut(resp, mip)
         /\ Alive(mem_q') <=> Alive(exe_q) /\ ~TakeTrap(mip)
         /\ Alive(mem_q') => mem_q' = ExeOut(mip)
         /\ csr_q' = IF TakeTrap(mip) THEN TrapEntry(csr_q, mem_q.pc, PendingCause(mip))
                     ELSE CsrAfterExe(mip)
<1>1. /\ resp \in Response \cup {None} /\ mip \in SUBSET IrqLine
      /\ BackendInv /\ BackendTypeOK /\ CoreInv
  BY InputTypes DEF PathAndLink, BackendInv
<1>2. /\ ExeOut(mip) \in Token \cup {None} /\ SameTags(ExeOut(mip), exe_q)
      /\ MemOut(resp, mip) \in Token \cup {None} /\ SameTags(MemOut(resp, mip), mem_q)
  BY <1>1, ExeOutType, MemOutType
<1>3. PICK kill :
        /\ Shift(kill, resp, mip) /\ WriteBack /\ DmemIdle(resp) /\ ~MemStall(resp, mip)
        /\ csr_q' = IF TakeTrap(mip) THEN TrapEntry(csr_q, mem_q.pc, PendingCause(mip))
                    ELSE CsrAfterExe(mip)
        /\ Alive(mem_q) => ~KilledBy(mem_q, kill)
        /\ TakeTrap(mip) => (Alive(exe_q) => KilledBy(exe_q, kill))
        /\ ~TakeTrap(mip) => (Alive(exe_q) => ~KilledBy(exe_q, kill))
  <2>1. CASE ClockTrap(iresp, resp, mip)
    <3>1. /\ Shift(Kill(mem_q), resp, mip) /\ WriteBack /\ DmemIdle(resp) /\ TakeTrap(mip)
          /\ csr_q' = TrapEntry(csr_q, mem_q.pc, PendingCause(mip)) /\ ~MemStall(resp, mip)
          /\ Alive(mem_q)
      BY <2>1 DEF ClockTrap, BackendTrap, MemStall, TakeTrap, Traps, MemAlive
    <3>2. Alive(exe_q) => KilledBy(exe_q, Kill(mem_q))
      BY <3>1, LinkReaches DEF KillReaches
    <3>. QED  BY <3>1, <3>2, KillSpares
  <2>2. CASE ClockRedirect(iresp, resp, mip)
    <3>1. /\ Shift(Kill(exe_q), resp, mip) /\ WriteBack /\ DmemIdle(resp) /\ ~TakeTrap(mip)
          /\ csr_q' = CsrAfterExe(mip) /\ ~MemStall(resp, mip) /\ Alive(exe_q)
      BY <2>2 DEF ClockRedirect, BackendRedirect, ExeRedirects
    <3>. QED  BY <3>1, KillSpares
  <2>3. ASSUME NEW iready \in ImemReady, ClockAdvance(iready, iresp, resp, mip)
        PROVE  /\ Shift(None, resp, mip) /\ WriteBack /\ DmemIdle(resp) /\ ~TakeTrap(mip)
               /\ csr_q' = CsrAfterExe(mip) /\ ~MemStall(resp, mip)
    BY <2>3 DEF ClockAdvance, BackendAdvance
  <2>4. \A t : ~KilledBy(t, None)
    BY DEF KilledBy
  <2>. QED  BY <2>1, <2>2, <2>3, <2>4 DEF Moves
<1>4. /\ wb_q' = KillIfYounger(MemOut(resp, mip), kill)
      /\ mem_q' = KillIfYounger(ExeOut(mip), kill) /\ req_sent_q' = FALSE
  BY <1>3 DEF Shift
<1>5. \A t : \A u \in Token \cup {None} :
        SameTags(u, t) => /\ u = None <=> t = None
                          /\ u # None => /\ u.killed = t.killed
                                         /\ KilledBy(u, kill) <=> KilledBy(t, kill)
  BY DEF SameTags, KilledBy
<1>6. \A u \in Token \cup {None} :
        Alive(KillIfYounger(u, kill)) => u # None /\ ~u.killed /\ ~KilledBy(u, kill)
  <2> SUFFICES ASSUME NEW u \in Token, Alive(KillIfYounger(u, kill))
               PROVE  u # None /\ ~u.killed /\ ~KilledBy(u, kill)
    BY NoneIsNone DEF KillIfYounger, Alive
  <2>1. u # None /\ KillIfYounger(u, kill) = [u EXCEPT !.killed = u.killed \/ KilledBy(u, kill)]
    BY NoneIsNone DEF KillIfYounger
  <2>2. KillIfYounger(u, kill).killed = (u.killed \/ KilledBy(u, kill))
    BY <2>1 DEF Token
  <2>. QED  BY <2>1, <2>2 DEF Alive
<1>7. Alive(mem_q) => wb_q' = MemOut(resp, mip) /\ Alive(wb_q')
  BY <1>2, <1>3, <1>4, <1>5, Spared DEF Alive
<1>8. Alive(wb_q') => Alive(mem_q)
  BY <1>2, <1>4, <1>5, <1>6 DEF Alive
<1>9. Alive(exe_q) /\ ~TakeTrap(mip) => mem_q' = ExeOut(mip) /\ Alive(mem_q')
  BY <1>2, <1>3, <1>4, <1>5, Spared DEF Alive
<1>10. Alive(mem_q') => Alive(exe_q) /\ ~TakeTrap(mip)
  BY <1>2, <1>3, <1>4, <1>5, <1>6 DEF Alive
<1>. QED  BY <1>3, <1>4, <1>7, <1>8, <1>9, <1>10

\* An edge that holds MEM and EXE lets WB drain, and nothing else changes in the
\* pipeline.
LEMMA HoldFacts ==
  ASSUME NEW iresp, NEW resp, NEW mip, Holds(iresp, resp, mip)
  PROVE  /\ IsMemory /\ ~MemMisaligned /\ ~PreHalt /\ ~Traps(mip) /\ ~Answered(resp)
         /\ WriteBack /\ wb_q' = None /\ ~Alive(wb_q')
         /\ exe_q' = exe_q /\ mem_q' = mem_q /\ csr_q' = csr_q
         /\ \E accept \in BOOLEAN :
              /\ accept => ~req_sent_q
              /\ DmemStep(accept, resp) /\ req_sent_q' = (req_sent_q \/ accept)
<1>1. PICK iready \in ImemReady, dready \in DmemReady :
        ClockStall(iready, iresp, dready, resp, mip)
  BY DEF Holds
<1>2. MemStall(resp, mip)
  BY <1>1 DEF ClockStall, BackendStall
<1>3. IsMemory /\ ~MemMisaligned /\ ~PreHalt /\ ~Traps(mip) /\ ~Answered(resp)
  BY <1>2 DEF MemStall, TakeTrap, TakeHalt, IsMemory
<1>4. ~Alive(None)
  BY DEF Alive
<1> DEFINE accept == DmemReqValid(mip) /\ dready
<1>5. accept \in BOOLEAN /\ (accept => ~req_sent_q)
  BY DEF DmemReqValid
<1>. QED  BY <1>1, <1>3, <1>4, <1>5 DEF ClockStall, BackendStall

-----------------------------------------------------------------------------
(* The instruction a token carries.                                         *)

\* A live token carries the instruction at its address; past EXE it is illegal
\* too if it accesses a CSR it may not.  What halts and traps is found in MEM.
CodeAt(pc) == Decoded[pc]
PastExe(ir) == [ir EXCEPT !.illegal = @ \/ CsrIllegal(ir)]

TokenInv ==
  /\ exe_q # None => /\ ~exe_q.killed /\ exe_q.ir = CodeAt(exe_q.pc)
                     /\ exe_q.trap_cause = None /\ exe_q.halt_kind = "NONE"
  /\ mem_q # None => mem_q.trap_cause = None
  /\ Alive(mem_q) => mem_q.ir = PastExe(CodeAt(mem_q.pc))
  /\ Alive(wb_q) => wb_q.ir = PastExe(CodeAt(wb_q.pc))

LEMMA CodeFacts ==
  ASSUME PathAndLink, NEW pc \in Word
  PROVE  /\ imem[pc] \in Packet /\ CodeAt(pc) = Decode(imem[pc]) /\ CodeAt(pc) \in Ir
         /\ UnitsApart(CodeAt(pc))
         /\ (CodeAt(pc).illegal \/ CsrIllegal(CodeAt(pc))) \in BOOLEAN
<1>1. imem \in Programs
  BY DEF PathAndLink, LinkInv
<1>2. imem[pc] \in Packet /\ CodeAt(pc) = Decode(imem[pc]) /\ CodeAt(pc) \in Ir
  BY <1>1, CoreAssumption DEF CodeAt, Decoded
<1>. QED  BY <1>2, DecodeApart DEF Ir, CsrIllegal

\* What the later stages see of it.
LEMMA PastExeFacts ==
  ASSUME PathAndLink, NEW pc \in Word, NEW ir, ir = PastExe(CodeAt(pc))
  PROVE  /\ ir \in Ir /\ ir.illegal = (CodeAt(pc).illegal \/ CsrIllegal(CodeAt(pc)))
         /\ ir.fu_type = CodeAt(pc).fu_type /\ ir.sys_kind = CodeAt(pc).sys_kind
         /\ ir.branch_op = CodeAt(pc).branch_op /\ ir.alu_op1_sel = CodeAt(pc).alu_op1_sel
         /\ ir.rs1 = CodeAt(pc).rs1 /\ ir.rs2 = CodeAt(pc).rs2 /\ ir.rd = CodeAt(pc).rd
         /\ ir.imm = CodeAt(pc).imm /\ ir.csr_addr = CodeAt(pc).csr_addr
         /\ ir.csr_writes = CodeAt(pc).csr_writes
         /\ ir.if_bus_error = CodeAt(pc).if_bus_error
         /\ ir.fu_type = "CSR" => ir.sys_kind \notin PrivOp
         /\ ir.sys_kind \in PrivOp => ir.fu_type = "SYSTEM"
<1>1. /\ CodeAt(pc) \in Ir /\ (CodeAt(pc).illegal \/ CsrIllegal(CodeAt(pc))) \in BOOLEAN
      /\ UnitsApart(CodeAt(pc))
  BY CodeFacts
<1>2. ir = [CodeAt(pc) EXCEPT !.illegal = CodeAt(pc).illegal \/ CsrIllegal(CodeAt(pc))]
  BY DEF PastExe
<1>3. /\ ir.fu_type = CodeAt(pc).fu_type /\ ir.sys_kind = CodeAt(pc).sys_kind
  BY <1>1, <1>2, OnlyIllegal
<1>4. /\ ir.fu_type = "CSR" => ir.sys_kind \notin PrivOp
      /\ ir.sys_kind \in PrivOp => ir.fu_type = "SYSTEM"
  BY <1>1, <1>3 DEF UnitsApart
<1> DEFINE code == CodeAt(pc)
           b == CodeAt(pc).illegal \/ CsrIllegal(CodeAt(pc))
<1>5. code \in Ir /\ b \in BOOLEAN /\ ir = [code EXCEPT !.illegal = b]
  BY <1>1, <1>2
<1> HIDE DEF code, b
<1>6. /\ ir \in Ir /\ ir.illegal = b
      /\ ir.fu_type = code.fu_type /\ ir.sys_kind = code.sys_kind
      /\ ir.branch_op = code.branch_op /\ ir.alu_op1_sel = code.alu_op1_sel
      /\ ir.rs1 = code.rs1 /\ ir.rs2 = code.rs2 /\ ir.rd = code.rd /\ ir.imm = code.imm
      /\ ir.csr_addr = code.csr_addr /\ ir.csr_writes = code.csr_writes
      /\ ir.if_bus_error = code.if_bus_error
  BY <1>5, OnlyIllegal
<1>. QED  BY <1>4, <1>6 DEF code, b

\* The instruction that issues, if one does, is the head of the queue.
LEMMA IssueFacts ==
  ASSUME PathAndLink, NEW iresp \in ImemResp, NEW resp \in DmemResp, NEW mip \in Mip,
         Moves(iresp, resp, mip), exe_q' # None
  PROVE  /\ ~TakeTrap(mip) /\ ~ExeRedirects /\ Issuable(Candidate)
         /\ IrValid /\ Candidate \in FetchPkt /\ Candidate = ir_queue[1]
         /\ Candidate.inst = CodeAt(Candidate.pc)
         /\ \E iready \in ImemReady : FrontendRun(iready, iresp, TRUE)
         /\ exe_row_q' = RowFromIr(Candidate) /\ exe_q' = IssueToken(Candidate)
         /\ exe_q' \in Token /\ Alive(exe_q') /\ exe_q'.pc = Candidate.pc
         /\ exe_q'.ir = Candidate.inst /\ ~exe_q'.killed
         /\ exe_q'.trap_cause = None /\ exe_q'.halt_kind = "NONE"
<1>1. PICK iready \in ImemReady : ClockAdvance(iready, iresp, resp, mip)
  BY DEF Moves, ClockTrap, BackendTrap, ClockRedirect, BackendRedirect
<1>2. Issuable(Candidate) /\ exe_q' = IssueToken(Candidate) /\ exe_row_q' = RowFromIr(Candidate)
      /\ ~TakeTrap(mip) /\ ~ExeRedirects
  BY <1>1 DEF ClockAdvance, BackendAdvance
<1>3. IrValid /\ Candidate = Head(ir_queue) /\ Issuable(Candidate) = TRUE
  BY <1>2 DEF Issuable, Candidate
<1>4. FrontendRun(iready, iresp, TRUE)
  BY <1>1, <1>3 DEF ClockAdvance
<1>5. Candidate = ir_queue[1] /\ Candidate \in FetchPkt /\ 1 \in 1 .. Len(ir_queue)
  <2>1. ir_queue \in Seq(FetchPkt) /\ ir_queue # <<>>
    BY <1>3 DEF PathAndLink, CoreInv, TypeOK, FrontendTypeOK, IrValid
  <2>. QED  BY <1>3, <2>1
<1>6. Candidate.inst = CodeAt(Candidate.pc)
  BY <1>5, PathFacts DEF PathAndLink, CodeAt
<1>7. IssueToken(Candidate) \in Token
  BY <1>5, IssueTypes DEF PathAndLink, CoreInv, TypeOK
<1>. QED  BY <1>2, <1>3, <1>4, <1>5, <1>6, <1>7, NoneIsNone DEF IssueToken, Alive

LEMMA TokenStep ==
  ASSUME PathAndLink, PathAndLink', TokenInv, [CosimNext]_cosimVars
  PROVE  TokenInv'
<1> USE DEF TokenInv
<1>1. CASE UNCHANGED cosimVars
  BY <1>1 DEF cosimVars, vars, backendVars, tokenVars, frontendVars, CodeAt, Decoded, PastExe,
              Alive
<1>2. ASSUME NEW iresp \in ImemResp, NEW resp \in DmemResp, NEW mip \in Mip,
             Moves(iresp, resp, mip)
      PROVE  TokenInv'
  <2>1. /\ resp \in Response \cup {None} /\ mip \in SUBSET IrqLine
        /\ BackendTypeOK /\ BackendTypeOK' /\ CoreInv /\ CoreInv'
    BY InputTypes DEF PathAndLink, CoreInv, TypeOK
  <2>2. \A a : CodeAt(a)' = CodeAt(a)
    BY <1>2 DEF CodeAt, Decoded, Moves, ClockTrap, ClockRedirect, ClockAdvance,
                FrontendRedirect, FrontendRun
  <2>3. exe_q' # None => /\ ~exe_q'.killed /\ exe_q'.ir = CodeAt(exe_q'.pc)
                         /\ exe_q'.trap_cause = None /\ exe_q'.halt_kind = "NONE"
    BY <1>2, IssueFacts
  <2>4. mem_q' # None => mem_q'.trap_cause = None
    <3>1. PICK kill : mem_q' = KillIfYounger(ExeOut(mip), kill)
      BY <1>2 DEF Moves, ClockTrap, BackendTrap, ClockRedirect, BackendRedirect, ClockAdvance,
                  BackendAdvance, Shift
    <3>2. CASE exe_q = None
      BY <3>1, <3>2 DEF ExeOut, KillIfYounger
    <3>3. CASE exe_q # None
      <4>1. ExeOut(mip).trap_cause = None /\ ExeOut(mip) \in Token
        BY <2>1, <3>3, ExeOutFields DEF Alive
      <4>2. mem_q' = [ExeOut(mip) EXCEPT !.killed = @ \/ KilledBy(ExeOut(mip), kill)]
        BY <3>1, <4>1, NoneIsNone DEF KillIfYounger
      <4>. QED  BY <4>1, <4>2 DEF Token
    <3>. QED  BY <3>2, <3>3
  <2>5. Alive(mem_q') => mem_q'.ir = PastExe(CodeAt(mem_q'.pc))
    <3> SUFFICES ASSUME Alive(mem_q') PROVE mem_q'.ir = PastExe(CodeAt(mem_q'.pc))
      OBVIOUS
    <3>1. Alive(exe_q) /\ mem_q' = ExeOut(mip)
      BY <1>2, MoveFacts
    <3>. QED  BY <2>1, <3>1, ExeOutFields DEF PastExe, Alive
  <2>6. Alive(wb_q') => wb_q'.ir = PastExe(CodeAt(wb_q'.pc))
    <3> SUFFICES ASSUME Alive(wb_q') PROVE wb_q'.ir = PastExe(CodeAt(wb_q'.pc))
      OBVIOUS
    <3>1. Alive(mem_q) /\ wb_q' = MemOut(resp, mip)
      BY <1>2, MoveFacts
    <3>. QED  BY <2>1, <3>1, MemOutFields
  <2>. QED  BY <2>2, <2>3, <2>4, <2>5, <2>6 DEF Alive, PastExe
<1>3. ASSUME NEW iresp \in ImemResp, NEW resp \in DmemResp, NEW mip \in Mip,
             Holds(iresp, resp, mip)
      PROVE  TokenInv'
  <2>1. \A a : CodeAt(a)' = CodeAt(a)
    BY <1>3 DEF CodeAt, Decoded, Holds, ClockStall, FrontendRun
  <2>. QED  BY <1>3, <2>1, HoldFacts DEF Alive, PastExe
<1>. QED  BY <1>1, <1>2, <1>3, EdgeCases

-----------------------------------------------------------------------------
(* The CSR file.                                                            *)

\* The CSRs as the instruction in MEM finds them, had nothing run ahead.
BeforeMem == CsrEffect(acsr, wb_q)

\* The instruction that traps, or is on the way into a double trap, has had no
\* effect on the CSRs: an interrupt comes only where it can be restarted, and an
\* ECALL is neither a CSR instruction nor a return.
LEMMA TrapsBeforeEffect ==
  ASSUME PreciseIrqs, PathAndLink, TokenInv, NEW mip \in Mip, Traps(mip)
  PROVE  /\ mem_q.ir.sys_kind # "MRET" /\ mem_q.ir.fu_type # "CSR"
         /\ \A csr : CsrEffect(csr, mem_q) = csr
<1>1. Alive(mem_q) /\ mem_q \in Token /\ mem_q.pc \in Word /\ mem_q.trap_cause = None
  BY BackendTypes DEF Traps, MemAlive, Alive, TokenInv, PathAndLink, CoreInv, TypeOK, Token
<1>2. mem_q.ir.sys_kind # "MRET" /\ mem_q.ir.fu_type # "CSR"
  <2>1. CASE Restartable
    BY <1>1, <2>1 DEF Restartable, MemAlive
  <2>2. CASE ~Restartable
    <3>1. mem_q.ir.sys_kind = "ECALL"
      BY <2>2, QuietCause DEF Mip, Traps, PendingCause
    <3>2. mem_q.ir.fu_type = "SYSTEM"
      BY <1>1, <3>1, PastExeFacts DEF TokenInv, PrivOp
    <3>. QED  BY <3>1, <3>2
  <2>. QED  BY <2>1, <2>2
<1>3. \A csr : CsrEffect(csr, mem_q) = csr
  BY <1>1, <1>2 DEF CsrEffect
<1>. QED  BY <1>2, <1>3

\* What EXE does to the CSR file is the effect of the token it hands on.
LEMMA ExeEffect ==
  ASSUME PathAndLink, TokenInv, NEW mip \in SUBSET IrqLine, Alive(exe_q)
  PROVE  CsrEffect(csr_q, ExeOut(mip)) = CsrAfterExe(mip)
<1> DEFINE t == ExeOut(mip)
<1>1. exe_q \in Token /\ exe_q.pc \in Word /\ BackendTypeOK
  BY BackendTypes DEF Alive, PathAndLink, CoreInv, TypeOK, Token
<1>2. /\ Alive(t) /\ t.trap_cause = None /\ t.csr_new = ExeCsrNew(mip)
      /\ t.ir = PastExe(CodeAt(exe_q.pc)) /\ exe_q.ir = CodeAt(exe_q.pc)
  BY <1>1, ExeOutFields DEF TokenInv, Alive, PastExe
<1> HIDE DEF t
<1>3. /\ t.ir.illegal = (exe_q.ir.illegal \/ CsrIllegal(exe_q.ir))
      /\ t.ir.fu_type = exe_q.ir.fu_type /\ t.ir.sys_kind = exe_q.ir.sys_kind
      /\ t.ir.csr_addr = exe_q.ir.csr_addr /\ t.ir.csr_writes = exe_q.ir.csr_writes
      /\ exe_q.ir.fu_type = "CSR" => exe_q.ir.sys_kind # "MRET" /\ ~exe_q.ir.illegal
  <2> DEFINE ir == t.ir
  <2>1. ir = PastExe(CodeAt(exe_q.pc)) /\ exe_q.ir = CodeAt(exe_q.pc)
    BY <1>2
  <2> HIDE DEF ir
  <2>2. UnitsApart(exe_q.ir)
    BY <1>1, <2>1, CodeFacts
  <2>3. /\ ir.illegal = (CodeAt(exe_q.pc).illegal \/ CsrIllegal(CodeAt(exe_q.pc)))
        /\ ir.fu_type = CodeAt(exe_q.pc).fu_type /\ ir.sys_kind = CodeAt(exe_q.pc).sys_kind
        /\ ir.csr_addr = CodeAt(exe_q.pc).csr_addr /\ ir.csr_writes = CodeAt(exe_q.pc).csr_writes
    BY <1>1, <2>1, PastExeFacts
  <2>4. exe_q.ir.fu_type = "CSR" => exe_q.ir.sys_kind # "MRET" /\ ~exe_q.ir.illegal
    BY <2>2 DEF UnitsApart, PrivOp
  <2>. QED  BY <2>1, <2>3, <2>4 DEF ir
<1>4. ASSUME exe_q.ir.sys_kind = "MRET" PROVE CsrEffect(csr_q, t) = CsrAfterExe(mip)
  BY <1>2, <1>3, <1>4 DEF CsrEffect, CsrAfterExe, ExeCommitsMret
<1>5. ASSUME exe_q.ir.sys_kind # "MRET" PROVE CsrEffect(csr_q, t) = CsrAfterExe(mip)
  BY <1>2, <1>3, <1>5 DEF CsrEffect, CsrAfterExe, ExeCommitsMret, ExeCommitsCsr
<1>. QED  BY <1>4, <1>5 DEF t

\* Unless it traps, a token leaves MEM with the effect it had.
LEMMA MemEffect ==
  ASSUME PathAndLink, NEW mip \in SUBSET IrqLine, NEW resp \in Response \cup {None},
         Alive(mem_q), NEW csr
  PROVE  CsrEffect(csr, MemOut(resp, mip)) =
           IF TakeTrap(mip) THEN TrapEntry(csr, mem_q.pc, PendingCause(mip))
           ELSE CsrEffect(csr, mem_q)
<1> DEFINE t == MemOut(resp, mip)
<1>1. /\ Alive(t) /\ t.csr_new = mem_q.csr_new /\ t.ir = mem_q.ir /\ t.pc = mem_q.pc
      /\ t.trap_cause = IF TakeTrap(mip) THEN PendingCause(mip) ELSE mem_q.trap_cause
  BY MemOutFields DEF Alive, PathAndLink, CoreInv, TypeOK
<1> HIDE DEF t
<1>2. CASE TakeTrap(mip)
  <2>1. t.trap_cause # None
    BY <1>1, <1>2 DEF TakeTrap, Traps
  <2>. QED  BY <1>1, <1>2, <2>1 DEF CsrEffect, t
<1>3. CASE ~TakeTrap(mip)
  BY <1>1, <1>3 DEF CsrEffect, t
<1>. QED  BY <1>2, <1>3

\* A commit has its effect on the CSRs of the commit stream, and a cycle without
\* one has none.
LEMMA CommitEffect == ASSUME done = None, RecordCommit PROVE acsr' = BeforeMem
BY DEF RecordCommit, CommitValid, BeforeMem, CsrEffect

LEMMA CsrStep ==
  ASSUME PreciseIrqs, PathAndLink, TokenInv, CsrRunsAhead, [CosimNext]_cosimVars
  PROVE  CsrRunsAhead'
<1>1. CASE UNCHANGED cosimVars
  BY <1>1 DEF cosimVars, vars, historyVars, backendVars, tokenVars, CsrRunsAhead, CsrEffect, Alive
<1>2. ASSUME acsr' = BeforeMem,
             NEW iresp \in ImemResp, NEW resp \in DmemResp, NEW mip \in Mip,
             Moves(iresp, resp, mip)
      PROVE  CsrRunsAhead'
  <2>1. /\ resp \in Response \cup {None} /\ mip \in SUBSET IrqLine
    BY InputTypes DEF PathAndLink
  <2>2. csr_q = CsrEffect(acsr', mem_q)
    BY <1>2 DEF CsrRunsAhead, BeforeMem
  <2>3. \A csr : ~Alive(mem_q) => CsrEffect(csr, mem_q) = csr
    BY DEF CsrEffect
  <2>4. \A csr : ~Alive(mem_q') => CsrEffect(csr, mem_q') = csr
    BY DEF CsrEffect
  <2>5. \A csr : ~Alive(wb_q') => CsrEffect(csr, wb_q') = csr
    BY DEF CsrEffect
  <2>6. CASE TakeTrap(mip)
    <3>1. Alive(mem_q) /\ Traps(mip)
      BY <2>6 DEF TakeTrap, Traps, MemAlive
    <3>2. csr_q = acsr'
      BY <2>2, <3>1, TrapsBeforeEffect
    <3>3. CsrEffect(acsr', wb_q') = TrapEntry(csr_q, mem_q.pc, PendingCause(mip))
      BY <1>2, <2>1, <2>6, <3>1, <3>2, MoveFacts, MemEffect
    <3>. QED  BY <1>2, <2>4, <2>6, <3>3, MoveFacts DEF CsrRunsAhead
  <2>7. CASE ~TakeTrap(mip)
    <3>1. CsrEffect(acsr', wb_q') = csr_q
      BY <1>2, <2>1, <2>2, <2>3, <2>5, <2>7, MoveFacts, MemEffect
    <3>2. csr_q' = CsrAfterExe(mip)
      BY <1>2, <2>7, MoveFacts
    <3>3. CASE Alive(exe_q)
      BY <1>2, <2>1, <2>7, <3>1, <3>2, <3>3, MoveFacts, ExeEffect DEF CsrRunsAhead
    <3>4. CASE ~Alive(exe_q)
      <4>1. CsrAfterExe(mip) = csr_q
        BY <3>4 DEF CsrAfterExe, ExeCommitsMret, ExeCommitsCsr
      <4>2. ~Alive(mem_q')
        BY <1>2, <3>4, MoveFacts
      <4>. QED  BY <2>4, <3>1, <3>2, <4>1, <4>2 DEF CsrRunsAhead
    <3>. QED  BY <3>3, <3>4
  <2>. QED  BY <2>6, <2>7
<1>3. ASSUME acsr' = BeforeMem,
             NEW iresp \in ImemResp, NEW resp \in DmemResp, NEW mip \in Mip,
             Holds(iresp, resp, mip)
      PROVE  CsrRunsAhead'
  <2>1. ~Alive(wb_q') /\ mem_q' = mem_q /\ csr_q' = csr_q
    BY <1>3, HoldFacts
  <2>. QED  BY <1>3, <2>1 DEF CsrRunsAhead, BeforeMem, CsrEffect, Alive
<1>. QED  BY <1>1, <1>2, <1>3, EdgeCases, CommitEffect

\* What holds of the core on its own holds beside the history.
LEMMA LinkInitial == Init => PathAndLink
<1> SUFFICES ASSUME Init PROVE PathAndLink
  OBVIOUS
<1>1. PathHolds
  BY DEF Init, FrontendInit, PathHolds, Fetch!PathInv, Fetch!QueueInv, Fetch!FetchInv
<1>2. LinkInv
  BY DEF Init, BackendInit, LinkInv, Alive
<1>. QED  BY <1>1, <1>2, CoreInitial DEF PathAndLink

CsrInv == PathAndLink /\ TokenInv /\ CsrRunsAhead

LEMMA CsrInitial == CosimInit => CsrInv
BY LinkInitial DEF CosimInit, Init, BackendInit, CsrInv, TokenInv, CsrRunsAhead, CsrEffect, Alive

LEMMA CsrInductive ==
  ASSUME PreciseIrqs, CsrInv, [CosimNext]_cosimVars
  PROVE  CsrInv'
<1>1. [Next]_vars
  BY DEF CosimNext, cosimVars
<1>2. PathAndLink'
  BY <1>1, LinkInductive DEF CsrInv
<1>. QED  BY <1>2, TokenStep, CsrStep DEF CsrInv

\* If an interrupt is taken only where the instruction in MEM can be restarted,
\* the CSR file is ahead of the commits by exactly the instructions alive in MEM
\* and WB, through any sequence of traps, returns and CSR instructions: none that
\* was killed has touched it (exe_stage.sv, csr_file.sv).
THEOREM CsrKeepsPace == PreciseIrqs /\ CosimSpec => []CsrRunsAhead
<1>1. CASE PreciseIrqs
  <2>1. CsrInv /\ [CosimNext]_cosimVars => CsrInv'
    BY <1>1, CsrInductive
  <2>2. CsrInv => CsrRunsAhead
    BY DEF CsrInv
  <2>. QED  BY <2>1, <2>2, CsrInitial, PTL DEF CosimSpec
<1>2. CASE ~PreciseIrqs
  BY <1>2
<1>. QED  BY <1>1, <1>2

-----------------------------------------------------------------------------
(* The data memory.                                                         *)

\* The answer on its way to MEM is that of the access in MEM.
AnswerInv ==
  dresp # <<>> =>
    /\ Head(dresp).error <=> mem_q.mem_addr \notin DAddr
    /\ IsLoad(mem_q.ir) /\ mem_q.mem_addr \in DAddr => Head(dresp).rdata = dmem[mem_q.mem_addr]

DmemInv == RequestInv /\ amem \in [DAddr -> Word] /\ AnswerInv /\ DmemRunsAhead

\* A commit has its effect on the memory of the commit stream; one outside the
\* memory has none.
LEMMA CommitStores ==
  ASSUME PathAndLink, amem \in [DAddr -> Word], done = None, RecordCommit
  PROVE  amem' = StoreEffect(amem, wb_q) /\ amem' \in [DAddr -> Word]
<1>1. Alive(wb_q) => wb_q \in Token
  BY BackendTypes DEF PathAndLink, CoreInv, TypeOK, Alive
<1>2. CommitsStore => [amem EXCEPT ![wb_q.mem_addr] = wb_q.rs2_val] = StoreEffect(amem, wb_q)
  BY DEF CommitsStore, CommitValid, StoreEffect
<1>3. ~CommitsStore => StoreEffect(amem, wb_q) = amem
  BY DEF CommitsStore, CommitValid, StoreEffect
<1>4. amem' = StoreEffect(amem, wb_q)
  BY <1>2, <1>3 DEF RecordCommit
<1>5. StoreEffect(amem, wb_q) \in [DAddr -> Word]
  BY <1>1 DEF StoreEffect, Token
<1>. QED  BY <1>4, <1>5

\* The halts MEM finds have a name.
LEMMA HaltHasName == ASSUME NEW mip, TakeHalt(mip) PROVE HaltKindOf(mip) # "NONE"
BY DEF TakeHalt, HaltKindOf, DoubleTrap, Traps, PreHalt

\* A store leaves MEM alive and well exactly when its request was performed.
LEMMA StoreLeaves ==
  ASSUME PreciseIrqs, PathAndLink, TokenInv, RequestInv, AnswerInv, Alive(mem_q), NEW mem,
         NEW resp \in DmemResp, NEW mip \in Mip, ~MemStall(resp, mip)
  PROVE  StoreEffect(mem, MemOut(resp, mip)) =
           IF req_sent_q THEN StoreEffect(mem, mem_q) ELSE mem
<1> DEFINE t == MemOut(resp, mip)
<1>1. /\ resp \in Response \cup {None} /\ mip \in SUBSET IrqLine /\ BackendTypeOK
      /\ mem_q.trap_cause = None
  <2>1. TypeOK /\ mem_q # None
    BY DEF PathAndLink, CoreInv, Alive
  <2>2. mip \in SUBSET IrqLine
    BY CoreAssumption DEF Mip
  <2>. QED  BY <2>1, <2>2, AnswerTypes DEF TypeOK, TokenInv
<1>2. /\ Alive(t) /\ t.ir = mem_q.ir /\ t.mem_addr = mem_q.mem_addr /\ t.rs2_val = mem_q.rs2_val
      /\ t.trap_cause = IF TakeTrap(mip) THEN PendingCause(mip) ELSE mem_q.trap_cause
      /\ t.halt_kind = IF BusError(resp)
                       THEN IF IsStore(mem_q.ir) THEN "BUS_ERROR_ST" ELSE "BUS_ERROR_LD"
                       ELSE IF TakeHalt(mip) THEN HaltKindOf(mip) ELSE mem_q.halt_kind
  BY <1>1, MemOutFields DEF Alive
<1> HIDE DEF t
<1>3. CASE ~IsStore(mem_q.ir)
  BY <1>2, <1>3 DEF StoreEffect, t
<1>4. CASE IsStore(mem_q.ir) /\ req_sent_q
  <2>1. ~TakeTrap(mip) /\ ~TakeHalt(mip)
    BY <1>4, SentIsSafe
  <2>2. IsMemory /\ ~MemMisaligned /\ mem_q.halt_kind = "NONE"
    BY <1>4 DEF RequestInv, PreHalt
  <2>3. Answered(resp) /\ resp = Head(dresp) /\ dresp # <<>>
    BY <2>1, <2>2 DEF MemStall, Answered, DmemResp
  <2>4. BusError(resp) <=> mem_q.mem_addr \notin DAddr
    BY <2>2, <2>3 DEF AnswerInv, BusError
  <2>. QED  BY <1>1, <1>2, <1>4, <2>1, <2>2, <2>4 DEF StoreEffect, t
<1>5. CASE IsStore(mem_q.ir) /\ ~req_sent_q
  <2>1. ~Answered(resp) /\ ~BusError(resp)
    BY <1>5 DEF Answered, BusError
  <2>2. TakeTrap(mip) \/ TakeHalt(mip)
    BY <1>5, <2>1 DEF MemStall, IsMemory, MemAlive, IsMem, TakeHalt, PreHalt
  <2>3. TakeTrap(mip) => PendingCause(mip) # None
    BY DEF TakeTrap, Traps
  <2>4. t.trap_cause # None \/ t.halt_kind # "NONE"
    BY <1>2, <2>1, <2>2, <2>3, HaltHasName
  <2>. QED  BY <1>5, <2>4 DEF StoreEffect, t
<1>. QED  BY <1>3, <1>4, <1>5

LEMMA DmemMoves ==
  ASSUME PreciseIrqs, PathAndLink, TokenInv, DmemInv, amem' = StoreEffect(amem, wb_q),
         NEW iresp \in ImemResp, NEW resp \in DmemResp, NEW mip \in Mip,
         Moves(iresp, resp, mip)
  PROVE  AnswerInv' /\ DmemRunsAhead'
<1>1. /\ ~MemStall(resp, mip) /\ DmemIdle(resp) /\ req_sent_q' = FALSE
      /\ Alive(wb_q') <=> Alive(mem_q)
      /\ Alive(mem_q) => wb_q' = MemOut(resp, mip)
  BY MoveFacts
<1>2. dresp' = <<>> /\ dmem' = dmem
  BY <1>1, LeavesNoAnswer DEF DmemIdle, PathAndLink, DmemInv
<1>3. dmem = IF req_sent_q THEN StoreEffect(amem', mem_q) ELSE amem'
  BY DEF DmemInv, DmemRunsAhead
<1>4. CASE Alive(mem_q)
  <2>1. StoreEffect(amem', wb_q') = IF req_sent_q THEN StoreEffect(amem', mem_q) ELSE amem'
    BY <1>1, <1>4, StoreLeaves DEF DmemInv
  <2>. QED  BY <1>1, <1>2, <1>3, <2>1 DEF AnswerInv, DmemRunsAhead
<1>5. CASE ~Alive(mem_q)
  <2>1. ~req_sent_q
    BY <1>5 DEF DmemInv, RequestInv, IsMemory, MemAlive
  <2>2. StoreEffect(amem', wb_q') = amem'
    BY <1>1, <1>5 DEF StoreEffect
  <2>. QED  BY <1>1, <1>2, <1>3, <2>1, <2>2 DEF AnswerInv, DmemRunsAhead
<1>. QED  BY <1>4, <1>5

LEMMA DmemHolds ==
  ASSUME PathAndLink, TokenInv, DmemInv, amem' = StoreEffect(amem, wb_q),
         NEW iresp, NEW resp \in DmemResp, NEW mip, Holds(iresp, resp, mip)
  PROVE  AnswerInv' /\ DmemRunsAhead'
<1>1. PICK accept \in BOOLEAN :
        /\ accept => ~req_sent_q
        /\ DmemStep(accept, resp) /\ req_sent_q' = (req_sent_q \/ accept)
  BY HoldFacts
<1>2. IsMemory /\ ~PreHalt /\ ~Answered(resp) /\ ~Alive(wb_q') /\ mem_q' = mem_q
  BY HoldFacts
<1>3. Undelivered(resp) = dresp
  BY <1>2 DEF Answered, Undelivered, DmemInv, RequestInv, OneRequest, DmemResp
<1>4. dmem = IF req_sent_q THEN StoreEffect(amem', mem_q) ELSE amem'
  BY DEF DmemInv, DmemRunsAhead
<1>5. StoreEffect(amem', wb_q') = amem'
  BY <1>2 DEF StoreEffect
<1>6. CASE accept
  <2>1. ~req_sent_q /\ req_sent_q' /\ dresp = <<>>
    BY <1>1, <1>6 DEF DmemInv, RequestInv, OneRequest
  <2>2. /\ dresp' = <<Performed>>
        /\ dmem' = IF IsStore(mem_q.ir) /\ mem_q.mem_addr \in DAddr
                   THEN [dmem EXCEPT ![mem_q.mem_addr] = mem_q.rs2_val] ELSE dmem
    BY <1>1, <1>3, <1>6, <2>1 DEF DmemStep
  <2>3. Alive(mem_q) /\ mem_q.trap_cause = None /\ mem_q.halt_kind = "NONE"
    BY <1>2 DEF IsMemory, MemAlive, PreHalt, TokenInv, Alive
  <2>4. dmem' = StoreEffect(amem', mem_q)
    BY <1>4, <2>1, <2>2, <2>3 DEF StoreEffect
  <2>5. Head(dresp') = Performed
    BY <2>2
  <2>6. AnswerInv'
    BY <1>2, <2>2, <2>5 DEF AnswerInv, Performed, IsLoad, IsStore
  <2>7. dmem' = LET committed == StoreEffect(amem', wb_q')
                IN  IF req_sent_q' THEN StoreEffect(committed, mem_q') ELSE committed
    BY <1>2, <1>5, <2>1, <2>4 DEF StoreEffect
  <2>. QED  BY <2>6, <2>7 DEF DmemRunsAhead
<1>7. CASE ~accept
  <2>1. dresp' = dresp /\ dmem' = dmem /\ (req_sent_q' <=> req_sent_q)
    BY <1>1, <1>3, <1>7 DEF DmemStep
  <2>. QED  BY <1>2, <1>4, <1>5, <2>1 DEF AnswerInv, DmemInv, DmemRunsAhead, RequestInv, OneRequest
<1>. QED  BY <1>6, <1>7

LEMMA DmemInitial == CosimInit => DmemInv
<1> SUFFICES ASSUME CosimInit PROVE DmemInv
  OBVIOUS
<1>1. dmem = amem /\ amem \in [DAddr -> Word] /\ dresp = <<>> /\ ~req_sent_q /\ ~Alive(wb_q)
  BY CoreAssumption DEF CosimInit, Init, BackendInit, Alive
<1>2. Len(<<>>) = 0
  OBVIOUS
<1>. QED  BY <1>1, <1>2 DEF DmemInv, RequestInv, OneRequest, AnswerInv, DmemRunsAhead, StoreEffect

LEMMA DmemInductive ==
  ASSUME PreciseIrqs, PathAndLink, TokenInv, DmemInv, [CosimNext]_cosimVars
  PROVE  DmemInv'
<1>1. RequestInv'
  BY RequestStep DEF CosimNext, cosimVars, DmemInv, PathAndLink
<1>2. CASE UNCHANGED cosimVars
  BY <1>1, <1>2 DEF cosimVars, vars, historyVars, backendVars, tokenVars, DmemInv, AnswerInv,
                    DmemRunsAhead, StoreEffect, Alive
<1>3. CASE done = None /\ RecordCommit /\
           \E iresp \in ImemResp, resp \in DmemResp, mip \in Mip :
             Moves(iresp, resp, mip) \/ Holds(iresp, resp, mip)
  <2>1. amem' = StoreEffect(amem, wb_q) /\ amem' \in [DAddr -> Word]
    BY <1>3, CommitStores DEF DmemInv
  <2>. QED  BY <1>1, <1>3, <2>1, DmemMoves, DmemHolds DEF DmemInv
<1>. QED  BY <1>2, <1>3, EdgeCases

\* Under the same condition the data memory is ahead of the commits by exactly
\* the store in MEM whose request was accepted, and the stores of killed or
\* trapped instructions never reach it (mem_stage.sv, docs/traps-csr-stores.md).
THEOREM DmemKeepsPace == PreciseIrqs /\ CosimSpec => []DmemRunsAhead
<1>1. CASE PreciseIrqs
  <2> DEFINE Inv == CsrInv /\ DmemInv
  <2>1. CosimInit => Inv
    BY CsrInitial, DmemInitial
  <2>2. Inv /\ [CosimNext]_cosimVars => Inv'
    BY <1>1, CsrInductive, DmemInductive DEF CsrInv
  <2>3. Inv => DmemRunsAhead
    BY DEF DmemInv
  <2>. QED  BY <2>1, <2>2, <2>3, PTL DEF CosimSpec
<1>2. CASE ~PreciseIrqs
  BY <1>2
<1>. QED  BY <1>1, <1>2

-----------------------------------------------------------------------------
(* Interrupts.                                                              *)

TrapsInWb == Alive(wb_q) /\ wb_q.trap_cause # None

\* A trap kills what is behind it, so MEM has nothing to carry out beside it.
TrapAlone == TrapsInWb => ~Alive(mem_q)

LEMMA TrapAloneStep ==
  ASSUME CsrInv, TrapAlone, [CosimNext]_cosimVars
  PROVE  TrapAlone'
<1>1. CASE UNCHANGED cosimVars
  BY <1>1 DEF cosimVars, vars, backendVars, tokenVars, TrapAlone, TrapsInWb, Alive
<1>2. ASSUME NEW iresp \in ImemResp, NEW resp \in DmemResp, NEW mip \in Mip,
             Moves(iresp, resp, mip)
      PROVE  TrapAlone'
  <2>1. /\ resp \in Response \cup {None} /\ mip \in SUBSET IrqLine
        /\ PathAndLink /\ TokenInv /\ BackendTypeOK /\ CoreInv
    BY InputTypes DEF PathAndLink, CsrInv, CoreInv, TypeOK
  <2> SUFFICES ASSUME Alive(wb_q'), wb_q'.trap_cause # None PROVE ~Alive(mem_q')
    BY DEF TrapAlone, TrapsInWb, Alive
  <2>2. Alive(mem_q) /\ wb_q' = MemOut(resp, mip) /\ mem_q.trap_cause = None
    BY <1>2, <2>1, MoveFacts DEF TokenInv, Alive
  <2>3. wb_q'.trap_cause = IF TakeTrap(mip) THEN PendingCause(mip) ELSE None
    BY <2>1, <2>2, MemOutFields
  <2>. QED  BY <1>2, <2>1, <2>3, MoveFacts
<1>3. ASSUME NEW iresp, NEW resp, NEW mip, Holds(iresp, resp, mip) PROVE TrapAlone'
  BY <1>3, HoldFacts DEF TrapAlone, TrapsInWb, Alive
<1>. QED  BY <1>1, <1>2, <1>3, EdgeCases

\* What the documents promise of interrupts holds if one is taken only where the
\* instruction in MEM can be restarted, a condition mem_stage.sv does not test: a
\* store that becomes a trap is not in memory, and the return of a handler that
\* becomes one has not used up the saved context.
THEOREM RestartableIsSafe == PreciseIrqs /\ CosimSpec => [](StoresAreSafe /\ ReturnContextSaved)
<1>1. CASE PreciseIrqs
  <2> DEFINE Inv == CsrInv /\ DmemInv /\ TrapAlone
  <2>1. CosimInit => Inv
    <3>1. CosimInit => TrapAlone
      BY DEF CosimInit, Init, BackendInit, TrapAlone, TrapsInWb, Alive
    <3>. QED  BY <3>1, CsrInitial, DmemInitial
  <2>2. Inv /\ [CosimNext]_cosimVars => Inv'
    BY <1>1, CsrInductive, DmemInductive, TrapAloneStep DEF CsrInv
  <2>3. Inv => StoresAreSafe /\ ReturnContextSaved
    <3> SUFFICES ASSUME Inv, TrapsInWb
                 PROVE  dmem = amem /\ csr_q = TrapEntry(acsr, wb_q.pc, wb_q.trap_cause)
      BY DEF StoresAreSafe, ReturnContextSaved, TrapsInWb
    <3>1. ~Alive(mem_q) /\ Alive(wb_q) /\ wb_q.trap_cause # None
      BY DEF TrapAlone, TrapsInWb
    <3>2. dmem = amem
      BY <3>1 DEF DmemInv, DmemRunsAhead, StoreEffect
    <3>3. csr_q = TrapEntry(acsr, wb_q.pc, wb_q.trap_cause)
      BY <3>1 DEF CsrInv, CsrRunsAhead, CsrEffect
    <3>. QED  BY <3>2, <3>3
  <2>. QED  BY <2>1, <2>2, <2>3, PTL DEF CosimSpec
<1>2. CASE ~PreciseIrqs
  BY <1>2
<1>. QED  BY <1>1, <1>2
=============================================================================
