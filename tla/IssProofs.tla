------------------------------ MODULE IssProofs -------------------------------
(***************************************************************************)
(* The core implements the reference machine of Iss: every commit is one   *)
(* instruction of it, for every program, word size, number of tags and     *)
(* registers, forwarding build and timing of the memories.                 *)
(***************************************************************************)
EXTENDS CosimProofs

-----------------------------------------------------------------------------
(* The program counter.                                                     *)

\* What FetchUnitProofs says of the oldest instruction is about this one.
LEMMA FetchOldest ==
  /\ Fetch!OldestFetchPc = OldestFetchPc
  /\ Fetch!OldestFetchPc' = OldestFetchPc'
<1>1. TRUE
  OBVIOUS
<1>2. /\ Fetch!BehindQueue = BehindQueue /\ Fetch!BehindQueue' = BehindQueue'
  BY <1>1, FetchIsFrontend
<1>3. \A q, e, b : Fetch!OldestPc(q, e, b) = OldestPc(q, e, b)
  BY DEF Fetch!OldestPc, OldestPc
<1>. QED  BY <1>2, <1>3 DEF Fetch!OldestFetchPc, OldestFetchPc

\* Nothing in the queue is of the current path.
NoLive == \A i \in 1 .. Len(ir_queue) : ir_queue[i].epoch # current_epoch_q

\* A redirect leaves its target as the oldest instruction.
LEMMA OldestIsTarget ==
  ASSUME CoreInv, PathHolds, NEW target \in Word, NEW iresp \in BOOLEAN,
         iresp => req_q # None, FrontendRedirect(target, iresp),
         Credit > 0, Credit' \in 0 .. Credit - 1
  PROVE  OldestFetchPc' = target /\ NoLive' /\ out_q' = None /\ (req_q' # None => drop_q')
<1>1. NoLive'
  BY RedirectPath DEF NoLive
<1>2. pc_q' = target /\ out_q' = None /\ (req_q' # None => drop_q')
  BY DEF FrontendRedirect
<1>3. BehindQueue'.pc = target
  BY <1>2 DEF BehindQueue, NextFetch
<1>4. OldestPc(ir_queue', current_epoch_q', BehindQueue'.pc) = BehindQueue'.pc
  BY <1>1 DEF NoLive, OldestPc
<1>. QED  BY <1>1, <1>2, <1>3, <1>4 DEF OldestFetchPc

LEMMA TrapEdge ==
  ASSUME PathAndLink, NEW iresp \in ImemResp, NEW resp \in DmemResp, NEW mip \in Mip,
         Moves(iresp, resp, mip), TakeTrap(mip)
  PROVE  /\ OldestFetchPc' = csr_q["mtvec"] /\ exe_q' = None /\ Alive(mem_q)
         /\ NoLive' /\ out_q' = None /\ (req_q' # None => drop_q')
<1>1. ClockTrap(iresp, resp, mip)
  BY DEF Moves, ClockRedirect, BackendRedirect, ClockAdvance, BackendAdvance
<1>2. /\ iresp \in BOOLEAN /\ (iresp => req_q # None) /\ mip \in SUBSET IrqLine
      /\ FrontendRedirect(csr_q["mtvec"], iresp)
      /\ exe_q' = None /\ Alive(mem_q) /\ Shift(Kill(mem_q), resp, mip)
      /\ CoreInv /\ PathHolds
  BY <1>1, InputTypes DEF PathAndLink, ClockTrap, BackendTrap, TakeTrap, Traps, MemAlive
<1>3. csr_q["mtvec"] \in Word
  BY <1>2, BackendTypes DEF CoreInv, TypeOK, CsrFile, CsrReg
<1>4. Credit > 0 /\ Credit' \in 0 .. Credit - 1
  BY <1>1, <1>2, TrapCredit DEF PathAndLink
<1>. QED  BY <1>2, <1>3, <1>4, OldestIsTarget

LEMMA RedirectEdge ==
  ASSUME PathAndLink, NEW iresp \in ImemResp, NEW resp \in DmemResp, NEW mip \in Mip,
         Moves(iresp, resp, mip), ~TakeTrap(mip), ExeRedirects
  PROVE  OldestFetchPc' = ExeTarget /\ exe_q' = None /\ NoLive'
<1>1. ClockRedirect(iresp, resp, mip)
  BY DEF Moves, ClockTrap, BackendTrap, ClockAdvance, BackendAdvance
<1>2. /\ iresp \in BOOLEAN /\ (iresp => req_q # None)
      /\ FrontendRedirect(ExeTarget, iresp) /\ exe_q' = None /\ Alive(exe_q)
      /\ CoreInv /\ PathHolds
  BY <1>1, InputTypes DEF PathAndLink, ClockRedirect, BackendRedirect, ExeRedirects
<1>3. ExeTarget \in Word
  <2>1. exe_q \in Token /\ csr_q \in CsrFile
    BY <1>2, BackendTypes DEF CoreInv, TypeOK, Alive
  <2>2. /\ csr_q["mepc"] \in Word /\ exe_q.pc \in Word /\ exe_q.rs1_val \in Word
        /\ exe_q.ir.imm \in Word
    BY <2>1 DEF CsrFile, CsrReg, Token, Ir
  <2>. QED  BY <2>2, WordFacts DEF ExeTarget, BranchTarget
<1>4. Credit > 0 /\ Credit' \in 0 .. Credit - 1
  BY <1>1, RedirectCredit
<1>. QED  BY <1>2, <1>3, <1>4, OldestIsTarget

\* The edge that advances without a redirect hands over the oldest instruction, or
\* nothing.
LEMMA AdvanceEdge ==
  ASSUME PathAndLink, NEW iresp \in ImemResp, NEW resp \in DmemResp, NEW mip \in Mip,
         Moves(iresp, resp, mip), ~TakeTrap(mip), ~ExeRedirects
  PROVE  /\ exe_q' # None => /\ Alive(exe_q') /\ exe_q'.pc = OldestFetchPc
                             /\ OldestFetchPc' = NextPc(exe_q'.pc)
         /\ exe_q' = None => ~Alive(exe_q') /\ OldestFetchPc' = OldestFetchPc
<1>1. PICK iready \in ImemReady : ClockAdvance(iready, iresp, resp, mip)
  BY DEF Moves, ClockTrap, BackendTrap, ClockRedirect, BackendRedirect
<1>2. /\ iready \in BOOLEAN /\ iresp \in BOOLEAN /\ (iresp => req_q # None)
      /\ Fetch!Inv /\ iresp \in Fetch!Answers
  BY InputTypes, FetchTypes DEF PathAndLink, ImemReady, Fetch!Answers
<1>3. ASSUME exe_q' # None
      PROVE  /\ Alive(exe_q') /\ exe_q'.pc = OldestFetchPc
             /\ OldestFetchPc' = NextPc(exe_q'.pc)
  <2>1. /\ IrValid /\ Candidate = ir_queue[1] /\ Alive(exe_q') /\ exe_q'.pc = Candidate.pc
        /\ Issuable(Candidate)
    BY <1>3, IssueFacts
  <2>2. PICK ready \in ImemReady : FrontendRun(ready, iresp, TRUE)
    BY <1>3, IssueFacts
  <2>3. Fetch!IrValid /\ Fetch!FrontendRun(ready, iresp, TRUE) /\ ready \in BOOLEAN
    BY <2>1, <2>2, FetchIsFrontend DEF ImemReady
  <2>4. /\ Fetch!OldestFetchPc = ir_queue[1].pc
        /\ Fetch!OldestFetchPc' = Fetch!NextPc(Fetch!OldestFetchPc)
    BY <1>2, <2>3, FetchAssumptions, Fetch!IssueTakesOldest
  <2>5. \A pc : Fetch!NextPc(pc) = NextPc(pc)
    BY DEF Fetch!NextPc, NextPc, Fetch!Add, Add
  <2>. QED  BY <2>1, <2>4, <2>5, FetchOldest
<1>4. ASSUME exe_q' = None
      PROVE  ~Alive(exe_q') /\ OldestFetchPc' = OldestFetchPc
  <2>1. ~Issuable(Candidate)
    <3>1. SUFFICES ASSUME Issuable(Candidate) PROVE FALSE
      OBVIOUS
    <3>2. exe_q' = IssueToken(Candidate)
      BY <1>1, <3>1 DEF ClockAdvance, BackendAdvance
    <3>3. Candidate \in FetchPkt
      <4>1. ir_queue \in Seq(FetchPkt) /\ ir_queue # <<>> /\ Candidate = Head(ir_queue)
        BY <3>1 DEF PathAndLink, CoreInv, TypeOK, FrontendTypeOK, Issuable, Candidate, IrValid
      <4>. QED  BY <4>1
    <3>4. IssueToken(Candidate) \in Token
      BY <3>3, IssueTypes DEF PathAndLink, CoreInv, TypeOK
    <3>. QED  BY <1>4, <3>2, <3>4, NoneIsNone
  <2>2. Issuable(Candidate) = FALSE
    BY <2>1 DEF Issuable
  <2>3. Fetch!FrontendRun(iready, iresp, FALSE)
    BY <1>1, <2>2, FetchIsFrontend DEF ClockAdvance
  <2>4. Fetch!OldestFetchPc' = Fetch!OldestFetchPc
    BY <1>2, <2>3, FetchAssumptions, Fetch!WaitKeepsOldest
  <2>. QED  BY <1>4, <2>4, FetchOldest DEF Alive
<1>. QED  BY <1>3, <1>4

LEMMA HoldEdge ==
  ASSUME PathAndLink, NEW iresp \in ImemResp, NEW resp \in DmemResp, NEW mip \in Mip,
         Holds(iresp, resp, mip)
  PROVE  OldestFetchPc' = OldestFetchPc
<1>1. PICK iready \in ImemReady : FrontendRun(iready, iresp, FALSE)
  BY DEF Holds, ClockStall
<1>2. /\ iready \in BOOLEAN /\ iresp \in BOOLEAN /\ (iresp => req_q # None)
      /\ Fetch!Inv /\ iresp \in Fetch!Answers
  BY InputTypes, FetchTypes DEF PathAndLink, ImemReady, Fetch!Answers
<1>3. Fetch!FrontendRun(iready, iresp, FALSE)
  BY <1>1, FetchIsFrontend
<1>4. Fetch!OldestFetchPc' = Fetch!OldestFetchPc
  BY <1>2, <1>3, FetchAssumptions, Fetch!WaitKeepsOldest
<1>. QED  BY <1>4, FetchOldest

-----------------------------------------------------------------------------
(* The path of the live tokens: what comes behind each of them is where it  *)
(* goes, so the oldest live token is where the reference machine is.        *)

\* Where a token past EXE goes, which finds these CSRs.
PcAfter(t, csr) ==
  IF t.trap_cause # None THEN csr["mtvec"]
  ELSE IF t.ir.sys_kind = "MRET" THEN csr["mepc"]
  ELSE IF BranchTaken(t.ir, t.rs1_val, t.rs2_val) THEN BranchTarget(t.ir, t.pc, t.rs1_val)
  ELSE NextPc(t.pc)

BehindMem == IF Alive(exe_q) THEN exe_q.pc ELSE OldestFetchPc
BehindWb  == IF Alive(mem_q) THEN mem_q.pc ELSE BehindMem

ChainInv ==
  /\ Alive(exe_q) => OldestFetchPc = NextPc(exe_q.pc)
  /\ Alive(mem_q) => BehindMem = PcAfter(mem_q, BeforeMem)
  /\ Alive(wb_q) => BehindWb = PcAfter(wb_q, acsr)
  /\ last_step_entered_trap_q => ArchPc = acsr["mtvec"]

LEMMA ArchIsBehind == ArchPc = IF Alive(wb_q) THEN wb_q.pc ELSE BehindWb
BY DEF ArchPc, BehindWb, BehindMem

\* An instruction leaves MEM, and one that traps leaves the CSR file, as the commits
\* before it have made it.
LEMMA CsrAtMove ==
  ASSUME PreciseIrqs, CsrInv, acsr' = BeforeMem,
         NEW iresp \in ImemResp, NEW resp \in DmemResp, NEW mip \in Mip,
         Moves(iresp, resp, mip)
  PROVE  /\ Traps(mip) => csr_q = acsr'
         /\ ~TakeTrap(mip) => csr_q = BeforeMem'
<1>1. /\ resp \in Response \cup {None} /\ mip \in SUBSET IrqLine
      /\ PathAndLink /\ TokenInv
  BY InputTypes DEF PathAndLink, CsrInv
<1>2. csr_q = CsrEffect(acsr', mem_q)
  BY DEF CsrInv, CsrRunsAhead, BeforeMem
<1>3. Traps(mip) => csr_q = acsr'
  BY <1>1, <1>2, TrapsBeforeEffect
<1>4. ASSUME ~TakeTrap(mip) PROVE csr_q = CsrEffect(acsr', wb_q')
  <2>1. CASE Alive(mem_q)
    <3>1. wb_q' = MemOut(resp, mip)
      BY <1>1, <2>1, MoveFacts
    <3>. QED  BY <1>1, <1>2, <1>4, <2>1, <3>1, MemEffect
  <2>2. CASE ~Alive(mem_q)
    <3>1. ~Alive(wb_q')
      BY <1>1, <2>2, MoveFacts
    <3>. QED  BY <1>2, <2>2, <3>1 DEF CsrEffect
  <2>. QED  BY <2>1, <2>2
<1>. QED  BY <1>3, <1>4 DEF BeforeMem

\* The token that enters MEM goes where EXE has sent the frontend, and the one that
\* enters WB where it was going or into the handler.
LEMMA MemGoesOn ==
  ASSUME CsrInv, NEW iresp \in ImemResp, NEW resp \in DmemResp, NEW mip \in Mip,
         Moves(iresp, resp, mip), Alive(mem_q')
  PROVE  PcAfter(mem_q', csr_q) = IF ExeRedirects THEN ExeTarget ELSE NextPc(exe_q.pc)
<1>1. /\ mip \in SUBSET IrqLine /\ PathAndLink /\ TokenInv /\ BackendTypeOK
  BY InputTypes DEF PathAndLink, CsrInv, CoreInv, TypeOK
<1>2. Alive(exe_q) /\ mem_q' = ExeOut(mip)
  BY <1>1, MoveFacts
<1>3. exe_q.pc \in Word /\ exe_q.ir = CodeAt(exe_q.pc) /\ exe_q.trap_cause = None
  BY <1>1, <1>2, BackendTypes DEF TokenInv, Alive, Token
<1> DEFINE ir == mem_q'.ir
<1>4. /\ mem_q'.pc = exe_q.pc /\ mem_q'.trap_cause = None /\ ir = PastExe(CodeAt(exe_q.pc))
      /\ mem_q'.rs1_val = exe_q.rs1_val /\ mem_q'.rs2_val = exe_q.rs2_val
  BY <1>1, <1>2, <1>3, ExeOutFields DEF PastExe
<1> HIDE DEF ir
<1>5. /\ ir.fu_type = exe_q.ir.fu_type /\ ir.sys_kind = exe_q.ir.sys_kind
      /\ ir.branch_op = exe_q.ir.branch_op /\ ir.imm = exe_q.ir.imm
  BY <1>1, <1>3, <1>4, PastExeFacts
<1>6. /\ BranchTaken(ir, exe_q.rs1_val, exe_q.rs2_val) <=> ExeTakesBranch
      /\ BranchTarget(ir, exe_q.pc, exe_q.rs1_val)
           = BranchTarget(exe_q.ir, exe_q.pc, exe_q.rs1_val)
  BY <1>5 DEF BranchTaken, BranchTarget, ExeTakesBranch
<1>. QED  BY <1>2, <1>4, <1>5, <1>6 DEF PcAfter, ExeRedirects, ExeTarget, ir

LEMMA WbGoesOn ==
  ASSUME CsrInv, NEW iresp \in ImemResp, NEW resp \in DmemResp, NEW mip \in Mip,
         Moves(iresp, resp, mip), Alive(mem_q), NEW csr
  PROVE  PcAfter(wb_q', csr) = IF TakeTrap(mip) THEN csr["mtvec"] ELSE PcAfter(mem_q, csr)
<1>1. /\ resp \in Response \cup {None} /\ mip \in SUBSET IrqLine
      /\ PathAndLink /\ BackendTypeOK /\ mem_q.trap_cause = None
  BY InputTypes DEF PathAndLink, CsrInv, CoreInv, TypeOK, TokenInv, Alive
<1> DEFINE t == MemOut(resp, mip)
<1>2. wb_q' = t
  BY <1>1, MoveFacts
<1>3. /\ t.pc = mem_q.pc /\ t.ir = mem_q.ir
      /\ t.rs1_val = mem_q.rs1_val /\ t.rs2_val = mem_q.rs2_val
      /\ t.trap_cause = IF TakeTrap(mip) THEN PendingCause(mip) ELSE mem_q.trap_cause
  BY <1>1, MemOutFields
<1> HIDE DEF t
<1>4. TakeTrap(mip) => PendingCause(mip) # None
  BY DEF TakeTrap, Traps
<1>5. CASE TakeTrap(mip)
  <2>1. t.trap_cause # None
    BY <1>3, <1>4, <1>5
  <2>. QED  BY <1>2, <1>5, <2>1 DEF PcAfter
<1>6. CASE ~TakeTrap(mip)
  <2>1. t.trap_cause = None
    BY <1>1, <1>3, <1>6
  <2>2. PcAfter(t, csr) = PcAfter(mem_q, csr)
    BY <1>1, <1>3, <2>1 DEF PcAfter, BranchTaken, BranchTarget
  <2>. QED  BY <1>2, <1>6, <2>2
<1>. QED  BY <1>5, <1>6

\* Behind EXE nothing changes but by a redirect.
LEMMA BehindMoves ==
  ASSUME PathAndLink, NEW iresp \in ImemResp, NEW resp \in DmemResp, NEW mip \in Mip,
         Moves(iresp, resp, mip)
  PROVE  BehindMem' = IF TakeTrap(mip) THEN csr_q["mtvec"]
                      ELSE IF ExeRedirects THEN ExeTarget ELSE OldestFetchPc
<1>1. CASE TakeTrap(mip)
  BY <1>1, TrapEdge DEF BehindMem, Alive
<1>2. CASE ~TakeTrap(mip) /\ ExeRedirects
  BY <1>2, RedirectEdge DEF BehindMem, Alive
<1>3. CASE ~TakeTrap(mip) /\ ~ExeRedirects
  BY <1>3, AdvanceEdge DEF BehindMem, Alive
<1>. QED  BY <1>1, <1>2, <1>3

LEMMA ArchMoves ==
  ASSUME PathAndLink, NEW iresp \in ImemResp, NEW resp \in DmemResp, NEW mip \in Mip,
         Moves(iresp, resp, mip)
  PROVE  ArchPc' = BehindWb
<1>1. CASE Alive(mem_q)
  <2>1. Alive(wb_q') /\ wb_q'.pc = mem_q.pc
    <3>1. resp \in Response \cup {None} /\ mip \in SUBSET IrqLine /\ BackendTypeOK
      BY InputTypes DEF PathAndLink, CoreInv, TypeOK
    <3>. QED  BY <1>1, <3>1, MoveFacts, MemOutFields
  <2>. QED  BY <1>1, <2>1 DEF ArchPc, BehindWb, Alive
<1>2. CASE ~Alive(mem_q) /\ Alive(exe_q)
  <2>1. ~TakeTrap(mip)
    BY <1>2 DEF TakeTrap, Traps, MemAlive
  <2>2. ~Alive(wb_q') /\ Alive(mem_q') /\ mem_q'.pc = exe_q.pc
    <3>1. mip \in SUBSET IrqLine /\ BackendTypeOK
      BY InputTypes DEF PathAndLink, CoreInv, TypeOK
    <3>. QED  BY <1>2, <2>1, <3>1, MoveFacts, ExeOutFields
  <2>. QED  BY <1>2, <2>2 DEF ArchPc, BehindWb, BehindMem, Alive
<1>3. CASE ~Alive(mem_q) /\ ~Alive(exe_q)
  <2>1. ~TakeTrap(mip) /\ ~ExeRedirects
    BY <1>3 DEF TakeTrap, Traps, MemAlive, ExeRedirects
  <2>2. ~Alive(wb_q') /\ ~Alive(mem_q')
    BY <1>3, MoveFacts
  <2>. QED  BY <1>3, <2>1, <2>2, BehindMoves DEF ArchPc, BehindWb, BehindMem, Alive
<1>. QED  BY <1>1, <1>2, <1>3

LEMMA ArchHolds ==
  ASSUME NEW iresp, NEW resp, NEW mip, Holds(iresp, resp, mip)
  PROVE  ArchPc' = BehindWb
<1>1. Alive(mem_q) /\ mem_q' = mem_q /\ ~Alive(wb_q')
  BY HoldFacts DEF IsMemory, MemAlive
<1>. QED  BY <1>1 DEF ArchPc, BehindWb, Alive

\* The CSRs of the commit stream are words.
LEMMA CommitTypes ==
  ASSUME PathAndLink, acsr \in CsrFile
  PROVE  BeforeMem \in CsrFile
<1>1. CASE ~Alive(wb_q)
  BY <1>1 DEF BeforeMem, CsrEffect
<1>2. CASE Alive(wb_q)
  <2>1. wb_q \in Token
    BY <1>2, BackendTypes DEF PathAndLink, CoreInv, TypeOK, Alive
  <2>2. wb_q.pc \in Word /\ wb_q.csr_new \in Word /\ wb_q.trap_cause \in Word \cup {None}
    BY <2>1 DEF Token
  <2>. QED  BY <2>2, CsrTypes DEF BeforeMem, CsrEffect
<1>. QED  BY <1>1, <1>2

\* A commit of a trap leaves mtvec alone.
LEMMA TrapKeepsVector ==
  ASSUME acsr \in CsrFile, Alive(wb_q) => wb_q.trap_cause # None
  PROVE  BeforeMem["mtvec"] = acsr["mtvec"]
BY DEF BeforeMem, CsrEffect, TrapEntry, CsrFile, CsrReg

\* What commits a trap is followed by the handler.
LEMMA HandlerFollows ==
  ASSUME acsr \in CsrFile, ChainInv, acsr' = BeforeMem, WriteBack, ArchPc' = BehindWb,
         last_step_entered_trap_q'
  PROVE  ArchPc' = acsr'["mtvec"]
<1>1. CASE Alive(wb_q)
  <2>1. wb_q.trap_cause # None
    BY <1>1 DEF WriteBack, CommitValid
  <2>2. BehindWb = acsr["mtvec"]
    BY <1>1, <2>1 DEF ChainInv, PcAfter
  <2>. QED  BY <2>1, <2>2, TrapKeepsVector
<1>2. CASE ~Alive(wb_q)
  <2>1. last_step_entered_trap_q /\ ArchPc = BehindWb
    BY <1>2, ArchIsBehind DEF WriteBack, CommitValid
  <2>. QED  BY <1>2, <2>1, TrapKeepsVector DEF ChainInv
<1>. QED  BY <1>1, <1>2

LEMMA ChainMoves ==
  ASSUME PreciseIrqs, CsrInv, acsr \in CsrFile, ChainInv, acsr' = BeforeMem,
         NEW iresp \in ImemResp, NEW resp \in DmemResp, NEW mip \in Mip,
         Moves(iresp, resp, mip)
  PROVE  ChainInv'
<1>1. /\ PathAndLink /\ WriteBack
      /\ Alive(wb_q') <=> Alive(mem_q)
      /\ Alive(mem_q') <=> Alive(exe_q) /\ ~TakeTrap(mip)
      /\ Alive(mem_q') => mem_q' = ExeOut(mip)
  BY MoveFacts DEF CsrInv
<1>2. BehindMem' = IF TakeTrap(mip) THEN csr_q["mtvec"]
                   ELSE IF ExeRedirects THEN ExeTarget ELSE OldestFetchPc
  BY <1>1, BehindMoves
<1>3. /\ Traps(mip) => csr_q = acsr'
      /\ ~TakeTrap(mip) => csr_q = BeforeMem'
  BY CsrAtMove
<1>4. Alive(exe_q') => OldestFetchPc' = NextPc(exe_q'.pc)
  <2>1. TakeTrap(mip) => exe_q' = None
    BY <1>1, TrapEdge
  <2>2. ~TakeTrap(mip) /\ ExeRedirects => exe_q' = None
    BY <1>1, RedirectEdge
  <2>3. ~TakeTrap(mip) /\ ~ExeRedirects /\ exe_q' # None => OldestFetchPc' = NextPc(exe_q'.pc)
    BY <1>1, AdvanceEdge
  <2>. QED  BY <2>1, <2>2, <2>3 DEF Alive
<1>5. ASSUME Alive(mem_q') PROVE BehindMem' = PcAfter(mem_q', BeforeMem')
  <2>1. Alive(exe_q) /\ ~TakeTrap(mip) /\ csr_q = BeforeMem'
    BY <1>1, <1>3, <1>5
  <2>2. PcAfter(mem_q', csr_q) = IF ExeRedirects THEN ExeTarget ELSE NextPc(exe_q.pc)
    BY <1>5, MemGoesOn
  <2>3. OldestFetchPc = NextPc(exe_q.pc)
    BY <2>1 DEF ChainInv
  <2>. QED  BY <1>2, <2>1, <2>2, <2>3
<1>6. ASSUME Alive(wb_q') PROVE BehindWb' = PcAfter(wb_q', acsr')
  <2>1. Alive(mem_q)
    BY <1>1, <1>6
  <2>2. PcAfter(wb_q', acsr') = IF TakeTrap(mip) THEN acsr'["mtvec"] ELSE PcAfter(mem_q, acsr')
    BY <2>1, WbGoesOn
  <2>3. PcAfter(mem_q, acsr') = BehindMem
    BY <2>1 DEF ChainInv
  <2>4. CASE TakeTrap(mip)
    <3>1. BehindWb' = acsr'["mtvec"]
      BY <1>1, <1>2, <1>3, <2>4 DEF BehindWb, TakeTrap
    <3>. QED  BY <2>2, <2>4, <3>1
  <2>5. CASE ~TakeTrap(mip) /\ Alive(exe_q)
    <3>1. Alive(mem_q') /\ mem_q'.pc = exe_q.pc
      <4>1. mip \in SUBSET IrqLine /\ BackendTypeOK
        BY <1>1, InputTypes DEF PathAndLink, CoreInv, TypeOK
      <4>. QED  BY <1>1, <2>5, <4>1, ExeOutFields
    <3>. QED  BY <2>2, <2>3, <2>5, <3>1 DEF BehindWb, BehindMem
  <2>6. CASE ~TakeTrap(mip) /\ ~Alive(exe_q)
    <3>1. ~Alive(mem_q') /\ ~ExeRedirects
      BY <1>1, <2>6 DEF ExeRedirects
    <3>2. BehindWb' = OldestFetchPc
      BY <1>2, <2>6, <3>1 DEF BehindWb
    <3>. QED  BY <2>2, <2>3, <2>6, <3>2 DEF BehindMem
  <2>. QED  BY <2>4, <2>5, <2>6
<1>7. last_step_entered_trap_q' => ArchPc' = acsr'["mtvec"]
  BY <1>1, ArchMoves, HandlerFollows
<1>. QED  BY <1>4, <1>5, <1>6, <1>7 DEF ChainInv

LEMMA ChainHolds ==
  ASSUME CsrInv, acsr \in CsrFile, ChainInv, acsr' = BeforeMem,
         NEW iresp \in ImemResp, NEW resp \in DmemResp, NEW mip \in Mip,
         Holds(iresp, resp, mip)
  PROVE  ChainInv'
<1>1. /\ WriteBack /\ ~Alive(wb_q') /\ exe_q' = exe_q /\ mem_q' = mem_q
  BY HoldFacts
<1>2. OldestFetchPc' = OldestFetchPc
  BY HoldEdge DEF CsrInv
<1>3. BeforeMem' = BeforeMem
  BY <1>1 DEF BeforeMem, CsrEffect
<1>4. /\ Alive(exe_q') => OldestFetchPc' = NextPc(exe_q'.pc)
      /\ Alive(mem_q') => BehindMem' = PcAfter(mem_q', BeforeMem')
  BY <1>1, <1>2, <1>3 DEF ChainInv, BehindMem
<1>5. last_step_entered_trap_q' => ArchPc' = acsr'["mtvec"]
  BY <1>1, ArchHolds, HandlerFollows
<1>. QED  BY <1>1, <1>4, <1>5 DEF ChainInv

-----------------------------------------------------------------------------
(* The first instruction of a handler is alone in the pipeline: a redirect  *)
(* empties it, and what is left in a queue of four entries drains as fast   *)
(* as the handler comes in.                                                 *)

LiveReq == req_q # None /\ ~drop_q

\* Between the redirect and the first issue behind it.
Draining ==
  \/ NoLive /\ (LiveReq => Len(ir_queue) <= 2) /\ (out_q # None => Len(ir_queue) <= 1)
  \/ Len(ir_queue) = 1 /\ out_q = None /\ req_q = None

Fresh ==
  /\ ~Alive(exe_q) /\ ~Alive(mem_q) /\ (Alive(wb_q) => TrapsInWb)
  /\ Draining
  /\ Alive(wb_q) => NoLive

\* The first instruction has not issued, is in EXE, in MEM, or in WB.
EnterInv ==
  /\ TrapsInWb => Fresh
  /\ last_step_entered_trap_q =>
       \/ Fresh
       \/ Alive(exe_q) /\ ~Alive(mem_q) /\ ~Alive(wb_q) /\ NoLive
       \/ ~Alive(exe_q) /\ Alive(mem_q) /\ ~Alive(wb_q)
       \/ ~Alive(mem_q) /\ Alive(wb_q) /\ wb_q.trap_cause = None

\* A cycle hands over the only live entry, or the queue goes on draining.
LEMMA DrainStep ==
  ASSUME CoreInv, PathHolds, IR_QUEUE_DEPTH <= 4, Draining,
         NEW iready \in BOOLEAN, NEW iresp \in BOOLEAN, NEW issue \in BOOLEAN,
         iresp => req_q # None, issue <=> IrValid, FrontendRun(iready, iresp, issue)
  PROVE  IF issue THEN NoLive' ELSE Draining'
<1> DEFINE n == IF issue \/ QueueStale THEN Len(ir_queue) - 1 ELSE Len(ir_queue)
<1>1. /\ Len(ir_queue') = IF out_q # None THEN n + 1 ELSE n
      /\ \A i \in 1 .. n : ir_queue'[i] = ir_queue[IF issue \/ QueueStale THEN i + 1 ELSE i]
      /\ current_epoch_q' = current_epoch_q /\ n \in Nat
  BY RunFacts
<1> HIDE DEF n
<1>2. /\ out_q # None => req_q = None
      /\ req_q # None \/ out_q # None => QueueReady
      /\ Len(ir_queue) \in Nat /\ Len(ir_queue) <= IR_QUEUE_DEPTH /\ IR_QUEUE_DEPTH \in Nat
      /\ ir_queue # <<>> => Head(ir_queue) = ir_queue[1]
  BY PathFacts, FetchIsFrontend, FrontendAssumption
     DEF PathHolds, Fetch!PathInv, Fetch!FetchInv, CoreInv, TypeOK, FrontendTypeOK
<1>3. ir_queue = <<>> <=> Len(ir_queue) = 0
  BY DEF CoreInv, TypeOK, FrontendTypeOK
<1>4. /\ req_q' = IF ImemReqValid /\ iready
                  THEN [pc |-> pc_q, epoch |-> current_epoch_q, seq_id |-> next_seq_id_q]
                  ELSE IF iresp THEN None ELSE req_q
      /\ drop_q' = (drop_q /\ ~Discards(iresp))
      /\ out_q' = IF iresp /\ ~ResponseStale THEN Fetched(req_q)
                  ELSE IF out_q # None /\ QueueReady THEN None ELSE out_q
  BY DEF FrontendRun
<1>5. CASE issue
  <2>1. ~NoLive
    BY <1>2, <1>3, <1>5, PathFacts DEF NoLive, IrValid
  <2>2. Len(ir_queue') = 0
    BY <1>1, <1>5, <2>1 DEF Draining, n
  <2>. QED  BY <1>5, <2>2 DEF NoLive
<1>6. CASE ~issue
  <2>1. Len(ir_queue) = 0 \/ QueueStale
    BY <1>3, <1>6 DEF IrValid
  <2>2. n = IF Len(ir_queue) = 0 THEN 0 ELSE Len(ir_queue) - 1
    BY <1>2, <1>3, <1>6, <2>1 DEF QueueStale, n
  <2>7. /\ Len(ir_queue) <= 3 => n <= 2
        /\ Len(ir_queue) <= 2 => n <= 1
        /\ Len(ir_queue) <= 1 => n = 0
    <3>1. \A k \in Nat : \A m : m = (IF k = 0 THEN 0 ELSE k - 1) =>
            (k <= 3 => m <= 2) /\ (k <= 2 => m <= 1) /\ (k <= 1 => m = 0)
      OBVIOUS
    <3>2. Len(ir_queue) \in Nat
      BY <1>2
    <3>. QED  BY <2>2, <3>1, <3>2
  <2>3. /\ NoLive /\ (LiveReq => Len(ir_queue) <= 2) /\ (out_q # None => Len(ir_queue) <= 1)
    <3>1. CASE Len(ir_queue) = 1 /\ out_q = None /\ req_q = None
      BY <1>2, <1>3, <2>1, <3>1 DEF NoLive, QueueStale, LiveReq
    <3>. QED  BY <3>1 DEF Draining
  <2>4. \A i \in 1 .. n : ir_queue'[i].epoch # current_epoch_q'
    BY <1>1, <1>2, <1>6, <2>1, <2>2, <2>3 DEF NoLive
  <2>5. CASE out_q # None
    <3>1. ~ImemReqValid /\ ~iresp /\ QueueReady
      BY <1>2, <2>5 DEF ImemReqValid
    <3>2. req_q' = None /\ out_q' = None
      BY <1>2, <1>4, <2>5, <3>1
    <3>3. Len(ir_queue') = 1
      <4>1. n = 0
        BY <2>3, <2>5, <2>7
      <4>. QED  BY <1>1, <2>5, <4>1
    <3>. QED  BY <1>6, <3>2, <3>3 DEF Draining
  <2>6. CASE out_q = None
    <3>1. Len(ir_queue') = n /\ NoLive'
      BY <1>1, <2>4, <2>6 DEF NoLive
    <3>2. LiveReq' => n <= 2
      <4>1. CASE ImemReqValid /\ iready
        <5>1. Len(ir_queue) <= 3
          BY <1>2, <4>1 DEF ImemReqValid, QueueReady
        <5>. QED  BY <2>7, <5>1
      <4>2. CASE ~(ImemReqValid /\ iready) /\ LiveReq'
        <5>1. LiveReq
          BY <1>4, <4>2 DEF LiveReq, Discards
        <5>. QED  BY <2>3, <2>7, <5>1
      <4>. QED  BY <4>1, <4>2
    <3>3. out_q' # None => n <= 1
      <4>1. out_q' # None => LiveReq
        BY <1>4, <2>6 DEF LiveReq, ResponseStale
      <4>. QED  BY <2>3, <2>7, <4>1
    <3>. QED  BY <1>6, <3>1, <3>2, <3>3 DEF Draining
  <2>. QED  BY <2>5, <2>6
<1>. QED  BY <1>5, <1>6

\* With nothing alive in the pipeline no operand is a hazard.
LEMMA DeadIsNoHazard ==
  ASSUME RowsTrackTokens, ~Alive(exe_q), ~Alive(mem_q), ~Alive(wb_q), NEW cand, cand # None
  PROVE  Issuable(cand)
<1>1. \A row, t : Tracks(row, t) /\ ~Alive(t) => \A r : ~RdMatch(row, r)
  BY DEF Tracks, Alive, RdMatch
<1>2. \A r : OperandSource(r) = "gpr"
  BY <1>1 DEF RowsTrackTokens, OperandSource
<1>. QED  BY <1>2 DEF Issuable

LEMMA FreshStep ==
  ASSUME PathAndLink, IR_QUEUE_DEPTH <= 4, Fresh,
         NEW iresp \in ImemResp, NEW resp \in DmemResp, NEW mip \in Mip,
         Moves(iresp, resp, mip)
  PROVE  \/ Fresh'
         \/ Alive(exe_q') /\ ~Alive(mem_q') /\ ~Alive(wb_q') /\ NoLive'
<1>1. /\ ~TakeTrap(mip) /\ ~ExeRedirects /\ CoreInv /\ PathHolds
      /\ ~Alive(mem_q') /\ ~Alive(wb_q')
  BY MoveFacts DEF Fresh, TakeTrap, Traps, MemAlive, ExeRedirects, PathAndLink
<1>2. PICK iready \in ImemReady : ClockAdvance(iready, iresp, resp, mip)
  BY <1>1 DEF Moves, ClockTrap, BackendTrap, ClockRedirect, BackendRedirect
<1>3. iready \in BOOLEAN /\ iresp \in BOOLEAN /\ (iresp => req_q # None)
  BY <1>1, InputTypes DEF ImemReady
<1>4. Issuable(Candidate) <=> IrValid
  <2>1. Issuable(Candidate) => IrValid
    BY DEF Issuable, Candidate
  <2>2. ASSUME IrValid PROVE Issuable(Candidate)
    <3>1. Len(ir_queue) # 0 /\ ir_queue[1].epoch = current_epoch_q /\ Candidate # None
      <4>1. ir_queue \in Seq(FetchPkt) /\ ir_queue # <<>> /\ Candidate = Head(ir_queue)
        BY <1>1, <2>2 DEF CoreInv, TypeOK, FrontendTypeOK, IrValid, Candidate
      <4>2. Candidate \in FetchPkt /\ Len(ir_queue) # 0
        BY <4>1
      <4>. QED  BY <1>1, <2>2, <4>2, PathFacts, NoneIsNone
    <3>2. ~NoLive
      BY <1>1, <3>1, PathFacts DEF NoLive
    <3>. QED  BY <1>1, <3>1, <3>2, DeadIsNoHazard DEF Fresh, CoreInv
  <2>. QED  BY <2>1, <2>2
<1> DEFINE issue == Issuable(Candidate)
<1>5. issue \in BOOLEAN /\ FrontendRun(iready, iresp, issue)
      /\ exe_q' = IF issue THEN IssueToken(Candidate) ELSE None
  BY <1>2 DEF ClockAdvance, BackendAdvance, Issuable
<1>6. IF issue THEN NoLive' ELSE Draining'
  BY <1>1, <1>3, <1>4, <1>5, DrainStep DEF Fresh
<1>7. CASE issue
  <2>1. exe_q' = IssueToken(Candidate)
    BY <1>5, <1>7
  <2>2. Alive(exe_q')
    <3>1. Candidate \in FetchPkt
      <4>1. ir_queue \in Seq(FetchPkt) /\ ir_queue # <<>> /\ Candidate = Head(ir_queue)
        BY <1>1, <1>4, <1>7 DEF CoreInv, TypeOK, FrontendTypeOK, IrValid, Candidate
      <4>. QED  BY <4>1
    <3>2. IssueToken(Candidate) \in Token
      BY <1>1, <3>1, IssueTypes DEF CoreInv, TypeOK
    <3>. QED  BY <2>1, <3>2, NoneIsNone DEF IssueToken, Alive
  <2>. QED  BY <1>1, <1>6, <1>7, <2>2
<1>8. CASE ~issue
  <2>1. ~Alive(exe_q')
    BY <1>5, <1>8 DEF Alive
  <2>. QED  BY <1>1, <1>6, <1>8, <2>1 DEF Fresh
<1>. QED  BY <1>7, <1>8

LEMMA EnterMoves ==
  ASSUME PathAndLink, TokenInv, EnterInv, IR_QUEUE_DEPTH <= 4,
         NEW iresp \in ImemResp, NEW resp \in DmemResp, NEW mip \in Mip,
         Moves(iresp, resp, mip)
  PROVE  EnterInv'
<1>1. /\ WriteBack
      /\ Alive(wb_q') <=> Alive(mem_q)
      /\ Alive(mem_q) => wb_q' = MemOut(resp, mip)
      /\ Alive(mem_q') <=> Alive(exe_q) /\ ~TakeTrap(mip)
  BY MoveFacts
<1>2. CASE TakeTrap(mip)
  <2>1. /\ exe_q' = None /\ Alive(mem_q)
        /\ NoLive' /\ out_q' = None /\ (req_q' # None => drop_q')
    BY <1>2, TrapEdge
  <2>2. TrapsInWb'
    <3>1. resp \in Response \cup {None} /\ mip \in SUBSET IrqLine /\ BackendTypeOK
      BY InputTypes DEF PathAndLink, CoreInv, TypeOK
    <3>2. wb_q'.trap_cause = PendingCause(mip)
      BY <1>1, <1>2, <2>1, <3>1, MemOutFields
    <3>. QED  BY <1>1, <1>2, <2>1, <3>2 DEF TrapsInWb, TakeTrap, Traps
  <2>3. Fresh'
    BY <1>1, <1>2, <2>1, <2>2 DEF Fresh, Draining, LiveReq, Alive
  <2>. QED  BY <2>3 DEF EnterInv
<1>3. CASE ~TakeTrap(mip)
  <2>1. Alive(mem_q) => wb_q'.trap_cause = None
    <3>1. /\ resp \in Response \cup {None} /\ mip \in SUBSET IrqLine /\ BackendTypeOK
          /\ Alive(mem_q) => mem_q.trap_cause = None
      BY InputTypes DEF PathAndLink, CoreInv, TypeOK, TokenInv, Alive
    <3>. QED  BY <1>1, <1>3, <3>1, MemOutFields
  <2>2. ~TrapsInWb'
    BY <1>1, <2>1 DEF TrapsInWb
  <2>3. ASSUME last_step_entered_trap_q'
        PROVE  \/ Fresh'
               \/ Alive(exe_q') /\ ~Alive(mem_q') /\ ~Alive(wb_q') /\ NoLive'
               \/ ~Alive(exe_q') /\ Alive(mem_q') /\ ~Alive(wb_q')
               \/ ~Alive(mem_q') /\ Alive(wb_q') /\ wb_q'.trap_cause = None
    <3>1. \/ TrapsInWb
          \/ last_step_entered_trap_q /\ ~Alive(wb_q)
      BY <1>1, <2>3 DEF WriteBack, CommitValid, TrapsInWb
    <3>2. CASE Fresh
      BY <3>2, FreshStep
    <3>3. CASE Alive(exe_q) /\ ~Alive(mem_q) /\ NoLive
      <4>1. ~Alive(wb_q') /\ Alive(mem_q')
        BY <1>1, <1>3, <3>3
      <4>2. ~IrValid
        BY <3>3, PathFacts DEF NoLive, PathAndLink, IrValid, CoreInv, TypeOK, FrontendTypeOK
      <4>3. exe_q' = None
        BY <4>2, IssueFacts
      <4>. QED  BY <4>1, <4>3 DEF Alive
    <3>4. CASE ~Alive(exe_q) /\ Alive(mem_q)
      BY <1>1, <2>1, <3>4
    <3>. QED  BY <3>1, <3>2, <3>3, <3>4 DEF EnterInv
  <2>. QED  BY <2>2, <2>3 DEF EnterInv
<1>. QED  BY <1>2, <1>3

LEMMA EnterHolds ==
  ASSUME EnterInv, NEW iresp, NEW resp, NEW mip, Holds(iresp, resp, mip)
  PROVE  EnterInv'
<1>1. /\ WriteBack /\ ~Alive(wb_q') /\ exe_q' = exe_q /\ mem_q' = mem_q /\ Alive(mem_q)
  BY HoldFacts DEF IsMemory, MemAlive
<1>2. ~TrapsInWb
  BY <1>1 DEF EnterInv, Fresh
<1>3. last_step_entered_trap_q' => last_step_entered_trap_q /\ ~Alive(wb_q)
  BY <1>1, <1>2 DEF WriteBack, CommitValid, TrapsInWb
<1>. QED  BY <1>1, <1>3 DEF EnterInv, TrapsInWb, Fresh, Alive

\* While an instruction behind a trap is in MEM no other commits.
LEMMA HandlerIsAlone ==
  ASSUME EnterInv, last_step_entered_trap_q, Alive(mem_q)
  PROVE  ~Alive(wb_q)
BY DEF EnterInv, Fresh

-----------------------------------------------------------------------------
(* The operands: each live token carries what its sources hold when the     *)
(* instructions before it are done.                                         *)

\* The register as the instruction behind WB must find it.
After(r) ==
  IF r = 0 THEN 0
  ELSE IF Alive(wb_q) /\ wb_q.trap_cause = None /\ wb_q.ir.rd = r THEN wb_q.rd_value
  ELSE regs_q[r]

\* A row that is ready is not that of a load before WB.
ReadyInv ==
  /\ exe_row_q # None => ~exe_row_q.rd_ready
  /\ Alive(mem_q) /\ mem_row_q.rd_ready => ~IsLoad(mem_q.ir)

OperandInv ==
  done = None =>
    /\ Alive(wb_q) => wb_q.rs1_val = Gpr(wb_q.ir.rs1) /\ wb_q.rs2_val = Gpr(wb_q.ir.rs2)
    /\ Alive(mem_q) => mem_q.rs1_val = After(mem_q.ir.rs1) /\ mem_q.rs2_val = After(mem_q.ir.rs2)
    /\ Alive(exe_q) => exe_q.rs1_val = After(exe_q.ir.rs1) /\ exe_q.rs2_val = After(exe_q.ir.rs2)
    /\ Alive(exe_q) /\ Alive(mem_q) =>
         \A r \in {exe_q.ir.rs1, exe_q.ir.rs2} : r # 0 => r # mem_q.ir.rd

LEMMA ReadyMoves ==
  ASSUME PathAndLink, ReadyInv,
         NEW iresp \in ImemResp, NEW resp \in DmemResp, NEW mip \in Mip,
         Moves(iresp, resp, mip)
  PROVE  ReadyInv'
<1>1. exe_row_q' # None => ~exe_row_q'.rd_ready
  <2>1. exe_row_q' = None \/ exe_row_q' = RowFromIr(Candidate)
    BY DEF Moves, ClockTrap, BackendTrap, ClockRedirect, BackendRedirect, ClockAdvance,
           BackendAdvance
  <2>. QED  BY <2>1 DEF RowFromIr
<1>2. ASSUME Alive(mem_q'), mem_row_q'.rd_ready PROVE ~IsLoad(mem_q'.ir)
  <2>1. PICK kill : Shift(kill, resp, mip)
    BY DEF Moves, ClockTrap, BackendTrap, ClockRedirect, BackendRedirect, ClockAdvance,
           BackendAdvance
  <2>2. /\ CoreInv /\ mip \in SUBSET IrqLine /\ exe_row_q \in Row \cup {None}
        /\ mem_row_q' = ShiftRow(exe_row_q, ExeRdReady, kill)
    BY <2>1, InputTypes, BackendTypes DEF PathAndLink, CoreInv, TypeOK, Shift
  <2>3. Alive(exe_q) /\ mem_q'.ir.fu_type = exe_q.ir.fu_type
    BY <1>2, <2>1, <2>2, ComesFromExe
  <2>4. exe_row_q # None /\ exe_row_q \in Row
    BY <2>2, <2>3 DEF CoreInv, RowsTrackTokens, Tracks, Alive
  <2>5. KillIfYounger(exe_row_q, kill) = [exe_row_q EXCEPT !.killed = @ \/ KilledBy(exe_row_q, kill)]
    BY <2>4 DEF KillIfYounger
  <2>6. mem_row_q' = [KillIfYounger(exe_row_q, kill) EXCEPT !.rd_ready = @ \/ ExeRdReady]
    BY <2>2, <2>4 DEF ShiftRow
  <2>7. mem_row_q'.rd_ready = (exe_row_q.rd_ready \/ ExeRdReady)
    BY <2>4, <2>5, <2>6 DEF Row
  <2>. QED  BY <1>2, <2>3, <2>4, <2>7 DEF ReadyInv, ExeRdReady, IsLoad
<1>. QED  BY <1>1, <1>2 DEF ReadyInv

LEMMA ReadyHolds ==
  ASSUME ReadyInv, NEW iresp, NEW resp, NEW mip, Holds(iresp, resp, mip)
  PROVE  ReadyInv'
BY DEF Holds, ClockStall, BackendStall, ReadyInv, Alive, IsLoad

\* A run that goes on has committed no halt.
LEMMA GoesOn ==
  ASSUME CoreInv, done = None, Observe, done' = None
  PROVE  Alive(wb_q) => wb_q.halt_kind = "NONE"
<1> SUFFICES ASSUME Alive(wb_q), wb_q.halt_kind # "NONE" PROVE FALSE
  OBVIOUS
<1> DEFINE halt == [kind |-> wb_q.halt_kind,
                    exit |-> IF wb_q.halt_kind = "VOLUNTARY" THEN Gpr(A0) ELSE 0]
<1>1. done' = halt
  BY DEF Observe, CommitsHalt, CommitValid
<1>2. wb_q \in Token /\ regs_q \in [Reg -> Word]
  BY BackendTypes DEF Alive, CoreInv, TypeOK
<1>3. wb_q.halt_kind \in HaltKind /\ Gpr(A0) \in Word /\ 0 \in Word
  BY <1>2, DatapathAssumption, WordFacts DEF Token, Gpr
<1>4. halt \in Outcome
  BY <1>3 DEF Outcome
<1>. QED  BY <1>1, <1>4, ResponseAssumption

\* The register file catches up with WB.
LEMMA RegsCatchUp ==
  ASSUME BackendTypeOK, WriteBack, Alive(wb_q) => wb_q.halt_kind = "NONE",
         NEW r \in Reg \cup {0}
  PROVE  Gpr(r)' = After(r)
<1>1. regs_q \in [Reg -> Word]
  BY BackendTypes
<1>2. regs_q' = IF /\ Alive(wb_q) /\ wb_q.trap_cause = None /\ wb_q.ir.rd # 0
                THEN [regs_q EXCEPT ![wb_q.ir.rd] = wb_q.rd_value] ELSE regs_q
  BY DEF WriteBack, RfWe, CommitValid
<1>. QED  BY <1>1, <1>2 DEF Gpr, After

\* A live row is that of a live token, with its destination.
LEMMA RowsFind ==
  ASSUME RowsTrackTokens, NEW r
  PROVE  /\ RdMatch(exe_row_q, r) <=> Alive(exe_q) /\ r # 0 /\ exe_q.ir.rd = r
         /\ RdMatch(mem_row_q, r) <=> Alive(mem_q) /\ r # 0 /\ mem_q.ir.rd = r
         /\ RdMatch(wb_row_q, r) <=> Alive(wb_q) /\ r # 0 /\ wb_q.ir.rd = r
BY DEF RowsTrackTokens, Tracks, RdMatch, Alive

\* The edge at which the instruction in MEM goes on: what its successor must find.
LEMMA AfterMoves ==
  ASSUME PathAndLink, TokenInv, Alive(wb_q) => wb_q.halt_kind = "NONE",
         NEW iresp \in ImemResp, NEW resp \in DmemResp, NEW mip \in Mip,
         Moves(iresp, resp, mip), ~TakeTrap(mip), NEW r \in Reg \cup {0}
  PROVE  /\ Gpr(r)' = After(r)
         /\ After(r)' = IF Alive(mem_q) /\ r # 0 /\ mem_q.ir.rd = r
                        THEN IF IsLoad(mem_q.ir) /\ resp # None THEN resp.rdata ELSE mem_q.rd_value
                        ELSE After(r)
<1>1. /\ resp \in Response \cup {None} /\ mip \in SUBSET IrqLine /\ BackendTypeOK
      /\ Alive(mem_q) => mem_q.trap_cause = None
  BY InputTypes DEF PathAndLink, CoreInv, TypeOK, TokenInv, Alive
<1>2. /\ WriteBack
      /\ Alive(wb_q') <=> Alive(mem_q)
      /\ Alive(mem_q) => wb_q' = MemOut(resp, mip)
  BY MoveFacts
<1>3. Gpr(r)' = After(r)
  BY <1>1, <1>2, RegsCatchUp
<1>4. After(r)' = IF Alive(wb_q') /\ wb_q'.trap_cause = None /\ r # 0 /\ wb_q'.ir.rd = r
                  THEN wb_q'.rd_value ELSE Gpr(r)'
  BY DEF After, Gpr
<1>5. Alive(mem_q) =>
        /\ wb_q'.trap_cause = None /\ wb_q'.ir = mem_q.ir
        /\ wb_q'.rd_value = IF IsLoad(mem_q.ir) /\ resp # None THEN resp.rdata ELSE mem_q.rd_value
  BY <1>1, <1>2, MemOutFields
<1>. QED  BY <1>2, <1>3, <1>4, <1>5

\* What the candidate that issues takes for its source is what it must find.
LEMMA OperandIsAfter ==
  ASSUME PathAndLink, TokenInv, ReadyInv, EnterInv, Alive(wb_q) => wb_q.halt_kind = "NONE",
         NEW iresp \in ImemResp, NEW resp \in DmemResp, NEW mip \in Mip,
         Moves(iresp, resp, mip), exe_q' # None,
         NEW r \in Reg \cup {0}, OperandSource(r) # "hazard"
  PROVE  Operand(r) = After(r)' /\ (Alive(exe_q) /\ r # 0 => r # exe_q.ir.rd)
<1>1. ~TakeTrap(mip) /\ IrValid /\ RowsTrackTokens
  BY IssueFacts DEF PathAndLink, CoreInv
<1>2. ~TrapsInWb
  <2>1. ~NoLive
    BY <1>1, PathFacts DEF NoLive, IrValid, PathAndLink, CoreInv, TypeOK, FrontendTypeOK
  <2>. QED  BY <2>1 DEF EnterInv, Fresh, TrapsInWb
<1>3. ~RdMatch(exe_row_q, r)
  BY DEF OperandSource
<1>4. CASE RdMatch(mem_row_q, r)
  <2>1. OperandSource(r) = "mem" /\ mem_row_q.rd_ready
    BY <1>3, <1>4 DEF OperandSource
  <2>2. Alive(mem_q) /\ r # 0 /\ mem_q.ir.rd = r
    BY <1>1, <1>4, RowsFind
  <2>3. Operand(r) = mem_q.rd_value /\ ~IsLoad(mem_q.ir)
    BY <2>1, <2>2 DEF Operand, ReadyInv
  <2>4. After(r)' = mem_q.rd_value
    BY <1>1, <2>2, <2>3, AfterMoves
  <2>. QED  BY <1>1, <1>3, <2>3, <2>4, RowsFind
<1>5. CASE ~RdMatch(mem_row_q, r)
  <2>1. After(r)' = After(r)
    BY <1>1, <1>5, AfterMoves, RowsFind
  <2>2. CASE RdMatch(wb_row_q, r)
    <3>1. OperandSource(r) = "wb"
      BY <1>3, <1>5, <2>2 DEF OperandSource
    <3>2. Operand(r) = wb_q.rd_value
      BY <3>1 DEF Operand
    <3>3. Alive(wb_q) /\ r # 0 /\ wb_q.ir.rd = r /\ wb_q.trap_cause = None
      BY <1>1, <1>2, <2>2, RowsFind DEF TrapsInWb
    <3>. QED  BY <1>1, <1>3, <2>1, <3>2, <3>3, RowsFind DEF After
  <2>3. CASE ~RdMatch(wb_row_q, r)
    <3>1. OperandSource(r) = "gpr"
      BY <1>3, <1>5, <2>3 DEF OperandSource
    <3>2. Operand(r) = Gpr(r)
      BY <3>1 DEF Operand
    <3>3. After(r) = Gpr(r)
      BY <1>1, <2>3, RowsFind DEF After, Gpr
    <3>. QED  BY <1>1, <1>3, <2>1, <3>2, <3>3, RowsFind
  <2>. QED  BY <2>2, <2>3
<1>. QED  BY <1>4, <1>5

LEMMA OperandMoves ==
  ASSUME PathAndLink, TokenInv, ReadyInv, EnterInv, OperandInv,
         done = None, Observe,
         NEW iresp \in ImemResp, NEW resp \in DmemResp, NEW mip \in Mip,
         Moves(iresp, resp, mip)
  PROVE  OperandInv'
<1> SUFFICES ASSUME done' = None PROVE OperandInv'
  BY DEF OperandInv
<1>1. /\ resp \in Response \cup {None} /\ mip \in SUBSET IrqLine /\ BackendTypeOK /\ CoreInv
  BY InputTypes DEF PathAndLink, CoreInv, TypeOK
<1>2. /\ WriteBack
      /\ Alive(wb_q') <=> Alive(mem_q)
      /\ Alive(mem_q) => wb_q' = MemOut(resp, mip)
      /\ Alive(mem_q') <=> Alive(exe_q) /\ ~TakeTrap(mip)
      /\ Alive(mem_q') => mem_q' = ExeOut(mip)
  BY MoveFacts
<1>3. Alive(wb_q) => wb_q.halt_kind = "NONE"
  BY <1>1, GoesOn
<1>4. ASSUME Alive(wb_q')
      PROVE  (wb_q.rs1_val = Gpr(wb_q.ir.rs1) /\ wb_q.rs2_val = Gpr(wb_q.ir.rs2))'
  <2>1. /\ wb_q'.ir = mem_q.ir /\ wb_q'.rs1_val = mem_q.rs1_val /\ wb_q'.rs2_val = mem_q.rs2_val
    BY <1>1, <1>2, <1>4, MemOutFields
  <2>2. mem_q.ir.rs1 \in Reg \cup {0} /\ mem_q.ir.rs2 \in Reg \cup {0}
    BY <1>1, <1>2, <1>4, BackendTypes DEF Alive, Token, Ir
  <2>3. mem_q.rs1_val = After(mem_q.ir.rs1) /\ mem_q.rs2_val = After(mem_q.ir.rs2)
    BY <1>2, <1>4 DEF OperandInv
  <2>4. \A r \in Reg \cup {0} : Gpr(r)' = After(r)
    BY <1>1, <1>2, <1>3, RegsCatchUp
  <2>5. \A r : /\ r = wb_q'.ir.rs1 => (Gpr(wb_q.ir.rs1))' = Gpr(r)'
               /\ r = wb_q'.ir.rs2 => (Gpr(wb_q.ir.rs2))' = Gpr(r)'
    BY DEF Gpr
  <2>6. (Gpr(wb_q.ir.rs1))' = After(mem_q.ir.rs1) /\ (Gpr(wb_q.ir.rs2))' = After(mem_q.ir.rs2)
    BY <2>1, <2>2, <2>4, <2>5
  <2>. QED  BY <2>1, <2>3, <2>6
<1>5. ASSUME Alive(mem_q')
      PROVE  (mem_q.rs1_val = After(mem_q.ir.rs1) /\ mem_q.rs2_val = After(mem_q.ir.rs2))'
  <2>1. Alive(exe_q) /\ ~TakeTrap(mip)
    BY <1>2, <1>5
  <2>2. exe_q.ir \in Ir /\ exe_q.ir.rs1 \in Reg \cup {0} /\ exe_q.ir.rs2 \in Reg \cup {0}
    BY <1>1, <2>1, BackendTypes DEF Alive, Token, Ir
  <2>3. /\ mem_q'.ir.rs1 = exe_q.ir.rs1 /\ mem_q'.ir.rs2 = exe_q.ir.rs2
        /\ mem_q'.rs1_val = exe_q.rs1_val /\ mem_q'.rs2_val = exe_q.rs2_val
    BY <1>1, <1>2, <1>5, <2>1, <2>2, ExeOutFields DEF Ir
  <2>4. exe_q.rs1_val = After(exe_q.ir.rs1) /\ exe_q.rs2_val = After(exe_q.ir.rs2)
    BY <2>1 DEF OperandInv
  <2>5. \A r \in {exe_q.ir.rs1, exe_q.ir.rs2} : After(r)' = After(r)
    <3>1. SUFFICES ASSUME NEW r \in {exe_q.ir.rs1, exe_q.ir.rs2}  PROVE After(r)' = After(r)
      OBVIOUS
    <3>2. r \in Reg \cup {0} /\ ~(Alive(mem_q) /\ r # 0 /\ mem_q.ir.rd = r)
      BY <2>1, <2>2 DEF OperandInv
    <3>. QED  BY <1>3, <2>1, <3>2, AfterMoves
  <2>6. \A r : /\ r = mem_q'.ir.rs1 => (After(mem_q.ir.rs1))' = After(r)'
               /\ r = mem_q'.ir.rs2 => (After(mem_q.ir.rs2))' = After(r)'
    BY DEF After
  <2>7. (After(mem_q.ir.rs1))' = After(exe_q.ir.rs1) /\ (After(mem_q.ir.rs2))' = After(exe_q.ir.rs2)
    BY <2>3, <2>5, <2>6
  <2>. QED  BY <2>3, <2>4, <2>7
<1>6. ASSUME Alive(exe_q')
      PROVE  /\ (exe_q.rs1_val = After(exe_q.ir.rs1) /\ exe_q.rs2_val = After(exe_q.ir.rs2))'
             /\ Alive(mem_q') =>
                  \A r \in {exe_q'.ir.rs1, exe_q'.ir.rs2} : r # 0 => r # mem_q'.ir.rd
  <2>1. /\ exe_q' # None /\ Issuable(Candidate) /\ Candidate \in FetchPkt
        /\ exe_q' = IssueToken(Candidate)
    BY <1>6, IssueFacts DEF Alive
  <2>2. Candidate.inst.rs1 \in Reg \cup {0} /\ Candidate.inst.rs2 \in Reg \cup {0}
    <3>1. Candidate.inst \in Ir
      BY <2>1, CoreAssumption DEF FetchPkt
    <3>. QED  BY <3>1 DEF Ir
  <2>3. \A r \in {Candidate.inst.rs1, Candidate.inst.rs2} :
          Operand(r) = After(r)' /\ (Alive(exe_q) /\ r # 0 => r # exe_q.ir.rd)
    BY <1>3, <2>1, <2>2, OperandIsAfter DEF Issuable
  <2>4. /\ exe_q'.ir = Candidate.inst /\ exe_q'.rs1_val = Operand(Candidate.inst.rs1)
        /\ exe_q'.rs2_val = Operand(Candidate.inst.rs2)
    BY <2>1 DEF IssueToken
  <2>5. Alive(mem_q') => Alive(exe_q) /\ mem_q'.ir.rd = exe_q.ir.rd
    <3>1. SUFFICES ASSUME Alive(mem_q')  PROVE Alive(exe_q) /\ mem_q'.ir.rd = exe_q.ir.rd
      OBVIOUS
    <3>2. Alive(exe_q) /\ mem_q' = ExeOut(mip)
      BY <1>2, <3>1
    <3>3. mem_q'.ir = [exe_q.ir EXCEPT !.illegal = @ \/ CsrIllegal(exe_q.ir)] /\ exe_q.ir \in Ir
      BY <1>1, <3>2, ExeOutFields, BackendTypes DEF Alive, Token
    <3>. QED  BY <3>2, <3>3 DEF Ir
  <2>6. \A r : /\ r = exe_q'.ir.rs1 => (After(exe_q.ir.rs1))' = After(r)'
               /\ r = exe_q'.ir.rs2 => (After(exe_q.ir.rs2))' = After(r)'
    BY DEF After
  <2>7. /\ (After(exe_q.ir.rs1))' = Operand(Candidate.inst.rs1)
        /\ (After(exe_q.ir.rs2))' = Operand(Candidate.inst.rs2)
    BY <2>3, <2>4, <2>6
  <2>8. \A r \in {exe_q'.ir.rs1, exe_q'.ir.rs2} : r # 0 /\ Alive(exe_q) => r # exe_q.ir.rd
    BY <2>3, <2>4
  <2>. QED  BY <2>4, <2>5, <2>7, <2>8
<1>. QED  BY <1>4, <1>5, <1>6 DEF OperandInv

LEMMA OperandHolds ==
  ASSUME PathAndLink, OperandInv, done = None, Observe,
         NEW iresp, NEW resp, NEW mip, Holds(iresp, resp, mip)
  PROVE  OperandInv'
<1> SUFFICES ASSUME done' = None PROVE OperandInv'
  BY DEF OperandInv
<1>1. BackendTypeOK /\ CoreInv
  BY DEF PathAndLink, CoreInv, TypeOK
<1>2. WriteBack /\ ~Alive(wb_q') /\ exe_q' = exe_q /\ mem_q' = mem_q
  BY HoldFacts
<1>3. \A r \in Reg \cup {0} : After(r)' = After(r)
  <2>1. \A r \in Reg \cup {0} : Gpr(r)' = After(r)
    BY <1>1, <1>2, GoesOn, RegsCatchUp
  <2>2. \A r : After(r)' = Gpr(r)'
    BY <1>2 DEF After, Gpr
  <2>. QED  BY <2>1, <2>2
<1>4. /\ Alive(mem_q) => mem_q.ir.rs1 \in Reg \cup {0} /\ mem_q.ir.rs2 \in Reg \cup {0}
      /\ Alive(exe_q) => exe_q.ir.rs1 \in Reg \cup {0} /\ exe_q.ir.rs2 \in Reg \cup {0}
  BY <1>1, BackendTypes DEF Alive, Token, Ir
<1>. QED  BY <1>2, <1>3, <1>4 DEF OperandInv, Alive, After

-----------------------------------------------------------------------------
(* The results: what a token past EXE has computed.                         *)

Computed(t) ==
  /\ t.mem_addr = AluResult(t.ir, t.pc, t.rs1_val, t.rs2_val)
  /\ t.ir.fu_type = "BRANCH" => t.rd_value = NextPc(t.pc)
  /\ t.ir.fu_type \in {"INT", "SYSTEM"} => t.rd_value = t.mem_addr

CsrComputed(t, csr) ==
  t.ir.fu_type = "CSR" =>
    /\ \E mip \in SUBSET IrqLines : t.rd_value = ReadCsr(csr, t.ir.csr_addr, mip)
    /\ t.csr_new = CsrNew(t.ir, t.rd_value, CsrSource(t.ir, t.rs1_val))

StrayTarget(t) ==
  /\ BranchTaken(t.ir, t.rs1_val, t.rs2_val)
  /\ Misaligned(BranchTarget(t.ir, t.pc, t.rs1_val))

MemInv ==
  Alive(mem_q) =>
    /\ Computed(mem_q) /\ CsrComputed(mem_q, BeforeMem)
    /\ mem_q.halt_kind = IF StrayTarget(mem_q) THEN "MISALIGN_PC" ELSE "NONE"

\* EXE computes what the instruction is, as the instructions before it left the CSRs.
LEMMA MemMoves ==
  ASSUME PreciseIrqs, CsrInv, acsr' = BeforeMem,
         NEW iresp \in ImemResp, NEW resp \in DmemResp, NEW mip \in Mip,
         Moves(iresp, resp, mip)
  PROVE  MemInv'
<1> SUFFICES ASSUME Alive(mem_q') PROVE MemInv'
  BY DEF MemInv
<1>1. /\ mip \in SUBSET IrqLine /\ mip \in SUBSET IrqLines
      /\ PathAndLink /\ TokenInv /\ BackendTypeOK
  BY InputTypes DEF PathAndLink, CsrInv, CoreInv, TypeOK, Mip
<1>2. Alive(exe_q) /\ mem_q' = ExeOut(mip) /\ csr_q = BeforeMem'
  BY <1>1, MoveFacts, CsrAtMove
<1>3. exe_q.pc \in Word /\ exe_q.ir = CodeAt(exe_q.pc) /\ exe_q.halt_kind = "NONE"
  BY <1>1, <1>2, BackendTypes DEF TokenInv, Alive, Token
<1> DEFINE t == mem_q'
           ir == t.ir
<1>4. /\ t.pc = exe_q.pc /\ ir = PastExe(CodeAt(exe_q.pc))
      /\ t.rs1_val = exe_q.rs1_val /\ t.rs2_val = exe_q.rs2_val
      /\ t.rd_value = ExeRdValue(mip) /\ t.csr_new = ExeCsrNew(mip)
      /\ t.mem_addr = AluResult(exe_q.ir, exe_q.pc, exe_q.rs1_val, exe_q.rs2_val)
      /\ t.halt_kind = IF /\ ExeTakesBranch
                          /\ Misaligned(BranchTarget(exe_q.ir, exe_q.pc, exe_q.rs1_val))
                       THEN "MISALIGN_PC" ELSE "NONE"
  BY <1>1, <1>2, <1>3, ExeOutFields DEF PastExe
<1> HIDE DEF ir, t
<1>5. /\ ir.fu_type = exe_q.ir.fu_type /\ ir.sys_kind = exe_q.ir.sys_kind
      /\ ir.branch_op = exe_q.ir.branch_op /\ ir.imm = exe_q.ir.imm
      /\ ir.alu_op1_sel = exe_q.ir.alu_op1_sel
      /\ ir.rs1 = exe_q.ir.rs1 /\ ir.rs2 = exe_q.ir.rs2
      /\ ir.csr_addr = exe_q.ir.csr_addr
  BY <1>1, <1>3, <1>4, PastExeFacts
<1>6. /\ \A v, u : AluResult(ir, exe_q.pc, v, u) = AluResult(exe_q.ir, exe_q.pc, v, u)
      /\ \A v, u : BranchTaken(ir, v, u) <=> BranchTaken(exe_q.ir, v, u)
      /\ \A v : BranchTarget(ir, exe_q.pc, v) = BranchTarget(exe_q.ir, exe_q.pc, v)
      /\ \A old, v : CsrNew(ir, old, CsrSource(ir, v)) = CsrNew(exe_q.ir, old, CsrSource(exe_q.ir, v))
  BY <1>5 DEF BranchTaken, BranchTarget, AluResult, AluLhs, CsrNew, CsrSource
<1>7. /\ t.ir = ir /\ t.mem_addr = AluResult(ir, t.pc, t.rs1_val, t.rs2_val)
      /\ t.ir.fu_type \in {"INT", "SYSTEM"} => t.rd_value = t.mem_addr
      /\ t.ir.fu_type = "BRANCH" => t.rd_value = NextPc(t.pc)
  BY <1>4, <1>5, <1>6 DEF ExeRdValue, ir
<1>8. CsrComputed(t, csr_q)
  <2> SUFFICES ASSUME ir.fu_type = "CSR" PROVE CsrComputed(t, csr_q)
    BY DEF CsrComputed, ir
  <2>1. t.rd_value = ReadCsr(csr_q, ir.csr_addr, mip)
    BY <1>4, <1>5 DEF ExeRdValue
  <2>2. t.csr_new = CsrNew(ir, t.rd_value, CsrSource(ir, t.rs1_val))
    BY <1>4, <1>5, <1>6, <2>1 DEF ExeCsrNew
  <2>. QED  BY <1>1, <1>7, <2>1, <2>2 DEF CsrComputed
<1>9. t.halt_kind = IF StrayTarget(t) THEN "MISALIGN_PC" ELSE "NONE"
  BY <1>4, <1>6, <1>7 DEF StrayTarget, ExeTakesBranch
<1>10. /\ Computed(mem_q') /\ CsrComputed(mem_q', csr_q)
       /\ mem_q'.halt_kind = IF StrayTarget(mem_q') THEN "MISALIGN_PC" ELSE "NONE"
  BY <1>7, <1>8, <1>9 DEF Computed, t
<1>. QED  BY <1>2, <1>10 DEF MemInv, Computed, CsrComputed, StrayTarget

LEMMA MemHolds ==
  ASSUME MemInv, acsr' = BeforeMem, NEW iresp, NEW resp, NEW mip, Holds(iresp, resp, mip)
  PROVE  MemInv'
<1>1. mem_q' = mem_q /\ ~Alive(wb_q')
  BY HoldFacts
<1>2. BeforeMem' = BeforeMem
  BY <1>1 DEF BeforeMem, CsrEffect
<1>. QED  BY <1>1, <1>2 DEF MemInv, Computed, CsrComputed, StrayTarget, Alive

-----------------------------------------------------------------------------
(* The verdict: what MEM has found when it hands an instruction to WB,      *)
(* given the CSRs, the memory and the trap flag after the commits before it.*)

Retires(t, mem) ==
  /\ t.trap_cause = None /\ t.halt_kind = "NONE"
  /\ ~t.ir.illegal /\ ~t.ir.if_bus_error /\ t.ir.sys_kind \notin {"ECALL", "EBREAK"}
  /\ ~StrayTarget(t)
  /\ IsMem(t.ir) => ~Misaligned(t.mem_addr) /\ t.mem_addr \in DAddr
  /\ IsLoad(t.ir) => t.rd_value = mem[t.mem_addr]

\* A trap is due, and first is whether the handler has been entered just now.
TrapDue(t, csr) ==
  /\ ~t.ir.illegal /\ ~t.ir.if_bus_error
  /\ t.ir.sys_kind = "ECALL" \/ EnabledIrqs(csr, IrqLines) # {}

CauseFound(t, csr) ==
  \/ t.ir.sys_kind = "ECALL" /\ t.trap_cause = CAUSE_ECALL
  \/ \E line \in EnabledIrqs(csr, IrqLines) : t.trap_cause = AsyncCauseOf(line)

TrapsNow(t, csr, first) ==
  /\ t.trap_cause # None /\ t.halt_kind = "NONE"
  /\ ~t.ir.illegal /\ ~t.ir.if_bus_error /\ ~first
  /\ CauseFound(t, csr)

HaltsNow(t, csr, first) ==
  /\ t.trap_cause = None
  /\ \/ t.halt_kind = "MISALIGN_PC" /\ StrayTarget(t)
     \/ t.halt_kind = "BUS_ERROR_IF" /\ ~StrayTarget(t) /\ t.ir.if_bus_error
     \/ t.halt_kind = "ILLEGAL" /\ ~StrayTarget(t) /\ ~t.ir.if_bus_error /\ t.ir.illegal
     \/ /\ ~t.ir.if_bus_error /\ ~t.ir.illegal
        /\ \/ t.halt_kind = "VOLUNTARY" /\ t.ir.sys_kind = "EBREAK"
           \/ t.halt_kind = "DOUBLE_TRAP" /\ first /\ TrapDue(t, csr)
                /\ t.ir.sys_kind # "MRET" /\ t.ir.fu_type # "CSR"
           \/ IsLoad(t.ir) /\ t.halt_kind = "MISALIGN_LD" /\ Misaligned(t.mem_addr)
           \/ IsStore(t.ir) /\ t.halt_kind = "MISALIGN_ST" /\ Misaligned(t.mem_addr)
           \/ /\ ~Misaligned(t.mem_addr) /\ t.mem_addr \notin DAddr
              /\ \/ IsLoad(t.ir) /\ t.halt_kind = "BUS_ERROR_LD"
                 \/ IsStore(t.ir) /\ t.halt_kind = "BUS_ERROR_ST"

Verdict(t, csr, mem, first) ==
  Retires(t, mem) \/ TrapsNow(t, csr, first) \/ HaltsNow(t, csr, first)

WbInv ==
  Alive(wb_q) =>
    /\ Computed(wb_q) /\ CsrComputed(wb_q, acsr)
    /\ Verdict(wb_q, acsr, amem, last_step_entered_trap_q /\ wb_q.pc = acsr["mtvec"])

\* The cause of a trap is an enabled interrupt line or the instruction.
LEMMA CauseFacts ==
  /\ CAUSE_ECALL # None /\ \A line : AsyncCauseOf(line) # None
  /\ \A csr, mip : AsyncCause(csr, mip) # None =>
       \E line \in EnabledIrqs(csr, mip) : AsyncCause(csr, mip) = AsyncCauseOf(line)
  /\ \A csr : \A mip \in SUBSET IrqLines : EnabledIrqs(csr, mip) \subseteq EnabledIrqs(csr, IrqLines)
<1>1. \A n \in 0 .. 7 : n # None
  BY WordFacts, ResponseAssumption
<1>2. CAUSE_ECALL \in 0 .. 7 /\ \A line : AsyncCauseOf(line) \in 0 .. 7
  BY DEF CAUSE_ECALL, AsyncCauseOf
<1>3. \A csr, mip : AsyncCause(csr, mip) # None =>
        \E line \in EnabledIrqs(csr, mip) : AsyncCause(csr, mip) = AsyncCauseOf(line)
  BY DEF AsyncCause
<1>4. \A csr : \A mip \in SUBSET IrqLines :
        EnabledIrqs(csr, mip) \subseteq EnabledIrqs(csr, IrqLines)
  BY DEF EnabledIrqs
<1>. QED  BY <1>1, <1>2, <1>3, <1>4

\* MEM decides between a trap and a double trap as the commits before it would.
LEMMA TrapDecision ==
  ASSUME PreciseIrqs, CsrInv, EnterInv, acsr' = BeforeMem,
         NEW iresp \in ImemResp, NEW resp \in DmemResp, NEW mip \in Mip,
         Moves(iresp, resp, mip), Traps(mip)
  PROVE  TakeTrap(mip) <=> ~(last_step_entered_trap_q' /\ mem_q.pc = acsr'["mtvec"])
<1>1. csr_q = acsr' /\ Alive(mem_q)
  BY CsrAtMove DEF Traps, MemAlive
<1>2. WriteBack
  BY MoveFacts DEF CsrInv
<1>3. last_step_entered_trap_q' <=> last_step_entered_trap_q
  <2>1. ~TrapsInWb
    BY <1>1 DEF EnterInv, Fresh
  <2>2. last_step_entered_trap_q => ~Alive(wb_q)
    BY <1>1, HandlerIsAlone
  <2>. QED  BY <1>2, <2>1, <2>2 DEF WriteBack, CommitValid, TrapsInWb
<1>. QED  BY <1>1, <1>3 DEF TakeTrap, DoubleTrap

\* An access that leaves MEM without a trap or a halt found before has been answered
\* as the commits before it would answer it.
LEMMA AccessLeaves ==
  ASSUME PreciseIrqs, CsrInv, DmemInv, done = None, RecordCommit,
         NEW resp \in DmemResp, NEW mip \in Mip, ~MemStall(resp, mip),
         Alive(mem_q), IsMem(mem_q.ir), ~TakeTrap(mip), ~TakeHalt(mip)
  PROVE  /\ ~Misaligned(mem_q.mem_addr) /\ resp # None
         /\ BusError(resp) <=> mem_q.mem_addr \notin DAddr
         /\ IsLoad(mem_q.ir) /\ mem_q.mem_addr \in DAddr => resp.rdata = amem'[mem_q.mem_addr]
<1>1. IsMemory /\ ~MemMisaligned
  BY DEF IsMemory, MemAlive, TakeHalt, PreHalt
<1>2. Answered(resp) /\ req_sent_q
  BY <1>1 DEF MemStall, Answered
<1>3. resp = Head(dresp) /\ dresp # <<>>
  BY <1>2 DEF Answered, DmemResp
<1>4. amem' = StoreEffect(amem, wb_q)
  BY CommitStores DEF CsrInv, DmemInv
<1>5. IsLoad(mem_q.ir) => dmem = amem'
  <2>1. IsLoad(mem_q.ir) => StoreEffect(amem', mem_q) = amem'
    BY DEF StoreEffect, IsLoad, IsStore
  <2>. QED  BY <1>2, <1>4, <2>1 DEF DmemInv, DmemRunsAhead
<1>. QED  BY <1>1, <1>2, <1>3, <1>5 DEF DmemInv, AnswerInv, BusError, Answered, MemMisaligned

LEMMA WbMoves ==
  ASSUME PreciseIrqs, CsrInv, DmemInv, EnterInv, MemInv, done = None, RecordCommit,
         NEW iresp \in ImemResp, NEW resp \in DmemResp, NEW mip \in Mip,
         Moves(iresp, resp, mip)
  PROVE  WbInv'
<1> SUFFICES ASSUME Alive(wb_q') PROVE WbInv'
  BY DEF WbInv
<1> DEFINE t     == wb_q'
           m     == mem_q
           first == last_step_entered_trap_q' /\ mem_q.pc = acsr'["mtvec"]
<1>1. /\ resp \in Response \cup {None} /\ mip \in SUBSET IrqLine /\ mip \in SUBSET IrqLines
      /\ PathAndLink /\ TokenInv /\ BackendTypeOK /\ CoreInv
  BY InputTypes DEF PathAndLink, CsrInv, CoreInv, TypeOK, Mip
<1>2. acsr' = BeforeMem
  BY CommitEffect
<1>3. Alive(mem_q) /\ wb_q' = MemOut(resp, mip) /\ ~MemStall(resp, mip) /\ mem_q.trap_cause = None
  BY <1>1, MoveFacts DEF TokenInv, Alive
<1>4. /\ t.pc = m.pc /\ t.ir = m.ir
      /\ t.rs1_val = m.rs1_val /\ t.rs2_val = m.rs2_val
      /\ t.mem_addr = m.mem_addr /\ t.csr_new = m.csr_new
      /\ t.rd_value = IF IsLoad(m.ir) /\ resp # None THEN resp.rdata ELSE m.rd_value
      /\ t.trap_cause = IF TakeTrap(mip) THEN PendingCause(mip) ELSE None
      /\ t.halt_kind = IF BusError(resp)
                       THEN IF IsStore(m.ir) THEN "BUS_ERROR_ST" ELSE "BUS_ERROR_LD"
                       ELSE IF TakeHalt(mip) THEN HaltKindOf(mip) ELSE m.halt_kind
  BY <1>1, <1>3, MemOutFields
<1>5. /\ Computed(m) /\ CsrComputed(m, acsr')
      /\ m.halt_kind = IF StrayTarget(m) THEN "MISALIGN_PC" ELSE "NONE"
  BY <1>2, <1>3 DEF MemInv
<1> HIDE DEF t
<1>6. /\ Traps(mip) => csr_q = acsr' /\ (TakeTrap(mip) <=> ~first)
      /\ Traps(mip) => m.ir.sys_kind # "MRET" /\ m.ir.fu_type # "CSR"
  BY <1>1, <1>2, CsrAtMove, TrapDecision, TrapsBeforeEffect
<1> HIDE DEF first
<1>7. /\ req_sent_q => ~TakeTrap(mip) /\ ~TakeHalt(mip)
      /\ BusError(resp) => req_sent_q
  BY SentIsSafe DEF DmemInv, BusError, Answered
<1>8. IsMem(m.ir) /\ ~TakeTrap(mip) /\ ~TakeHalt(mip) =>
        /\ ~Misaligned(m.mem_addr) /\ resp # None
        /\ BusError(resp) <=> m.mem_addr \notin DAddr
        /\ IsLoad(m.ir) /\ m.mem_addr \in DAddr => resp.rdata = amem'[m.mem_addr]
  BY <1>3, AccessLeaves
<1>9. StrayTarget(t) <=> StrayTarget(m)
  BY <1>4 DEF StrayTarget
<1>10. Computed(t) /\ CsrComputed(t, acsr')
  BY <1>4, <1>5 DEF Computed, CsrComputed, IsLoad
<1>11. PreHalt <=> \/ StrayTarget(m) \/ m.ir.if_bus_error \/ m.ir.illegal
                   \/ m.ir.sys_kind = "EBREAK" \/ (IsMem(m.ir) /\ Misaligned(m.mem_addr))
  BY <1>3, <1>5 DEF PreHalt, MemMisaligned, IsMemory, MemAlive
<1>12. Traps(mip) => TrapDue(m, acsr') /\ PendingCause(mip) # None /\ ~PreHalt
  <2> SUFFICES ASSUME Traps(mip) PROVE TrapDue(m, acsr') /\ PendingCause(mip) # None /\ ~PreHalt
    OBVIOUS
  <2>1. PendingCause(mip) # None /\ ~PreHalt
    BY DEF Traps
  <2>2. m.ir.sys_kind = "ECALL" \/ AsyncCause(csr_q, mip) # None
    BY <2>1 DEF PendingCause
  <2>3. AsyncCause(csr_q, mip) # None => EnabledIrqs(csr_q, IrqLines) # {}
    BY <1>1, CauseFacts
  <2>. QED  BY <1>6, <1>11, <2>1, <2>2, <2>3 DEF TrapDue
<1>13. ASSUME TakeTrap(mip) PROVE Verdict(t, acsr', amem', first)
  <2>1. Traps(mip) /\ ~TakeHalt(mip) /\ ~BusError(resp) /\ ~first /\ ~PreHalt
    BY <1>6, <1>7, <1>12, <1>13 DEF TakeTrap, TakeHalt
  <2>2. t.trap_cause = PendingCause(mip) /\ t.trap_cause # None /\ t.halt_kind = "NONE"
    BY <1>4, <1>5, <1>11, <1>12, <1>13, <2>1
  <2>3. CauseFound(t, acsr')
    <3>1. CASE AsyncCause(csr_q, mip) # None
      <4>1. \E line \in EnabledIrqs(csr_q, IrqLines) : AsyncCause(csr_q, mip) = AsyncCauseOf(line)
        BY <1>1, <3>1, CauseFacts
      <4>. QED  BY <1>6, <2>1, <2>2, <3>1, <4>1 DEF CauseFound, PendingCause
    <3>2. CASE AsyncCause(csr_q, mip) = None
      BY <1>4, <2>2, <3>2 DEF CauseFound, PendingCause
    <3>. QED  BY <3>1, <3>2
  <2>. QED  BY <1>4, <1>11, <2>1, <2>2, <2>3 DEF Verdict, TrapsNow
<1>14. ASSUME DoubleTrap(mip) PROVE Verdict(t, acsr', amem', first)
  <2>1. Traps(mip) /\ TakeHalt(mip) /\ ~BusError(resp) /\ first /\ ~PreHalt /\ ~TakeTrap(mip)
    BY <1>6, <1>7, <1>12, <1>14 DEF DoubleTrap, TakeTrap, TakeHalt
  <2>2. t.trap_cause = None /\ t.halt_kind = "DOUBLE_TRAP"
    BY <1>4, <1>14, <2>1 DEF HaltKindOf
  <2>3. TrapDue(t, acsr')
    BY <1>4, <1>12, <2>1 DEF TrapDue
  <2>. QED  BY <1>4, <1>6, <1>11, <2>1, <2>2, <2>3 DEF Verdict, HaltsNow
<1>15. ASSUME PreHalt PROVE Verdict(t, acsr', amem', first)
  <2>1. TakeHalt(mip) /\ ~Traps(mip) /\ ~TakeTrap(mip) /\ ~DoubleTrap(mip) /\ ~BusError(resp)
    BY <1>3, <1>7, <1>15 DEF TakeHalt, Traps, TakeTrap, DoubleTrap, MemAlive
  <2>2. t.trap_cause = None /\ t.halt_kind = HaltKindOf(mip)
    BY <1>4, <2>1
  <2>3. HaltKindOf(mip) =
          IF StrayTarget(m) THEN "MISALIGN_PC" ELSE IF m.ir.if_bus_error THEN "BUS_ERROR_IF"
          ELSE IF m.ir.illegal THEN "ILLEGAL" ELSE IF m.ir.sys_kind = "EBREAK" THEN "VOLUNTARY"
          ELSE IF IsStore(m.ir) THEN "MISALIGN_ST" ELSE "MISALIGN_LD"
    BY <1>5, <2>1 DEF HaltKindOf
  <2>. QED  BY <1>4, <1>9, <1>11, <1>15, <2>2, <2>3 DEF Verdict, HaltsNow, IsMem
<1>16. ASSUME ~TakeTrap(mip) /\ ~DoubleTrap(mip) /\ ~PreHalt PROVE Verdict(t, acsr', amem', first)
  <2>1. ~TakeHalt(mip) /\ ~Traps(mip)
    BY <1>16 DEF TakeHalt, TakeTrap
  <2>2. m.ir.sys_kind # "ECALL"
    BY <1>3, <1>16, <2>1, CauseFacts DEF Traps, MemAlive, PendingCause
  <2>3. CASE BusError(resp)
    <3>1. IsMem(m.ir)
      BY <2>3 DEF BusError, IsMemory
    <3>2. /\ t.trap_cause = None
          /\ t.halt_kind = IF IsStore(m.ir) THEN "BUS_ERROR_ST" ELSE "BUS_ERROR_LD"
      BY <1>4, <1>16, <2>3
    <3>. QED  BY <1>4, <1>8, <1>11, <1>16, <2>1, <2>3, <3>1, <3>2 DEF Verdict, HaltsNow, IsMem
  <2>4. CASE ~BusError(resp)
    <3>1. t.trap_cause = None /\ t.halt_kind = "NONE"
      BY <1>4, <1>5, <1>11, <1>16, <2>1, <2>4
    <3>2. IsMem(m.ir) => ~Misaligned(m.mem_addr) /\ m.mem_addr \in DAddr
      BY <1>8, <1>16, <2>1, <2>4
    <3>3. IsLoad(m.ir) => t.rd_value = amem'[m.mem_addr]
      BY <1>4, <1>8, <1>16, <2>1, <3>2 DEF IsMem
    <3>. QED  BY <1>4, <1>9, <1>11, <1>16, <2>2, <3>1, <3>2, <3>3 DEF Verdict, Retires
  <2>. QED  BY <2>3, <2>4
<1>17. Verdict(t, acsr', amem', first)
  BY <1>13, <1>14, <1>15, <1>16
<1>18. Verdict(t, acsr', amem', last_step_entered_trap_q' /\ t.pc = acsr'["mtvec"])
  BY <1>4, <1>17 DEF first
<1>. QED  BY <1>10, <1>18 DEF WbInv, t

-----------------------------------------------------------------------------
(* The words that are no instructions, which the core acts on before it     *)
(* finds out.                                                               *)

LEMMA StrayWords ==
  ASSUME NEW w \in Packet
  PROVE  /\ Decode(w).if_bus_error = Meaning(w).if_bus_error
         /\ Decode(w).fu_type = "BRANCH" <=> Meaning(w).fu_type = "BRANCH"
         /\ Decode(w).fu_type = "BRANCH" =>
              /\ Decode(w).illegal => Decode(w).branch_op # "EQ"
              /\ Decode(w).branch_op = "JALR" <=> Meaning(w).branch_op = "JALR"
              /\ Decode(w).imm = Meaning(w).imm /\ Decode(w).rs1 = Meaning(w).rs1
         /\ Decode(w).sys_kind = "MRET" <=> Meaning(w).sys_kind = "MRET"
         /\ CsrIllegal(Decode(w)) <=> CsrIllegal(Meaning(w))
         /\ Decode(w).fu_type = "STORE" => Decode(w).rd = 0
<1> USE DEF PrivOp
<1>1. /\ Meaning(w).if_bus_error = w.error /\ Meaning(w).fu_type = UnitOf(w)
      /\ Meaning(w).sys_kind = KindOf(w)
      /\ Meaning(w).imm = IF HasImm(w) THEN w.imm ELSE 0
      /\ Meaning(w).rs1 = IF ReadsRs1(w) THEN w.rs1 ELSE 0
      /\ Meaning(w).branch_op = IF w.opcode = "BRANCH" THEN "EQ"
                                ELSE IF w.opcode = "JALR" THEN "JALR" ELSE "JUMP"
  BY DEF Meaning
<1>2. Decode(w).if_bus_error = w.error /\ UnitsApart(Decode(w))
  BY DecodeApart
<1>3. CASE w.opcode \in {"BRANCH", "JAL", "JALR"}
  <2>1. /\ Decode(w).fu_type = "BRANCH" /\ Decode(w).sys_kind = "NOT" /\ Decode(w).imm = w.imm
        /\ Decode(w).rs1 = IF w.opcode = "JAL" THEN 0 ELSE w.rs1
        /\ Decode(w).branch_op = IF w.opcode = "JALR" THEN "JALR"
                                 ELSE IF w.opcode = "JAL" \/ w.funct3 \in {2, 3} THEN "JUMP" ELSE "EQ"
        /\ Decode(w).illegal => w.opcode # "BRANCH" \/ w.funct3 \in {2, 3}
    BY <1>3 DEF Decode, DecodeBranch, DecodeJal, DecodeJalr, Defaults
  <2>2. UnitOf(w) = "BRANCH" /\ KindOf(w) = "NOT" /\ HasImm(w) /\ (ReadsRs1(w) <=> w.opcode # "JAL")
    BY <1>3 DEF UnitOf, KindOf, IsPriv, IsCsr, HasImm, IsCsrImm, ReadsRs1
  <2>. QED  BY <1>1, <1>2, <1>3, <2>1, <2>2 DEF CsrIllegal
<1>4. CASE w.opcode \in {"OP", "OP_IMM", "AUIPC", "LUI", "MISC_MEM", "other", "LOAD", "STORE"}
  <2>1. /\ Decode(w).fu_type \in {"INT", "LOAD", "STORE"} /\ Decode(w).sys_kind = "NOT"
        /\ Decode(w).fu_type = "STORE" => Decode(w).rd = 0
    BY <1>4 DEF Decode, DecodeOp, DecodeOpImm, DecodeUpper, DecodeMiscMem, DecodeLoad, DecodeStore,
                Defaults
  <2>2. UnitOf(w) \in {"INT", "LOAD", "STORE"} /\ KindOf(w) = "NOT"
    BY <1>4 DEF UnitOf, KindOf, IsPriv, IsCsr
  <2>. QED  BY <1>1, <1>2, <2>1, <2>2 DEF CsrIllegal
<1>5. CASE w.opcode = "SYSTEM" /\ w.funct3 \in {1, 2, 3, 5, 6, 7}
  <2>1. Executes(w)
    BY <1>5 DEF Executes, IsInstruction, Funct3s, IsPriv
  <2>2. Decode(w) = Meaning(w) /\ UnitOf(w) = "CSR"
    BY <1>5, <2>1, DecodesIsa DEF UnitOf, IsPriv, IsCsr
  <2>. QED  BY <1>1, <2>2
<1>6. CASE w.opcode = "SYSTEM" /\ w.funct3 \in {0, 4}
  <2>1. /\ Decode(w).fu_type = "SYSTEM"
        /\ Decode(w).sys_kind = "MRET" <=> w.funct3 = 0 /\ w.funct12 = "MRET"
    <3>1. Decode(w) = DecodeSystem(w)
      BY <1>6 DEF Decode
    <3>2. CASE w.funct3 = 0
      <4>1. Decode(w) = DecodePriv(w)
        BY <3>1, <3>2 DEF DecodeSystem
      <4>. QED  BY <3>2, <4>1 DEF DecodePriv, Defaults
    <3>3. CASE w.funct3 = 4
      <4>1. Decode(w) = [Defaults(w) EXCEPT !.fu_type = "SYSTEM", !.illegal = TRUE]
        BY <3>1, <3>3 DEF DecodeSystem
      <4>. QED  BY <3>3, <4>1 DEF Defaults
    <3>. QED  BY <1>6, <3>2, <3>3
  <2>2. /\ UnitOf(w) \in {"SYSTEM", "INT"}
        /\ KindOf(w) = "MRET" <=> w.funct3 = 0 /\ w.funct12 = "MRET"
    BY <1>6 DEF UnitOf, KindOf, IsPriv, IsCsr
  <2>. QED  BY <1>1, <1>2, <2>1, <2>2 DEF CsrIllegal
<1>7. w.opcode \in Opcode /\ w.funct3 \in 0 .. 7
  BY DEF Packet
<1>. QED  BY <1>3, <1>4, <1>5, <1>6, <1>7 DEF Opcode

-----------------------------------------------------------------------------
(* The reference machine has the same datapath.                             *)

LEMMA RefDatapath ==
  /\ \A ir : /\ Ref!IsLoad(ir) <=> IsLoad(ir)
             /\ Ref!IsStore(ir) <=> IsStore(ir)
             /\ Ref!CsrIllegal(ir) <=> CsrIllegal(ir)
  /\ \A ir, p, v, u : Ref!AluResult(ir, p, v, u) = AluResult(ir, p, v, u)
  /\ \A ir, v, u : Ref!BranchTaken(ir, v, u) <=> BranchTaken(ir, v, u)
  /\ \A ir, p, v : Ref!BranchTarget(ir, p, v) = BranchTarget(ir, p, v)
  /\ \A a : (Ref!Misaligned(a) <=> Misaligned(a)) /\ Ref!NextPc(a) = NextPc(a)
BY DEF Ref!IsLoad, IsLoad, Ref!IsStore, IsStore, Ref!CsrIllegal, CsrIllegal, Ref!Recognised,
       Recognised, Ref!Writable, Writable, Ref!AluResult, AluResult, Ref!AluLhs, AluLhs,
       Ref!Add, Add, Ref!BranchTaken, BranchTaken, Ref!BranchTarget, BranchTarget,
       Ref!Misaligned, Misaligned, Ref!NextPc, NextPc

LEMMA RefCsrs ==
  /\ Ref!CsrReset = CsrReset /\ Ref!CAUSE_ECALL = CAUSE_ECALL
  /\ \A csr, c, mip : Ref!ReadCsr(csr, c, mip) = ReadCsr(csr, c, mip)
  /\ \A ir, old, source : Ref!CsrNew(ir, old, source) = CsrNew(ir, old, source)
  /\ \A ir, v : Ref!CsrSource(ir, v) = CsrSource(ir, v)
  /\ \A csr, c, w : Ref!WriteCsr(csr, c, w) = WriteCsr(csr, c, w)
  /\ \A csr : Ref!MretExit(csr) = MretExit(csr)
  /\ \A csr, p, cause : Ref!TrapEntry(csr, p, cause) = TrapEntry(csr, p, cause)
  /\ \A line : Ref!AsyncCauseOf(line) = AsyncCauseOf(line)
  /\ \A csr, lines : Ref!EnabledIrqs(csr, lines) = EnabledIrqs(csr, lines)
BY DEF Ref!CsrReset, CsrReset, Ref!CsrReg, CsrReg, Ref!CAUSE_ECALL, CAUSE_ECALL,
       Ref!ReadCsr, ReadCsr, Ref!WordOf, WordOf, Ref!Bits, Bits, Ref!Word, Word,
       Ref!CsrNew, CsrNew, Ref!CsrSource, CsrSource, Ref!WriteCsr, WriteCsr,
       Ref!MaskWrite, MaskWrite, Ref!MretExit, MretExit, Ref!TrapEntry, TrapEntry,
       Ref!MPIE, MPIE, Ref!MIE, MIE, Ref!MieSet, MieSet, Ref!MpieSet, MpieSet,
       Ref!AsyncCauseOf, AsyncCauseOf, Ref!MSIP, MSIP, Ref!MTIP, MTIP,
       Ref!EnabledIrqs, EnabledIrqs

LEMMA RefMeaning ==
  \A w : Ref!Meaning(w) = Meaning(w) /\ (Ref!Executes(w) <=> Executes(w))
BY DEF Ref!Meaning, Meaning, Ref!Executes, Executes, Ref!IsInstruction, IsInstruction,
       Ref!Tolerated, Tolerated, Ref!Funct3s, Funct3s, Ref!IsPriv, IsPriv, Ref!IsCsr, IsCsr,
       Ref!IsCsrImm, IsCsrImm, Ref!PrivOp, PrivOp, Ref!UnitOf, UnitOf, Ref!KindOf, KindOf,
       Ref!ReadsRs1, ReadsRs1, Ref!ReadsRs2, ReadsRs2, Ref!WritesRd, WritesRd,
       Ref!HasImm, HasImm, Ref!CsrAddr, CsrAddr, Ref!CsrReg, CsrReg, Ref!WritesCsr, WritesCsr

-----------------------------------------------------------------------------
(* The commit of a token is one step of the reference machine.              *)

IssInv ==
  /\ CsrInv /\ acsr \in CsrFile /\ DmemInv
  /\ ChainInv /\ EnterInv /\ ReadyInv /\ OperandInv /\ MemInv /\ WbInv

\* The instruction a token carries to WB, beside that the reference machine fetches:
\* they agree, but for a word that is none in what the core never reads of it.
CodeFits(own, ir) ==
  /\ own \in Ir /\ (own.fu_type = "STORE" => own.rd = 0)
  /\ own.fu_type = "CSR" => own.sys_kind \notin PrivOp
  /\ own.sys_kind \in PrivOp => own.fu_type = "SYSTEM"
  /\ own.fu_type = "SYSTEM" => own.rd = 0 /\ (~own.illegal => own.sys_kind \in PrivOp)
  /\ ir.if_bus_error = own.if_bus_error
  /\ own.if_bus_error => own.illegal /\ own.fu_type = "INT" /\ own.sys_kind = "NOT"
  /\ own.illegal <=> ir.illegal \/ CsrIllegal(ir)
  /\ own.sys_kind = "MRET" <=> ir.sys_kind = "MRET"
  /\ own.fu_type = "BRANCH" <=> ir.fu_type = "BRANCH"
  /\ own.fu_type = "BRANCH" =>
       /\ own.illegal => own.branch_op # "EQ"
       /\ ir.rs1 = own.rs1
       /\ \A p, v : BranchTarget(ir, p, v) = BranchTarget(own, p, v)
  /\ ~own.illegal => ir = own /\ ir.illegal = FALSE /\ ~CsrIllegal(ir)

LEMMA CommitCode ==
  ASSUME IssInv, Alive(wb_q), ArchPc = wb_q.pc, NEW ir, ir = Ref!Fetched, NEW own, own = wb_q.ir
  PROVE  CodeFits(own, ir)
<1> DEFINE w == imem[wb_q.pc]
           d == Decode(w)
           m == Meaning(w)
<1>1. PathAndLink /\ TokenInv /\ wb_q.pc \in Word
  BY BackendTypes DEF IssInv, CsrInv, PathAndLink, CoreInv, TypeOK, Alive, Token
<1>2. /\ w \in Packet /\ CodeAt(wb_q.pc) = d /\ d \in Ir /\ own = PastExe(CodeAt(wb_q.pc))
      /\ w.error => w.opcode = "other"
  <2>1. imem \in Programs
    BY <1>1 DEF PathAndLink, LinkInv
  <2>. QED  BY <1>1, <2>1, CodeFacts, CoreAssumption DEF TokenInv
<1>3. ir = [m EXCEPT !.illegal = ~Executes(w)]
  BY RefMeaning DEF Ref!Fetched
<1>4. /\ m.illegal = FALSE
      /\ ir.fu_type = m.fu_type /\ ir.sys_kind = m.sys_kind /\ ir.branch_op = m.branch_op
      /\ ir.rs1 = m.rs1 /\ ir.imm = m.imm /\ ir.illegal = ~Executes(w)
      /\ ir.if_bus_error = m.if_bus_error
      /\ ir.csr_addr = m.csr_addr /\ ir.csr_writes = m.csr_writes
      /\ Executes(w) => ir = m
  BY <1>3 DEF Meaning
<1> HIDE DEF w, d, m
<1>5. /\ own \in Ir /\ own.illegal = (d.illegal \/ CsrIllegal(d))
      /\ own.fu_type = d.fu_type /\ own.sys_kind = d.sys_kind
      /\ own.branch_op = d.branch_op /\ own.rs1 = d.rs1 /\ own.rd = d.rd /\ own.imm = d.imm
      /\ own.if_bus_error = d.if_bus_error
  BY <1>1, <1>2, PastExeFacts
<1>6. /\ d.if_bus_error = m.if_bus_error
      /\ d.fu_type = "BRANCH" <=> m.fu_type = "BRANCH"
      /\ d.fu_type = "BRANCH" =>
           /\ d.illegal => d.branch_op # "EQ"
           /\ d.branch_op = "JALR" <=> m.branch_op = "JALR"
           /\ d.imm = m.imm /\ d.rs1 = m.rs1
      /\ d.sys_kind = "MRET" <=> m.sys_kind = "MRET"
      /\ CsrIllegal(d) <=> CsrIllegal(m)
      /\ d.fu_type = "STORE" => d.rd = 0
  BY <1>2, StrayWords DEF d, m
<1>7. /\ UnitsApart(d) /\ d.if_bus_error = w.error
      /\ w.opcode = "other" => d.fu_type = "INT" /\ d.sys_kind = "NOT"
  BY <1>2, DecodeApart DEF d
<1>8. /\ d.illegal <=> ~Executes(w)
      /\ Executes(w) => d = m
  BY <1>2, DecodesIsa DEF d, m
<1>9. w.opcode = "other" => ~Executes(w)
  BY DEF Executes, IsInstruction, Tolerated, Funct3s
<1>10. CsrIllegal(ir) <=> CsrIllegal(m)
  BY <1>4 DEF CsrIllegal
<1>11. ASSUME ~own.illegal PROVE ir = own /\ ir.illegal = FALSE /\ ~CsrIllegal(ir)
  <2>1. ~d.illegal /\ ~CsrIllegal(d) /\ d.illegal \in BOOLEAN
    BY <1>2, <1>5, <1>11 DEF Ir
  <2>2. Executes(w) /\ d = m /\ ir = m
    BY <1>4, <1>8, <2>1
  <2>3. own = [d EXCEPT !.illegal = d.illegal \/ CsrIllegal(d)]
    BY <1>2 DEF PastExe
  <2>4. (d.illegal \/ CsrIllegal(d)) = d.illegal
    BY <2>1
  <2>5. own = d
    BY <1>2, <2>3, <2>4 DEF Ir
  <2>. QED  BY <1>4, <1>6, <1>10, <2>1, <2>2, <2>5
<1>12. /\ own.fu_type = "CSR" => own.sys_kind \notin PrivOp
       /\ own.sys_kind \in PrivOp => own.fu_type = "SYSTEM"
       /\ own.fu_type = "SYSTEM" => own.rd = 0 /\ (~own.illegal => own.sys_kind \in PrivOp)
  BY <1>5, <1>7 DEF UnitsApart
<1>13. own.fu_type = "BRANCH" => \A p, v : BranchTarget(ir, p, v) = BranchTarget(own, p, v)
  BY <1>4, <1>5, <1>6 DEF BranchTarget
<1>14. own.fu_type = "BRANCH" => (own.illegal <=> d.illegal)
  BY <1>5 DEF CsrIllegal
<1>. QED  BY <1>2, <1>4, <1>5, <1>6, <1>7, <1>8, <1>9, <1>10, <1>11, <1>12, <1>13, <1>14
          DEF CodeFits

Commits ==
  /\ Alive(wb_q) /\ done = None
  /\ Observe /\ RecordCommit /\ WriteBack
  /\ ArchPc' = BehindWb /\ UNCHANGED imem

\* What a commit does, in the variables of the reference machine.
Committed(t) ==
  /\ t \in Token /\ ArchPc = t.pc /\ ArchPc' = PcAfter(t, acsr) /\ imem' = imem
  /\ regs_q' = IF t.trap_cause = None /\ t.halt_kind = "NONE" /\ t.ir.rd # 0
               THEN [regs_q EXCEPT ![t.ir.rd] = t.rd_value] ELSE regs_q
  /\ last_step_entered_trap_q' = (t.trap_cause # None)
  /\ acsr' = CsrEffect(acsr, t)
  /\ amem' = IF t.trap_cause = None /\ t.halt_kind = "NONE" /\ IsStore(t.ir)
             THEN [amem EXCEPT ![t.mem_addr] = t.rs2_val] ELSE amem
  /\ done' = IF t.halt_kind # "NONE"
             THEN [kind |-> t.halt_kind, exit |-> IF t.halt_kind = "VOLUNTARY" THEN Gpr(A0) ELSE 0]
             ELSE None

LEMMA CommitState == ASSUME IssInv, Commits, NEW t, t = wb_q PROVE Committed(t)
<1>1. Alive(t) /\ t \in Token
  BY BackendTypes DEF Commits, IssInv, CsrInv, PathAndLink, CoreInv, TypeOK, Alive
<1>2. ArchPc = t.pc /\ ArchPc' = PcAfter(t, acsr) /\ imem' = imem
  BY <1>1 DEF Commits, ArchPc, IssInv, ChainInv
<1>3. /\ regs_q' = IF t.trap_cause = None /\ t.halt_kind = "NONE" /\ t.ir.rd # 0
                   THEN [regs_q EXCEPT ![t.ir.rd] = t.rd_value] ELSE regs_q
      /\ last_step_entered_trap_q' = (t.trap_cause # None)
  BY <1>1 DEF Commits, WriteBack, RfWe, CommitValid
<1>4. /\ acsr' = CsrEffect(acsr, t)
      /\ amem' = IF t.trap_cause = None /\ t.halt_kind = "NONE" /\ IsStore(t.ir)
                 THEN [amem EXCEPT ![t.mem_addr] = t.rs2_val] ELSE amem
  BY <1>1 DEF Commits, RecordCommit, CommitsStore, CommitValid
<1>5. done' = IF t.halt_kind # "NONE"
              THEN [kind |-> t.halt_kind,
                    exit |-> IF t.halt_kind = "VOLUNTARY" THEN Gpr(A0) ELSE 0]
              ELSE None
  BY <1>1 DEF Commits, Observe, CommitsHalt, CommitValid
<1>. QED  BY <1>1, <1>2, <1>3, <1>4, <1>5 DEF Committed

\* What the reference machine computes for an instruction is what the token carries.
LEMMA RefValues ==
  ASSUME IssInv, Alive(wb_q), done = None, NEW t, t = wb_q, NEW ir, ir.rs1 = t.ir.rs1
  PROVE  /\ Ref!V1(ir) = t.rs1_val
         /\ Ref!Target(ir) = BranchTarget(ir, t.pc, t.rs1_val)
         /\ Ref!MayTrap <=> ~(last_step_entered_trap_q /\ t.pc = acsr["mtvec"])
         /\ ir = t.ir => /\ Ref!V2(ir) = t.rs2_val /\ Ref!Result(ir) = t.mem_addr
                         /\ Ref!Taken(ir) <=> BranchTaken(ir, t.rs1_val, t.rs2_val)
<1>1. \A r : Ref!Val(r) = Gpr(r)
  BY DEF Ref!Val, Gpr
<1>2. ArchPc = t.pc
  BY DEF ArchPc
<1>3. t.rs1_val = Gpr(t.ir.rs1) /\ t.rs2_val = Gpr(t.ir.rs2)
  BY DEF IssInv, OperandInv
<1>4. Ref!V1(ir) = t.rs1_val /\ (ir = t.ir => Ref!V2(ir) = t.rs2_val)
  BY <1>1, <1>3 DEF Ref!V1, Ref!V2
<1>5. Ref!Target(ir) = BranchTarget(ir, t.pc, t.rs1_val)
  BY <1>2, <1>4, RefDatapath DEF Ref!Target
<1>6. Ref!MayTrap <=> ~(last_step_entered_trap_q /\ t.pc = acsr["mtvec"])
  BY <1>2 DEF Ref!MayTrap
<1>7. ir = t.ir => Ref!Taken(ir) <=> BranchTaken(ir, t.rs1_val, t.rs2_val)
  BY <1>4, RefDatapath DEF Ref!Taken
<1>8. ir = t.ir => Ref!Result(ir) = t.mem_addr
  <2>1. Computed(t)
    BY DEF IssInv, WbInv
  <2>. QED  BY <1>2, <1>4, <2>1, RefDatapath DEF Ref!Result, Computed
<1>. QED  BY <1>4, <1>5, <1>6, <1>7, <1>8

LEMMA CommitRetires ==
  ASSUME IssInv, Commits, Retires(wb_q, amem)
  PROVE  Ref!Next
<1> DEFINE t  == wb_q
           ir == Ref!Fetched
<1>1. Alive(t) /\ done = None /\ t = wb_q /\ Retires(t, amem) /\ ir = Ref!Fetched
  BY DEF Commits
<1>2. Committed(t)
  BY <1>1, CommitState
<1> HIDE DEF t, ir
<1>3. /\ t.trap_cause = None /\ t.halt_kind = "NONE"
      /\ ~t.ir.illegal /\ ~t.ir.if_bus_error /\ t.ir.sys_kind \notin {"ECALL", "EBREAK"}
      /\ ~StrayTarget(t)
      /\ IsMem(t.ir) => ~Misaligned(t.mem_addr) /\ t.mem_addr \in DAddr
      /\ IsLoad(t.ir) => t.rd_value = amem[t.mem_addr]
  BY <1>1 DEF Retires
<1>4. /\ t.ir = ir /\ ir \in Ir /\ ir.illegal = FALSE /\ ~CsrIllegal(ir) /\ ~ir.if_bus_error
      /\ (ir.fu_type = "STORE" => ir.rd = 0)
      /\ ir.fu_type = "CSR" => ir.sys_kind \notin PrivOp
      /\ ir.sys_kind \in PrivOp => ir.fu_type = "SYSTEM"
      /\ ir.fu_type = "SYSTEM" => ir.rd = 0 /\ ir.sys_kind \in PrivOp
  <2> DEFINE own == t.ir
  <2>1. own = wb_q.ir /\ ~own.illegal /\ ~own.if_bus_error /\ Alive(wb_q) /\ ArchPc = wb_q.pc
    BY <1>1, <1>2, <1>3 DEF Committed
  <2> HIDE DEF own
  <2>2. CodeFits(own, ir)
    BY <1>1, <2>1, CommitCode
  <2>3. ir = own
    BY <2>1, <2>2 DEF CodeFits
  <2>4. t.ir = own
    BY DEF own
  <2>. QED  BY <2>1, <2>2, <2>3, <2>4 DEF CodeFits
<1>5. Computed(t) /\ CsrComputed(t, acsr)
  BY <1>1 DEF IssInv, WbInv
<1>6. /\ Ref!V1(ir) = t.rs1_val /\ Ref!V2(ir) = t.rs2_val /\ Ref!Result(ir) = t.mem_addr
      /\ Ref!Target(ir) = BranchTarget(ir, t.pc, t.rs1_val)
      /\ Ref!Taken(ir) <=> BranchTaken(ir, t.rs1_val, t.rs2_val)
  BY <1>1, <1>4, RefValues
<1>7. Ref!Legal(ir)
  BY <1>1, <1>4 DEF Ref!Legal
<1>8. /\ last_step_entered_trap_q' = FALSE /\ done' = done
      /\ regs_q' = IF ir.rd = 0 THEN regs_q ELSE [regs_q EXCEPT ![ir.rd] = t.rd_value]
  BY <1>1, <1>2, <1>3, <1>4 DEF Committed
<1>9. \A to : ArchPc' = to => Ref!Retire(to)
  BY <1>2, <1>8 DEF Ref!Retire, Committed
<1>10. \A v : v = t.rd_value => Ref!SetRd(ir, v)
  BY <1>8 DEF Ref!SetRd
<1>11. PcAfter(t, acsr) = IF ir.sys_kind = "MRET" THEN acsr["mepc"]
                          ELSE IF BranchTaken(ir, t.rs1_val, t.rs2_val)
                          THEN BranchTarget(ir, t.pc, t.rs1_val) ELSE NextPc(t.pc)
  BY <1>3, <1>4 DEF PcAfter
<1>12. /\ acsr' = IF ir.sys_kind = "MRET" THEN MretExit(acsr)
                  ELSE IF ir.fu_type = "CSR" /\ ir.csr_writes
                  THEN WriteCsr(acsr, ir.csr_addr, t.csr_new) ELSE acsr
       /\ amem' = IF IsStore(ir) THEN [amem EXCEPT ![t.mem_addr] = t.rs2_val] ELSE amem
  <2>1. acsr' = CsrEffect(acsr, t) /\ Alive(t) /\ t.trap_cause = None /\ t.ir = ir /\ ~ir.illegal
    BY <1>1, <1>2, <1>3, <1>4 DEF Committed
  <2>2. ir.fu_type = "CSR" => ir.sys_kind # "MRET"
    BY <1>4 DEF PrivOp
  <2>. QED  BY <1>2, <1>3, <2>1, <2>2 DEF CsrEffect, Committed
<1>13. ir.sys_kind = "MRET" \/ ir.fu_type # "BRANCH" => ~BranchTaken(ir, t.rs1_val, t.rs2_val)
  BY <1>4 DEF BranchTaken, PrivOp
<1>14. ASSUME ir.fu_type = "INT" \/ (ir.fu_type = "SYSTEM" /\ ir.sys_kind = "WFI")
       PROVE  Ref!Int(ir)
  <2>1. ir.sys_kind # "MRET" /\ ir.fu_type # "CSR" /\ ~IsStore(ir) /\ t.rd_value = t.mem_addr
    BY <1>4, <1>5, <1>14 DEF Computed, IsStore, PrivOp
  <2>2. Ref!Retire(Ref!NextPc(ArchPc))
    BY <1>2, <1>9, <1>11, <1>13, <1>14, <2>1, RefDatapath DEF Committed
  <2>3. Ref!SetRd(ir, Ref!Result(ir))
    BY <1>6, <1>10, <2>1
  <2>. QED  BY <1>7, <1>12, <1>14, <2>1, <2>2, <2>3 DEF Ref!Int
<1>15. ASSUME ir.fu_type = "SYSTEM", ir.sys_kind = "MRET" PROVE Ref!Mret(ir)
  <2>1. Ref!Retire(acsr["mepc"])
    BY <1>2, <1>9, <1>11, <1>15 DEF Committed
  <2>2. ir.rd = 0 /\ ~IsStore(ir)
    BY <1>4, <1>15 DEF IsStore
  <2>3. acsr' = Ref!MretExit(acsr) /\ amem' = amem /\ regs_q' = regs_q
    BY <1>8, <1>12, <1>15, <2>2, RefCsrs
  <2>. QED  BY <1>7, <1>15, <2>1, <2>3 DEF Ref!Mret
<1>16. ASSUME ir.fu_type = "BRANCH" PROVE Ref!Branch(ir)
  <2>1. ir.sys_kind # "MRET" /\ ~IsStore(ir) /\ t.rd_value = NextPc(ArchPc)
    BY <1>2, <1>4, <1>5, <1>16 DEF Computed, IsStore, PrivOp, Committed
  <2>2. Ref!Retire(IF Ref!Taken(ir) THEN Ref!Target(ir) ELSE Ref!NextPc(ArchPc))
    BY <1>2, <1>6, <1>9, <1>11, <2>1, RefDatapath DEF Committed
  <2>3. Ref!SetRd(ir, Ref!NextPc(ArchPc))
    BY <1>10, <2>1, RefDatapath
  <2>4. Ref!Taken(ir) => ~Ref!Misaligned(Ref!Target(ir))
    BY <1>3, <1>4, <1>6, RefDatapath DEF StrayTarget
  <2>5. acsr' = acsr /\ amem' = amem
    BY <1>12, <1>16, <2>1
  <2>. QED  BY <1>7, <1>16, <2>2, <2>3, <2>4, <2>5 DEF Ref!Branch
<1>17. ASSUME IsMem(ir) PROVE Ref!Load(ir) \/ Ref!Store(ir)
  <2>1. ir.sys_kind # "MRET" /\ ir.fu_type \in {"LOAD", "STORE"}
    BY <1>4, <1>17 DEF IsMem, IsLoad, IsStore, PrivOp
  <2>2. Ref!Retire(Ref!NextPc(ArchPc))
    BY <1>2, <1>9, <1>11, <1>13, <2>1, RefDatapath DEF Committed
  <2>3. ~Ref!Misses(ir)
    BY <1>3, <1>4, <1>6, <1>17, RefDatapath DEF Ref!Misses
  <2>4. acsr' = acsr
    BY <1>12, <2>1
  <2>5. CASE IsLoad(ir)
    <3>1. Ref!SetRd(ir, amem[Ref!Result(ir)]) /\ ~IsStore(ir)
      BY <1>3, <1>4, <1>6, <1>10, <2>5 DEF IsLoad, IsStore
    <3>. QED  BY <1>7, <1>12, <2>2, <2>3, <2>4, <2>5, <3>1, RefDatapath DEF Ref!Load
  <2>6. CASE IsStore(ir)
    <3>1. regs_q' = regs_q
      BY <1>4, <1>8, <2>6 DEF IsStore
    <3>2. amem' = [amem EXCEPT ![Ref!Result(ir)] = Ref!V2(ir)]
      BY <1>6, <1>12, <2>6
    <3>. QED  BY <1>7, <2>2, <2>3, <2>4, <2>6, <3>1, <3>2, RefDatapath DEF Ref!Store
  <2>. QED  BY <1>17, <2>5, <2>6 DEF IsMem
<1>18. ASSUME ir.fu_type = "CSR" PROVE Ref!Csr(ir)
  <2>1. ir.sys_kind # "MRET" /\ ~IsStore(ir)
    BY <1>4, <1>18 DEF IsStore, PrivOp
  <2>2. Ref!Retire(Ref!NextPc(ArchPc))
    BY <1>2, <1>9, <1>11, <1>13, <1>18, <2>1, RefDatapath DEF Committed
  <2>3. PICK mip \in SUBSET IrqLines : t.rd_value = ReadCsr(acsr, ir.csr_addr, mip)
    BY <1>4, <1>5, <1>18 DEF CsrComputed
  <2>4. t.rd_value = Ref!ReadCsr(acsr, ir.csr_addr, mip)
    BY <2>3, RefCsrs
  <2>5. t.csr_new = Ref!CsrNew(ir, t.rd_value, Ref!CsrSource(ir, Ref!V1(ir)))
    BY <1>4, <1>5, <1>6, <1>18, RefCsrs DEF CsrComputed
  <2>6. /\ Ref!SetRd(ir, t.rd_value) /\ amem' = amem
        /\ acsr' = IF ir.csr_writes THEN Ref!WriteCsr(acsr, ir.csr_addr, t.csr_new) ELSE acsr
    BY <1>10, <1>12, <1>18, <2>1, RefCsrs
  <2>. QED  BY <1>4, <1>7, <1>18, <2>2, <2>4, <2>5, <2>6, RefDatapath DEF Ref!Csr
<1>19. \/ ir.fu_type \in {"INT", "BRANCH", "CSR"} \/ IsMem(ir)
       \/ ir.fu_type = "SYSTEM" /\ ir.sys_kind \in {"MRET", "WFI"}
  BY <1>3, <1>4 DEF Ir, FuType, PrivOp, IsMem, IsLoad, IsStore
<1>20. \/ Ref!Int(ir) \/ Ref!Mret(ir) \/ Ref!Branch(ir) \/ Ref!Load(ir) \/ Ref!Store(ir)
       \/ Ref!Csr(ir)
  BY <1>14, <1>15, <1>16, <1>17, <1>18, <1>19
<1>. QED  BY <1>1, <1>20 DEF Ref!Next

LEMMA CommitTraps ==
  ASSUME IssInv, Commits,
         TrapsNow(wb_q, acsr, last_step_entered_trap_q /\ wb_q.pc = acsr["mtvec"])
  PROVE  Ref!Next
<1> DEFINE t   == wb_q
           own == t.ir
           ir  == Ref!Fetched
<1>1. /\ Alive(t) /\ done = None /\ t = wb_q /\ own = t.ir /\ ir = Ref!Fetched
      /\ t.trap_cause # None /\ t.halt_kind = "NONE"
      /\ ~own.illegal /\ ~own.if_bus_error
      /\ ~(last_step_entered_trap_q /\ t.pc = acsr["mtvec"]) /\ CauseFound(t, acsr)
  BY DEF Commits, TrapsNow
<1>2. Committed(t)
  BY <1>1, CommitState
<1> HIDE DEF t, own, ir
<1>3. t.pc = ArchPc
  BY <1>2 DEF Committed
<1>4. CodeFits(own, ir)
  BY <1>1, <1>3, CommitCode
<1>5. own = ir /\ Ref!Legal(ir)
  BY <1>1, <1>4 DEF CodeFits, Ref!Legal
<1>6. Ref!MayTrap
  BY <1>1, <1>3 DEF Ref!MayTrap
<1>7. /\ acsr' = Ref!TrapEntry(acsr, ArchPc, t.trap_cause) /\ ArchPc' = acsr["mtvec"]
      /\ last_step_entered_trap_q' = TRUE
      /\ imem' = imem /\ regs_q' = regs_q /\ amem' = amem /\ done' = done
  <2>1. acsr' = TrapEntry(acsr, t.pc, t.trap_cause)
    BY <1>1, <1>2 DEF Committed, CsrEffect
  <2>2. ArchPc' = acsr["mtvec"]
    BY <1>1, <1>2 DEF Committed, PcAfter
  <2>. QED  BY <1>1, <1>2, <1>3, <2>1, <2>2, RefCsrs DEF Committed
<1>8. \A cause : cause = t.trap_cause => Ref!EnterTrap(ir, cause)
  BY <1>5, <1>6, <1>7 DEF Ref!EnterTrap
<1>9. Ref!Ecall(ir) \/ Ref!Interrupt(ir)
  <2>1. CASE own.sys_kind = "ECALL" /\ t.trap_cause = CAUSE_ECALL
    BY <1>5, <1>8, <2>1, RefCsrs DEF Ref!Ecall
  <2>2. CASE \E line \in EnabledIrqs(acsr, IrqLines) : t.trap_cause = AsyncCauseOf(line)
    <3>1. PICK line \in EnabledIrqs(acsr, IrqLines) : t.trap_cause = AsyncCauseOf(line)
      BY <2>2
    <3>2. line \in Ref!EnabledIrqs(acsr, IrqLines) /\ t.trap_cause = Ref!AsyncCauseOf(line)
      BY <3>1, RefCsrs
    <3>. QED  BY <1>8, <3>2 DEF Ref!Interrupt
  <2>. QED  BY <1>1, <2>1, <2>2 DEF CauseFound
<1>. QED  BY <1>1, <1>9 DEF Ref!Next

\* How a commit ends the run: only an MRET that was none has had an effect.
LEMMA CommitStops ==
  ASSUME IssInv, Commits, NEW t, t = wb_q, NEW ir, CodeFits(t.ir, ir),
         t.trap_cause = None, t.halt_kind # "NONE",
         t.ir.fu_type # "CSR" \/ t.ir.illegal,
         t.ir.sys_kind = "MRET" <=> Ref!StrayReturn(ir, t.halt_kind)
  PROVE  Ref!Stop(ir, t.halt_kind)
<1>1. Committed(t) /\ Alive(t) /\ done = None /\ acsr \in CsrFile
  BY CommitState DEF Commits, IssInv
<1>2. acsr' = IF Ref!StrayReturn(ir, t.halt_kind) THEN Ref!MretExit(acsr) ELSE acsr
  <2>1. acsr' = CsrEffect(acsr, t)
    BY <1>1 DEF Committed
  <2>2. t.ir.fu_type = "CSR" => t.ir.sys_kind # "MRET"
    BY DEF CodeFits, PrivOp
  <2>3. CsrEffect(acsr, t) = IF t.ir.sys_kind = "MRET" THEN MretExit(acsr) ELSE acsr
    BY <1>1, <2>2 DEF CsrEffect
  <2>. QED  BY <2>1, <2>3, RefCsrs
<1>3. ArchPc' \in Word
  <2>1. /\ t.pc \in Word /\ t.rs1_val \in Word /\ t.ir.imm \in Word
        /\ acsr["mtvec"] \in Word /\ acsr["mepc"] \in Word
    BY <1>1 DEF Committed, Token, Ir, CsrFile, CsrReg
  <2>2. BranchTarget(t.ir, t.pc, t.rs1_val) \in Word /\ NextPc(t.pc) \in Word
    BY <2>1, WordFacts DEF BranchTarget
  <2>. QED  BY <1>1, <2>1, <2>2 DEF Committed, PcAfter
<1>4. /\ last_step_entered_trap_q' \in BOOLEAN
      /\ imem' = imem /\ regs_q' = regs_q /\ amem' = amem
      /\ done' = [kind |-> t.halt_kind,
                  exit |-> IF t.halt_kind = "VOLUNTARY" THEN Gpr(A0) ELSE 0]
  BY <1>1 DEF Committed
<1>5. Ref!Val(A0) = Gpr(A0) /\ Ref!Word = Word
  BY DEF Ref!Val, Gpr, Ref!Word, Word
<1>. QED  BY <1>1, <1>2, <1>3, <1>4, <1>5 DEF Ref!Stop

LEMMA CommitHalts ==
  ASSUME IssInv, Commits,
         HaltsNow(wb_q, acsr, last_step_entered_trap_q /\ wb_q.pc = acsr["mtvec"])
  PROVE  Ref!Next
<1> DEFINE t   == wb_q
           own == t.ir
           ir  == Ref!Fetched
           first == last_step_entered_trap_q /\ t.pc = acsr["mtvec"]
<1>1. /\ Alive(t) /\ done = None /\ t = wb_q /\ own = t.ir /\ ir = Ref!Fetched
      /\ HaltsNow(t, acsr, first)
  BY DEF Commits
<1>2. ArchPc = t.pc
  BY <1>1, CommitState DEF Committed
<1>3. Ref!MayTrap <=> ~first
  BY <1>2 DEF Ref!MayTrap
<1> HIDE DEF t, own, ir, first
<1>4. CodeFits(own, ir)
  BY <1>1, <1>2, CommitCode
<1>5. t.trap_cause = None
  BY <1>1 DEF HaltsNow
<1>6. ASSUME t.halt_kind # "NONE", own.fu_type # "CSR" \/ own.illegal,
             own.sys_kind = "MRET" <=> Ref!StrayReturn(ir, t.halt_kind),
             NEW kind, kind = t.halt_kind
      PROVE  Ref!Stop(ir, kind)
  BY <1>1, <1>4, <1>5, <1>6, CommitStops
<1>7. own.fu_type = "BRANCH" =>
        /\ Ref!Target(ir) = BranchTarget(own, t.pc, t.rs1_val)
        /\ own.illegal => own.branch_op # "EQ"
  <2> SUFFICES ASSUME own.fu_type = "BRANCH"
               PROVE  /\ Ref!Target(ir) = BranchTarget(own, t.pc, t.rs1_val)
                      /\ own.illegal => own.branch_op # "EQ"
    OBVIOUS
  <2>1. ir.rs1 = t.ir.rs1 /\ (own.illegal => own.branch_op # "EQ")
    BY <1>1, <1>4 DEF CodeFits
  <2>2. Ref!Target(ir) = BranchTarget(ir, t.pc, t.rs1_val)
    BY <1>1, <2>1, RefValues
  <2>3. BranchTarget(ir, t.pc, t.rs1_val) = BranchTarget(own, t.pc, t.rs1_val)
    BY <1>4 DEF CodeFits
  <2>. QED  BY <2>1, <2>2, <2>3
<1>8. ~own.illegal =>
        /\ own = ir /\ ~CsrIllegal(ir) /\ ~ir.illegal /\ (~ir.if_bus_error => Ref!Legal(ir))
        /\ Ref!Result(ir) = t.mem_addr
        /\ Ref!Taken(ir) <=> BranchTaken(own, t.rs1_val, t.rs2_val)
  <2> SUFFICES ASSUME ~own.illegal
               PROVE  /\ own = ir /\ ~CsrIllegal(ir) /\ ~ir.illegal
                      /\ ~ir.if_bus_error => Ref!Legal(ir)
                      /\ Ref!Result(ir) = t.mem_addr
                      /\ Ref!Taken(ir) <=> BranchTaken(own, t.rs1_val, t.rs2_val)
    OBVIOUS
  <2>1. own = ir /\ ~CsrIllegal(ir) /\ ~ir.illegal
    BY <1>4 DEF CodeFits
  <2>2. /\ Ref!Result(ir) = t.mem_addr
        /\ Ref!Taken(ir) <=> BranchTaken(ir, t.rs1_val, t.rs2_val)
    BY <1>1, <2>1, RefValues
  <2>. QED  BY <1>1, <2>1, <2>2 DEF Ref!Legal
<1>9. /\ own.fu_type = "BRANCH" <=> ir.fu_type = "BRANCH"
      /\ own.sys_kind = "MRET" <=> ir.sys_kind = "MRET"
      /\ own.sys_kind \in PrivOp => own.fu_type = "SYSTEM"
      /\ own.if_bus_error = ir.if_bus_error
      /\ own.if_bus_error => own.fu_type = "INT" /\ own.sys_kind = "NOT"
      /\ own.illegal <=> Ref!Faulty(ir)
  BY <1>4, RefDatapath DEF CodeFits, Ref!Faulty
<1>10. /\ "MRET" \in PrivOp /\ "EBREAK" \in PrivOp /\ "ECALL" \in PrivOp
       /\ \A kind : Ref!StrayReturn(ir, kind) <=> kind = "ILLEGAL" /\ ir.sys_kind = "MRET"
       /\ Ref!StrayJump(ir) <=> ir.fu_type = "BRANCH" /\ Misaligned(Ref!Target(ir))
  BY RefDatapath DEF PrivOp, Ref!StrayReturn, Ref!StrayJump
<1>11. StrayTarget(t) <=> /\ own.fu_type = "BRANCH"
                          /\ own.branch_op # "EQ" \/ t.rs1_val = t.rs2_val
                          /\ Misaligned(BranchTarget(own, t.pc, t.rs1_val))
  BY <1>1 DEF StrayTarget, BranchTaken
<1>12. ASSUME t.halt_kind = "MISALIGN_PC", StrayTarget(t) PROVE Ref!Halt(ir)
  <2>1. own.fu_type = "BRANCH" /\ own.sys_kind # "MRET" /\ Misaligned(Ref!Target(ir))
    BY <1>7, <1>9, <1>10, <1>11, <1>12
  <2>2. Ref!Stop(ir, "MISALIGN_PC") /\ ~ir.if_bus_error
    BY <1>6, <1>9, <1>10, <1>12, <2>1
  <2>3. CASE own.illegal
    BY <1>9, <1>10, <2>1, <2>2, <2>3 DEF Ref!Halt
  <2>4. CASE ~own.illegal
    <3>1. Ref!Legal(ir) /\ ~Ref!CsrIllegal(ir) /\ Ref!Taken(ir) /\ Ref!Misaligned(Ref!Target(ir))
      BY <1>8, <1>11, <1>12, <2>1, <2>2, <2>4, RefDatapath DEF BranchTaken
    <3>. QED  BY <2>2, <3>1 DEF Ref!Halt
  <2>. QED  BY <2>3, <2>4
<1>13. ASSUME t.halt_kind = "BUS_ERROR_IF", own.if_bus_error PROVE Ref!Halt(ir)
  <2>1. Ref!Stop(ir, "BUS_ERROR_IF")
    BY <1>6, <1>9, <1>10, <1>13
  <2>. QED  BY <1>9, <1>13, <2>1 DEF Ref!Halt
<1>14. ASSUME t.halt_kind = "ILLEGAL", ~StrayTarget(t), ~own.if_bus_error, own.illegal
       PROVE  Ref!Halt(ir)
  <2>1. Ref!Stop(ir, "ILLEGAL") /\ ~ir.if_bus_error
    BY <1>6, <1>9, <1>10, <1>14
  <2>2. ~Ref!StrayJump(ir)
    BY <1>7, <1>9, <1>10, <1>11, <1>14
  <2>. QED  BY <1>9, <1>14, <2>1, <2>2 DEF Ref!Halt
<1>15. ASSUME ~own.if_bus_error, ~own.illegal
       PROVE  Ref!Legal(ir) /\ ~Ref!CsrIllegal(ir) /\ own = ir
  BY <1>8, <1>9, <1>15, RefDatapath
<1>16. ASSUME ~own.if_bus_error, ~own.illegal, t.halt_kind = "VOLUNTARY", own.sys_kind = "EBREAK"
       PROVE  Ref!Halt(ir)
  <2>1. Ref!Stop(ir, "VOLUNTARY")
    BY <1>6, <1>9, <1>10, <1>16
  <2>. QED  BY <1>15, <1>16, <2>1 DEF Ref!Halt
<1>17. ASSUME ~own.if_bus_error, ~own.illegal, t.halt_kind = "DOUBLE_TRAP", first,
              TrapDue(t, acsr), own.sys_kind # "MRET", own.fu_type # "CSR"
       PROVE  Ref!Halt(ir) \/ Ref!InterruptHalt(ir)
  <2>1. Ref!Stop(ir, "DOUBLE_TRAP") /\ ~Ref!MayTrap
    BY <1>3, <1>6, <1>10, <1>17
  <2>2. CASE own.sys_kind = "ECALL"
    BY <1>15, <1>17, <2>1, <2>2 DEF Ref!Halt
  <2>3. CASE EnabledIrqs(acsr, IrqLines) # {}
    BY <1>15, <1>17, <2>1, <2>3, RefCsrs DEF Ref!InterruptHalt
  <2>. QED  BY <1>1, <1>17, <2>2, <2>3 DEF TrapDue
<1>18. ASSUME ~own.if_bus_error, ~own.illegal, IsMem(own),
              Misaligned(t.mem_addr) \/ t.mem_addr \notin DAddr,
              t.halt_kind = IF Misaligned(t.mem_addr)
                            THEN IF IsLoad(own) THEN "MISALIGN_LD" ELSE "MISALIGN_ST"
                            ELSE IF IsLoad(own) THEN "BUS_ERROR_LD" ELSE "BUS_ERROR_ST"
       PROVE  Ref!Halt(ir)
  <2>1. own.fu_type \in {"LOAD", "STORE"} /\ own.sys_kind # "MRET" /\ t.halt_kind # "ILLEGAL"
    BY <1>9, <1>10, <1>18 DEF IsMem, IsLoad, IsStore
  <2>2. Ref!Stop(ir, t.halt_kind)
    BY <1>6, <1>10, <1>18, <2>1
  <2>3. Ref!Misses(ir) /\ (Ref!Misaligned(Ref!Result(ir)) <=> Misaligned(t.mem_addr))
    BY <1>8, <1>18, RefDatapath DEF Ref!Misses
  <2>4. Ref!IsLoad(ir) <=> IsLoad(own)
    BY <1>15, <1>18, RefDatapath
  <2>5. ~IsLoad(own) => Ref!IsStore(ir)
    BY <1>15, <1>18, RefDatapath DEF IsMem
  <2>6. CASE IsLoad(own)
    BY <1>15, <1>18, <2>2, <2>3, <2>4, <2>6 DEF Ref!Halt
  <2>7. CASE ~IsLoad(own)
    BY <1>15, <1>18, <2>2, <2>3, <2>5, <2>7 DEF Ref!Halt
  <2>. QED  BY <2>6, <2>7
<1>19. IsLoad(own) => ~IsStore(own)
  BY DEF IsLoad, IsStore
<1>20. Ref!Halt(ir) \/ Ref!InterruptHalt(ir)
  BY <1>1, <1>12, <1>13, <1>14, <1>16, <1>17, <1>18, <1>19 DEF HaltsNow, IsMem
<1>. QED  BY <1>1, <1>20 DEF Ref!Next

-----------------------------------------------------------------------------
(* The invariant, and the step of the reference machine in every cycle.     *)

LEMMA IssInitial == CosimInit => IssInv /\ Ref!Init
<1> SUFFICES ASSUME CosimInit PROVE IssInv /\ Ref!Init
  OBVIOUS
<1>1. /\ CsrInv /\ DmemInv /\ ~Alive(exe_q) /\ ~Alive(mem_q) /\ ~Alive(wb_q)
      /\ exe_row_q = None /\ last_step_entered_trap_q = FALSE /\ acsr = CsrReset
  BY CsrInitial, DmemInitial DEF CosimInit, Init, BackendInit, Alive
<1>2. acsr \in CsrFile
  BY <1>1, WordFacts DEF CsrReset, CsrFile
<1>3. ChainInv /\ EnterInv /\ ReadyInv /\ OperandInv /\ MemInv /\ WbInv
  BY <1>1 DEF ChainInv, EnterInv, TrapsInWb, ReadyInv, OperandInv, MemInv, WbInv
<1>4. ArchPc = RESET_PC
  <2>1. ArchPc = OldestFetchPc
    BY <1>1 DEF ArchPc
  <2>2. ir_queue = <<>> /\ req_q = None /\ out_q = None /\ pc_q = RESET_PC
    BY DEF CosimInit, Init, FrontendInit
  <2>3. BehindQueue.pc = RESET_PC
    BY <2>2 DEF BehindQueue, NextFetch
  <2>4. Len(ir_queue) = 0
    BY <2>2
  <2>. QED  BY <2>1, <2>3, <2>4 DEF OldestFetchPc, OldestPc
<1>5. Ref!Init
  BY <1>1, <1>4, RefCsrs DEF CosimInit, Init, BackendInit, Ref!Init
<1>. QED  BY <1>1, <1>2, <1>3, <1>5 DEF IssInv

\* A cycle in which nothing happens leaves the oldest instruction alone.
LEMMA StillOldest ==
  ASSUME UNCHANGED cosimVars
  PROVE  /\ OldestFetchPc' = OldestFetchPc
         /\ BehindMem' = BehindMem /\ BehindWb' = BehindWb /\ ArchPc' = ArchPc
<1> USE DEF cosimVars, vars, historyVars, frontendVars, ifVars, backendVars, tokenVars
<1>1. BehindQueue' = BehindQueue
  BY DEF BehindQueue, NextFetch
<1>2. OldestFetchPc' = OldestFetchPc
  BY <1>1 DEF OldestFetchPc, OldestPc
<1>3. exe_q' = exe_q /\ mem_q' = mem_q /\ wb_q' = wb_q
  OBVIOUS
<1>. QED  BY <1>2, <1>3 DEF BehindMem, BehindWb, ArchPc, Alive

LEMMA IssInductive ==
  ASSUME PreciseIrqs, IR_QUEUE_DEPTH <= 4, IssInv, [CosimNext]_cosimVars
  PROVE  IssInv'
<1>1. CsrInv' /\ DmemInv'
  BY CsrInductive, DmemInductive DEF IssInv, CsrInv
<1>2. CASE UNCHANGED cosimVars
  <2> USE <1>2 DEF cosimVars, vars, historyVars, frontendVars, ifVars, backendVars, tokenVars, IssInv
  <2>1. acsr' \in CsrFile /\ BeforeMem' = BeforeMem
    BY DEF BeforeMem, CsrEffect, Alive
  <2>2. ChainInv'
    BY <2>1, StillOldest DEF ChainInv, PcAfter, Alive
  <2>3. EnterInv' /\ ReadyInv'
    BY DEF EnterInv, Fresh, TrapsInWb, Draining, NoLive, LiveReq, ReadyInv, Alive
  <2>4. OperandInv'
    BY DEF OperandInv, After, Gpr, Alive
  <2>5. MemInv'
    BY <2>1 DEF MemInv, Computed, CsrComputed, StrayTarget, Alive
  <2>6. WbInv'
    BY DEF WbInv, Computed, CsrComputed, StrayTarget, Verdict, Retires, TrapsNow, HaltsNow,
           TrapDue, CauseFound, Alive
  <2>. QED  BY <1>1, <2>1, <2>2, <2>3, <2>4, <2>5, <2>6
<1>3. ASSUME done = None, Observe, RecordCommit,
             NEW iresp \in ImemResp, NEW resp \in DmemResp, NEW mip \in Mip,
             Moves(iresp, resp, mip) \/ Holds(iresp, resp, mip)
      PROVE  IssInv'
  <2>1. acsr' = BeforeMem /\ acsr' \in CsrFile /\ PathAndLink /\ TokenInv
    BY <1>3, CommitEffect, CommitTypes DEF IssInv, CsrInv
  <2>2. CASE Moves(iresp, resp, mip)
    <3>1. ChainInv'
      BY <2>1, <2>2, ChainMoves DEF IssInv
    <3>2. EnterInv'
      BY <2>1, <2>2, EnterMoves DEF IssInv
    <3>3. ReadyInv'
      BY <2>1, <2>2, ReadyMoves DEF IssInv
    <3>4. OperandInv'
      BY <1>3, <2>1, <2>2, OperandMoves DEF IssInv
    <3>5. MemInv'
      BY <2>1, <2>2, MemMoves DEF IssInv
    <3>6. WbInv'
      BY <1>3, <2>2, WbMoves DEF IssInv
    <3>. QED  BY <1>1, <2>1, <3>1, <3>2, <3>3, <3>4, <3>5, <3>6 DEF IssInv
  <2>3. CASE Holds(iresp, resp, mip)
    <3>1. ChainInv'
      BY <2>1, <2>3, ChainHolds DEF IssInv
    <3>2. EnterInv'
      BY <2>3, EnterHolds DEF IssInv
    <3>3. ReadyInv'
      BY <2>3, ReadyHolds DEF IssInv
    <3>4. OperandInv'
      BY <1>3, <2>1, <2>3, OperandHolds DEF IssInv
    <3>5. MemInv'
      BY <2>1, <2>3, MemHolds DEF IssInv
    <3>6. WbInv'
      BY <2>3, HoldFacts DEF WbInv
    <3>. QED  BY <1>1, <2>1, <3>1, <3>2, <3>3, <3>4, <3>5, <3>6 DEF IssInv
  <2>. QED  BY <1>3, <2>2, <2>3
<1>. QED  BY <1>2, <1>3, EdgeCases

LEMMA IssSimulates ==
  ASSUME IssInv, [CosimNext]_cosimVars
  PROVE  [Ref!Next]_(Ref!vars)
<1>1. CASE UNCHANGED cosimVars
  BY <1>1, StillOldest DEF cosimVars, vars, historyVars, frontendVars, backendVars, Ref!vars
<1>2. ASSUME done = None, Observe, RecordCommit,
             NEW iresp \in ImemResp, NEW resp \in DmemResp, NEW mip \in Mip,
             Moves(iresp, resp, mip) \/ Holds(iresp, resp, mip)
      PROVE  [Ref!Next]_(Ref!vars)
  <2>1. PathAndLink
    BY DEF IssInv, CsrInv
  <2>2. ArchPc' = BehindWb /\ WriteBack
    BY <1>2, <2>1, ArchMoves, ArchHolds, MoveFacts, HoldFacts
  <2>3. imem' = imem
    BY <1>2 DEF Moves, Holds, ClockTrap, ClockRedirect, ClockAdvance, ClockStall,
                FrontendRun, FrontendRedirect
  <2>4. CASE Alive(wb_q)
    <3>1. Commits
      BY <1>2, <2>2, <2>3, <2>4 DEF Commits
    <3>2. Verdict(wb_q, acsr, amem, last_step_entered_trap_q /\ wb_q.pc = acsr["mtvec"])
      BY <2>4 DEF IssInv, WbInv
    <3>3. Ref!Next
      BY <3>1, <3>2, CommitRetires, CommitTraps, CommitHalts DEF Verdict
    <3>. QED  BY <3>3
  <2>5. CASE ~Alive(wb_q)
    <3>1. ArchPc' = ArchPc
      BY <2>2, <2>5, ArchIsBehind
    <3>2. regs_q' = regs_q /\ last_step_entered_trap_q' = last_step_entered_trap_q
      BY <2>2, <2>5 DEF WriteBack, RfWe, CommitValid
    <3>3. acsr' = acsr /\ amem' = amem /\ done' = done
      BY <1>2, <2>5 DEF RecordCommit, CommitsStore, Observe, CommitsHalt, CommitValid
    <3>. QED  BY <2>3, <3>1, <3>2, <3>3 DEF Ref!vars
  <2>. QED  BY <2>4, <2>5
<1>. QED  BY <1>1, <1>2, EdgeCases

\* Every commit is one step of the reference machine, whatever was forwarded,
\* stalled, killed or refetched on the way: in any order of traps, redirects, bus
\* and data errors and memory answers (backend.sv, frontend.sv, mem_stage.sv), for
\* any program, if an interrupt is taken only where the instruction in MEM can be
\* restarted and the IR queue has the four entries of the build or fewer (Top.sv).
THEOREM CommitsAreIss == PreciseIrqs /\ IR_QUEUE_DEPTH <= 4 /\ CosimSpec => ImplementsIss
<1>1. CASE PreciseIrqs /\ IR_QUEUE_DEPTH <= 4
  <2>1. IssInv /\ [CosimNext]_cosimVars => IssInv'
    BY <1>1, IssInductive
  <2>2. IssInv /\ [CosimNext]_cosimVars => [Ref!Next]_(Ref!vars)
    BY IssSimulates
  <2>. QED  BY <2>1, <2>2, IssInitial, PTL DEF CosimSpec, ImplementsIss, Ref!Spec
<1>2. CASE ~(PreciseIrqs /\ IR_QUEUE_DEPTH <= 4)
  BY <1>2
<1>. QED  BY <1>1, <1>2
=============================================================================
