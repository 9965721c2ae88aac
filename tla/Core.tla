------------------------------- MODULE Core ---------------------------------
(***************************************************************************)
(* Top: the frontend and the backend on one clock, with the instruction    *)
(* and data memories and the interrupt lines of the testbench around them. *)
(* Every step is one clock edge; the action says which control event, if   *)
(* any, the cycle before it carried.                                       *)
(***************************************************************************)
EXTENDS Frontend, Backend, Decoder

CONSTANTS
  Programs,     \* what instruction memory answers, address by address
  Forwardings,  \* the build parameters to run them with
  DAddr,        \* the data addresses that are mapped
  DmemInit,     \* what they hold at reset
  IrqLines,     \* the interrupt lines that may rise
  PreciseIrqs,  \* TRUE: only where the instruction in MEM can be restarted
  ImemWaits,    \* TRUE: the instruction memory may keep a request waiting
  DmemWaits,    \* TRUE: the data memory may keep a request waiting
  DmemSlots     \* requests the data memory holds before it refuses more

ASSUME CoreAssumption ==
  /\ Programs \subseteq [Word -> Packet] /\ Inst \subseteq Ir
  /\ \A program \in Programs, a \in Word :
       /\ DecodeWord(program[a]) = Decode(program[a]) /\ Decode(program[a]) \in Inst
       /\ program[a].error => program[a].opcode = "other"   \* the word is 0
  /\ Forwardings \subseteq SUBSET {"mem", "wb"}
  /\ DmemInit \in [DAddr -> Word]
  /\ IrqLines \subseteq IrqLine
  /\ DmemSlots \in Nat \ {0}

VARIABLES
  dmem,    \* contents of the data memory
  dresp,   \* answers the data memory has not delivered yet, oldest first
  done     \* what ended the run: [kind, exit], or None

vars == <<frontendVars, backendVars, dmem, dresp, done>>

Response == [rdata : Word, error : BOOLEAN]
Outcome  == [kind : HaltKind, exit : Word]

ASSUME ResponseAssumption ==
  None \notin Word /\ None \notin Token /\ None \notin Row /\ None \notin Response
    /\ None \notin Outcome /\ None \notin [epoch : Epoch, seq_id : SeqId]

TypeOK ==
  /\ FrontendTypeOK
  /\ BackendTypeOK
  /\ dmem \in [DAddr -> Word]
  /\ dresp \in Seq(Response) /\ Len(dresp) <= DmemSlots
  /\ done \in Outcome \cup {None}

Init ==
  /\ imem \in Programs
  /\ fwd \in Forwardings
  /\ FrontendInit
  /\ BackendInit
  /\ dmem = DmemInit
  /\ dresp = <<>>
  /\ done = None

-----------------------------------------------------------------------------
(* The environment of one cycle.                                            *)

\* The testbench accepts at once and answers in the next cycle; a memory that
\* waits may do either later.
ImemReady == IF ImemReqValid /\ ImemWaits THEN BOOLEAN ELSE {TRUE}
ImemResp  == IF req_q = None THEN {FALSE} ELSE IF ImemWaits THEN BOOLEAN ELSE {TRUE}
DmemReady == IF Len(dresp) = DmemSlots THEN {FALSE}
             ELSE IF DmemWaits THEN BOOLEAN ELSE {TRUE}
DmemResp  == IF dresp = <<>> THEN {None}
             ELSE IF DmemWaits THEN {None, Head(dresp)} ELSE {Head(dresp)}

\* The instruction in MEM has had no effect yet: it is not a memory access
\* already sent, nor a CSR write or MRET that EXE has carried out.
Restartable ==
  MemAlive => ~req_sent_q /\ mem_q.ir.fu_type # "CSR" /\ mem_q.ir.sys_kind # "MRET"

Mip == IF PreciseIrqs /\ ~Restartable THEN {{}} ELSE SUBSET IrqLines

\* The head of the IR queue, as the backend sees it in a cycle that runs.
Candidate == IF IrValid THEN Head(ir_queue) ELSE None

\* The data memory performs a request when it accepts it and queues the answer.
Performed ==
  IF mem_q.mem_addr \notin DAddr THEN [rdata |-> 0, error |-> TRUE]
  ELSE [rdata |-> dmem[mem_q.mem_addr], error |-> FALSE]

Undelivered(resp) == IF resp = None THEN dresp ELSE Tail(dresp)

DmemIdle(resp) ==
  /\ dresp' = Undelivered(resp)
  /\ UNCHANGED dmem

DmemStep(accept, resp) ==
  /\ dresp' = IF accept THEN Append(Undelivered(resp), Performed) ELSE Undelivered(resp)
  /\ dmem' = IF accept /\ IsStore(mem_q.ir) /\ mem_q.mem_addr \in DAddr
             THEN [dmem EXCEPT ![mem_q.mem_addr] = mem_q.rs2_val] ELSE dmem

\* The testbench stops at the edge at which a halting token commits; the exit
\* code of an EBREAK is x10.
Observe ==
  done' = IF CommitsHalt
          THEN [kind |-> wb_q.halt_kind,
                exit |-> IF wb_q.halt_kind = "VOLUNTARY" THEN Gpr(A0) ELSE 0]
          ELSE done

-----------------------------------------------------------------------------
ClockStall(iready, iresp, dready, resp, mip) ==
  /\ BackendStall(dready, resp, mip)
  /\ FrontendRun(iready, iresp, FALSE)
  /\ DmemStep(DmemReqValid(mip) /\ dready, resp)

ClockTrap(iresp, resp, mip) ==
  /\ BackendTrap(resp, mip)
  /\ FrontendRedirect(csr_q["mtvec"], iresp)
  /\ DmemIdle(resp)

ClockRedirect(iresp, resp, mip) ==
  /\ BackendRedirect(resp, mip)
  /\ FrontendRedirect(ExeTarget, iresp)
  /\ DmemIdle(resp)

\* Mutant of ClockAdvance: the queue's head leaves although a hazard held it.
ClockAdvancePops(iready, iresp, resp, mip) ==
  /\ BackendAdvance(Candidate, resp, mip)
  /\ FrontendRun(iready, iresp, IrValid)
  /\ DmemIdle(resp)

ClockAdvance(iready, iresp, resp, mip) ==
  /\ BackendAdvance(Candidate, resp, mip)
  /\ FrontendRun(iready, iresp, Issuable(Candidate))
  /\ DmemIdle(resp)

Clock ==
  /\ done = None
  /\ Observe
  /\ \E iresp \in ImemResp, resp \in DmemResp, mip \in Mip :
       \/ ClockTrap(iresp, resp, mip)
       \/ ClockRedirect(iresp, resp, mip)
       \/ \E iready \in ImemReady :
            \/ ClockAdvance(iready, iresp, resp, mip)
            \/ \E dready \in DmemReady : ClockStall(iready, iresp, dready, resp, mip)

\* $finish.
Finished == done # None /\ UNCHANGED vars

Next == Clock \/ Finished

Spec == Init /\ [][Next]_vars

\* The clock runs, and both memories accept a request that stays up and answer
\* what they accepted.
ImemAccepts == Clock /\ req_q = None /\ req_q' # None
ImemAnswers == Clock /\ req_q # None /\ req_q' = None
DmemAccepts == Clock /\ ~req_sent_q /\ req_sent_q'
DmemAnswers == Clock /\ dresp # <<>> /\ dresp' # dresp

Fairness ==
  /\ WF_vars(Clock)
  /\ WF_vars(ImemAccepts) /\ WF_vars(ImemAnswers)
  /\ WF_vars(DmemAccepts) /\ WF_vars(DmemAnswers)

FairSpec == Spec /\ Fairness

-----------------------------------------------------------------------------
Tracks(row, t) ==
  /\ row = None <=> t = None
  /\ t # None => /\ row.epoch = t.epoch /\ row.seq_id = t.seq_id
                 /\ row.killed = t.killed /\ row.rd = t.ir.rd

\* The scoreboard and the backend move and kill their copies of an instruction
\* separately (scoreboard.sv, backend.sv); the copies never come apart, so a
\* hazard is never seen for a killed writer nor missed for a live one.
RowsTrackTokens ==
  Tracks(exe_row_q, exe_q) /\ Tracks(mem_row_q, mem_q) /\ Tracks(wb_row_q, wb_q)

\* A kill event from MEM reaches the live token in EXE: they carry the same
\* epoch, and the distance of their sequence ids has not wrapped (uarch.svh).
KillReaches == Alive(mem_q) /\ Alive(exe_q) => KilledBy(exe_q, Kill(mem_q))

\* MEM has sent its request exactly when the data memory owes it the answer: no
\* answer is left over for the next access and none is waited for in vain.
OneRequest == req_sent_q <=> dresp # <<>>

\* The pipeline never locks up: instructions go on committing until a halt.
Progress == []<>(CommitValid \/ done # None)
=============================================================================
