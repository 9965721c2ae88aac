----------------------------- MODULE FetchUnit ------------------------------
(***************************************************************************)
(* The frontend on its own, closed with the weakest environment the        *)
(* backend is: it may issue whenever an instruction is offered, and        *)
(* redirect at any time to any address, but no more than twice before it   *)
(* issues again.  (A redirect comes from a live token in EXE or MEM; the   *)
(* token that redirected from EXE can trap once more in MEM, after which   *)
(* both stages hold nothing alive.)                                        *)
(***************************************************************************)
EXTENDS Frontend

VARIABLES
  credit,   \* how many redirects the backend can still cause
  last      \* history: the instruction issued last

vars == <<frontendVars, credit, last>>

Init ==
  /\ Decoded \in [Word -> Inst]
  /\ FrontendInit
  /\ credit = 0
  /\ last = None

Issue(iready, iresp) ==
  /\ IrValid
  /\ FrontendRun(iready, iresp, TRUE)
  /\ credit' = 2
  /\ last' = [pc |-> Head(ir_queue).pc, inst |-> Head(ir_queue).inst]

\* The backend does not issue; the tokens it holds may retire.
Wait(iready, iresp) ==
  /\ FrontendRun(iready, iresp, FALSE)
  /\ credit' \in 0 .. credit
  /\ UNCHANGED last

Redirect(target, iresp) ==
  /\ credit > 0
  /\ FrontendRedirect(target, iresp)
  /\ credit' \in 0 .. credit - 1
  /\ UNCHANGED last

\* Memory answers only what it was asked, in any later cycle.
Answers == IF req_q = None THEN {FALSE} ELSE BOOLEAN

Next ==
  \E iresp \in Answers :
    \/ \E iready \in BOOLEAN : Issue(iready, iresp) \/ Wait(iready, iresp)
    \/ \E target \in Word : Redirect(target, iresp)

Spec == Init /\ [][Next]_vars

\* The clock runs, memory accepts a request that stays up and answers it.
Accepts  == Next /\ req_q = None /\ req_q' # None
Responds == Next /\ req_q # None /\ req_q' = None

Fairness == WF_vars(Next) /\ WF_vars(Accepts) /\ WF_vars(Responds)

-----------------------------------------------------------------------------
TypeOK ==
  /\ FrontendTypeOK
  /\ credit \in 0 .. 2
  /\ last \in [pc : Word, inst : Inst] \cup {None}

\* The epochs a leftover of an abandoned path can carry: one step back from the
\* current epoch for each redirect since the last issue.
StaleEpochs ==
  IF credit = 2 THEN {}
  ELSE IF credit = 1 THEN {DecEpoch(current_epoch_q)}
  ELSE {DecEpoch(current_epoch_q), DecEpoch(DecEpoch(current_epoch_q))}

Live(i) == ir_queue[i].epoch = current_epoch_q

\* b comes right after a on the path that a is on.
Follows(a, b) == b.pc = NextPc(a.pc) /\ b.seq_id = IncSeq(a.seq_id)

\* What is in the queue: leftovers first, then the current path without a gap
\* in addresses or sequence ids, which goes on behind the queue.
QueueInv ==
  \A i \in 1 .. Len(ir_queue) :
    /\ ir_queue[i].inst = Decoded[ir_queue[i].pc]
    /\ Live(i) \/ ir_queue[i].epoch \in StaleEpochs
    /\ Live(i) => \A j \in i .. Len(ir_queue) : Live(j)
    /\ Live(i) /\ i < Len(ir_queue) => Follows(ir_queue[i], ir_queue[i + 1])
    /\ Live(i) /\ i = Len(ir_queue) => Follows(ir_queue[i], BehindQueue)

\* What is between memory and the queue: a packet in ID is always of the
\* current path, and drop_q marks exactly the requests of an old one, so that
\* the epoch test of the response never disagrees with it.  Nothing of the
\* current path can be in the queue while such a request is out.
FetchInv ==
  /\ out_q # None =>
       /\ req_q = None
       /\ out_q.epoch = current_epoch_q
       /\ out_q.inst = Decoded[out_q.pc]
       /\ Follows(out_q, NextFetch)
  /\ req_q # None =>
       IF drop_q THEN req_q.epoch \in StaleEpochs
                 ELSE req_q.epoch = current_epoch_q /\ Follows(req_q, NextFetch)
  /\ drop_q => req_q # None /\ \A i \in 1 .. Len(ir_queue) : ~Live(i)
  /\ (req_q # None \/ out_q # None) => QueueReady

\* The two redirects that can follow an issue use up two epoch tags, so an old
\* entry of the queue is never taken for a new one although the tag has only
\* two bits (frontend.sv, queue_stale; if_stage.sv, the response filter).
PathInv == QueueInv /\ FetchInv

-----------------------------------------------------------------------------
Stream == INSTANCE FetchStream WITH imem <- Decoded, next <- OldestFetchPc

\* Which path is the current one is told by the backend alone (frontend.sv:36-38,
\* if_stage.sv:50-54): with a redirect the next instruction is, in the same edge,
\* the one at its target, whatever is in the queue and in flight; an issue moves on
\* to the one behind it, and no other edge changes it.
PathIsTold ==
  [][\E iresp \in Answers :
       \/ \E target \in Word : Redirect(target, iresp) /\ OldestFetchPc' = target
       \/ \E iready \in BOOLEAN :
            \/ Issue(iready, iresp) /\ OldestFetchPc' = NextPc(OldestFetchPc)
            \/ Wait(iready, iresp) /\ OldestFetchPc' = OldestFetchPc]_vars

\* The backend receives the path it has asked for, in order, without a loss, a
\* repeat or a leftover of an older path (spec.md, Epoch/Token Validity Rules 1 - 4).
DeliversStream == Stream!Spec /\ PathIsTold

\* However often it is redirected, the frontend keeps offering instructions:
\* the stale entries drain and the dropped request does not block the next one.
OffersForever == []<>IrValid
=============================================================================
