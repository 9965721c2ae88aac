----------------------------- MODULE Frontend -------------------------------
(***************************************************************************)
(* The frontend: the fetch stage with its single outstanding request, the  *)
(* decode stage, the IR queue and the epoch and sequence counters.  Every  *)
(* operator with primes is what one clock edge does to all the frontend's  *)
(* registers; the inputs of the cycle are its parameters.                  *)
(*                                                                         *)
(* Top drives flush_i and redirect_valid_i from the same wire, so a cycle  *)
(* either is a redirect (FrontendRedirect) or runs (FrontendRun).          *)
(***************************************************************************)
EXTENDS Uarch, Sequences

CONSTANTS
  IR_QUEUE_DEPTH,  \* entries of the IR queue
  RESET_PC,        \* first fetch address
  Inst,            \* decoded instructions (decoded_ir_t without its tags)
  DecodeWord(_)    \* the decoder: what memory returned, decoded

ASSUME FrontendAssumption ==
  /\ IR_QUEUE_DEPTH \in Nat \ {0}
  /\ RESET_PC \in Word

VARIABLES
  imem,             \* instruction memory: what it answers, address by address
  pc_q,             \* next fetch address
  req_q,            \* the request in flight, None when outstanding_q is 0
  drop_q,           \* the answer to req_q must be thrown away
  out_q,            \* fetch packet on its way through ID, None when invalid
  ir_queue,         \* the IR queue, oldest entry first
  current_epoch_q,
  next_seq_id_q

ifVars       == <<pc_q, req_q, drop_q, out_q>>
frontendVars == <<imem, ifVars, ir_queue, current_epoch_q, next_seq_id_q>>

FetchReq == [pc : Word, epoch : Epoch, seq_id : SeqId]
FetchPkt == [pc : Word, epoch : Epoch, seq_id : SeqId, inst : Inst]

ASSUME NoneAssumption ==
  None \notin FetchReq /\ None \notin FetchPkt /\ None \notin [pc : Word, inst : Inst]

\* Instruction memory as the ID stage reads it.
Decoded == [a \in Word |-> DecodeWord(imem[a])]

FrontendTypeOK ==
  /\ Decoded \in [Word -> Inst]
  /\ pc_q \in Word
  /\ req_q \in FetchReq \cup {None}
  /\ drop_q \in BOOLEAN
  /\ out_q \in FetchPkt \cup {None}
  /\ ir_queue \in Seq(FetchPkt) /\ Len(ir_queue) <= IR_QUEUE_DEPTH
  /\ current_epoch_q \in Epoch
  /\ next_seq_id_q \in SeqId

\* The registers after reset.
FrontendInit ==
  /\ pc_q = RESET_PC
  /\ req_q = None
  /\ drop_q = FALSE
  /\ out_q = None
  /\ ir_queue = <<>>
  /\ current_epoch_q = 0
  /\ next_seq_id_q = 0

-----------------------------------------------------------------------------
\* Mutant of QueueReady: one entry too many.
QueueReadyLate == Len(ir_queue) # IR_QUEUE_DEPTH + 1

\* The queue takes a decoded instruction unless all its slots are taken.
QueueReady == Len(ir_queue) # IR_QUEUE_DEPTH

\* imem_req_o.req_valid in a cycle without a redirect.
ImemReqValid == req_q = None /\ out_q = None /\ QueueReady

\* Mutant of QueueStale: nothing filters the leftovers of an old path.
QueueStaleNever == FALSE

\* The head of the queue belongs to a path that a redirect has abandoned.
QueueStale == ir_queue # <<>> /\ Head(ir_queue).epoch # current_epoch_q

\* ir_valid_o in a cycle without a redirect.
IrValid == ir_queue # <<>> /\ ~QueueStale

\* A response is not passed on when it was marked by a redirect or carries an
\* old epoch.
ResponseStale == drop_q \/ req_q.epoch # current_epoch_q

\* Mutant of Discards: the mark of a dropped request is never taken back.
DiscardsNever(iresp) == FALSE

\* The answer of this cycle is thrown away; that ends the wait for it.
Discards(iresp) == iresp /\ ResponseStale

\* The decoder works on what memory returned; ID copies the tags of the packet.
Fetched(req) ==
  [pc |-> req.pc, epoch |-> req.epoch, seq_id |-> req.seq_id, inst |-> Decoded[req.pc]]

-----------------------------------------------------------------------------
\* Mutant of FrontendRedirect: the request in flight is not marked.
FrontendRedirectUnmarked(target, iresp) ==
  /\ pc_q' = target
  /\ out_q' = None
  /\ req_q' = IF iresp THEN None ELSE req_q
  /\ drop_q' = FALSE
  /\ current_epoch_q' = IncEpoch(current_epoch_q)
  /\ ir_queue' = IF QueueStale THEN Tail(ir_queue) ELSE ir_queue
  /\ UNCHANGED <<imem, next_seq_id_q>>

\* A clock edge with redirect_valid_i: iresp says whether the answer to the
\* outstanding request arrives in this very cycle.
FrontendRedirect(target, iresp) ==
  /\ pc_q' = target
  /\ out_q' = None
  /\ req_q' = IF iresp THEN None ELSE req_q
  /\ drop_q' = (req_q # None /\ ~iresp)
  /\ current_epoch_q' = IncEpoch(current_epoch_q)
  /\ ir_queue' = IF QueueStale THEN Tail(ir_queue) ELSE ir_queue
  /\ UNCHANGED <<imem, next_seq_id_q>>

\* A clock edge without one: a request may be accepted (iready), an answer may
\* arrive (iresp), the packet in out_q moves to the queue and the queue's head
\* leaves when the backend issues it or when it is stale.
FrontendRun(iready, iresp, issue) ==
  LET fire  == ImemReqValid /\ iready
      push  == out_q # None /\ QueueReady
      pop   == issue \/ QueueStale
      rest  == IF pop THEN Tail(ir_queue) ELSE ir_queue
  IN
  /\ pc_q' = IF fire THEN NextPc(pc_q) ELSE pc_q
  /\ next_seq_id_q' = IF fire THEN IncSeq(next_seq_id_q) ELSE next_seq_id_q
  /\ req_q' = IF fire
              THEN [pc |-> pc_q, epoch |-> current_epoch_q, seq_id |-> next_seq_id_q]
              ELSE IF iresp THEN None ELSE req_q
  /\ drop_q' = (drop_q /\ ~Discards(iresp))
  /\ out_q' = IF iresp /\ ~ResponseStale THEN Fetched(req_q)
              ELSE IF push THEN None ELSE out_q
  /\ ir_queue' = IF push THEN Append(rest, out_q) ELSE rest
  /\ UNCHANGED <<imem, current_epoch_q>>

-----------------------------------------------------------------------------
(* The path the frontend is on, as properties and proofs speak of it.       *)

\* The next request, and what comes right behind the queue on the current path:
\* the packet in ID, else the request in flight, else the next request.
NextFetch == [pc |-> pc_q, seq_id |-> next_seq_id_q]

BehindQueue ==
  IF out_q # None THEN [pc |-> out_q.pc, seq_id |-> out_q.seq_id]
  ELSE IF req_q # None /\ ~drop_q THEN [pc |-> req_q.pc, seq_id |-> req_q.seq_id]
  ELSE NextFetch

\* The address of the first entry of the queue that carries the epoch, or what
\* comes behind the queue when no entry does.
OldestPc(queue, epoch, behind) ==
  LET live == {i \in 1 .. Len(queue) : queue[i].epoch = epoch}
  IN  IF live = {} THEN behind
      ELSE queue[CHOOSE i \in live : \A j \in live : i <= j].pc

\* The oldest instruction of the current path that was not handed over yet.
OldestFetchPc == OldestPc(ir_queue, current_epoch_q, BehindQueue.pc)
=============================================================================
