-------------------------- MODULE FetchUnitProofs ---------------------------
(***************************************************************************)
(* The frontend delivers the current path for every queue depth, number of *)
(* tags, address width and program.                                        *)
(***************************************************************************)
EXTENDS FetchUnit, WellFoundedInduction, TLAPS

Inv == TypeOK /\ PathInv

-----------------------------------------------------------------------------
(* A set of numbers has a least element.                                    *)
LEMMA LeastElement ==
  ASSUME NEW S \in SUBSET Nat, NEW n \in S
  PROVE  \E m \in S : \A k \in S : m <= k
<1> DEFINE Below == {ss \in Nat \X Nat : ss[1] < ss[2]}
<1>1. IsWellFoundedOn(Below, Nat)
  BY NatLessThanWellFounded DEF OpToRel
<1>2. PICK m \in S : \A y \in S : ~ (<<y, m>> \in Below)
  <2> HIDE DEF Below
  <2>. QED  BY <1>1, WFMin
<1>3. \A y \in S : <<y, m>> \in Below <=> y < m
  OBVIOUS
<1>4. m \in Nat /\ S \subseteq Nat
  OBVIOUS
<1> HIDE DEF Below
<1>5. \A y \in S : y \in Nat /\ ~(y < m)
  BY <1>2, <1>3, <1>4
<1>6. \A y \in S : m <= y
  BY <1>4, <1>5
<1>. QED  BY <1>6

-----------------------------------------------------------------------------
(* Tags and addresses.                                                      *)

\* Stepping an epoch back undoes a redirect, and neither one redirect nor the
\* step back lands on the tag it started from or on the other's.
LEMMA EpochFacts ==
  ASSUME NEW e \in Epoch
  PROVE  /\ IncEpoch(e) \in Epoch /\ DecEpoch(e) \in Epoch
         /\ DecEpoch(IncEpoch(e)) = e
         /\ e # IncEpoch(e) /\ DecEpoch(e) # IncEpoch(e)
         /\ e # DecEpoch(e) /\ e # DecEpoch(DecEpoch(e))
BY UarchAssumption DEF IncEpoch, DecEpoch, Epoch

\* Sequence ids and addresses wrap inside their types.
LEMMA CounterTypes ==
  /\ \A s \in SeqId : IncSeq(s) \in SeqId
  /\ \A pc \in Word : NextPc(pc) \in Word
<1>1. \A s \in SeqId : IncSeq(s) \in SeqId
  BY UarchAssumption DEF IncSeq, SeqId
<1>2. \A pc \in Word : NextPc(pc) \in Word
  BY UarchAssumption DEF NextPc, Add, Word
<1>. QED  BY <1>1, <1>2

\* What taking the head and appending an entry do to a queue, slot by slot.
LEMMA QueueStep ==
  ASSUME NEW S, NEW q \in Seq(S), NEW x \in S, NEW pop \in BOOLEAN, NEW push \in BOOLEAN,
         pop => q # <<>>,
         NEW r, r = IF push THEN Append(IF pop THEN Tail(q) ELSE q, x)
                    ELSE IF pop THEN Tail(q) ELSE q,
         NEW n, n = IF pop THEN Len(q) - 1 ELSE Len(q)
  PROVE  /\ r \in Seq(S) /\ n \in Nat
         /\ Len(r) = IF push THEN n + 1 ELSE n
         /\ \A i \in 1 .. n : r[i] = q[IF pop THEN i + 1 ELSE i]
         /\ push => r[n + 1] = x
<1> DEFINE rest == IF pop THEN Tail(q) ELSE q
<1>1. /\ rest \in Seq(S) /\ Len(rest) = n /\ n \in Nat
      /\ \A i \in 1 .. n : rest[i] = q[IF pop THEN i + 1 ELSE i]
  <2>1. CASE pop
    BY <2>1
  <2>2. CASE ~pop
    BY <2>2
  <2>. QED  BY <2>1, <2>2
<1>2. r = IF push THEN Append(rest, x) ELSE rest
  OBVIOUS
<1> HIDE DEF rest
<1>3. CASE push
  BY <1>1, <1>2, <1>3
<1>4. CASE ~push
  BY <1>1, <1>2, <1>4
<1>. QED  BY <1>3, <1>4

\* The oldest entry of an epoch is the one with no other of that epoch before it.
LEMMA OldestIs ==
  ASSUME NEW q, Len(q) \in Nat, NEW e, NEW b, NEW i \in 1 .. Len(q),
         q[i].epoch = e, \A j \in 1 .. i - 1 : q[j].epoch # e
  PROVE  OldestPc(q, e, b) = q[i].pc
<1> DEFINE live == {k \in 1 .. Len(q) : q[k].epoch = e}
<1>1. i \in live /\ \A j \in live : i <= j
  OBVIOUS
<1>2. \A k \in live : (\A j \in live : k <= j) => k = i
  BY <1>1
<1>3. (CHOOSE k \in live : \A j \in live : k <= j) = i
  BY <1>1, <1>2
<1>. QED  BY <1>1, <1>3 DEF OldestPc

\* A queue without an entry of the epoch has nothing older than what follows it.
LEMMA OldestIsBehind ==
  ASSUME NEW q, NEW e, NEW b, \A i \in 1 .. Len(q) : q[i].epoch # e
  PROVE  OldestPc(q, e, b) = b
BY DEF OldestPc
-----------------------------------------------------------------------------
(* A cycle without a redirect.                                              *)

\* The registers between memory and the queue in such a cycle: the packet in ID
\* enters the queue, and what comes behind the queue moves on only then.
LEMMA RunFetch ==
  ASSUME Inv, NEW iready \in BOOLEAN, NEW iresp \in BOOLEAN, NEW issue \in BOOLEAN,
         iresp => req_q # None,
         FrontendRun(iready, iresp, issue)
  PROVE  /\ pc_q' \in Word /\ next_seq_id_q' \in SeqId
         /\ req_q' \in FetchReq \cup {None} /\ out_q' \in FetchPkt \cup {None}
         /\ drop_q' \in BOOLEAN
         /\ BehindQueue' = IF out_q # None THEN NextFetch ELSE BehindQueue
         /\ out_q # None => req_q' = None /\ out_q' = None
         /\ out_q' # None => /\ req_q' = None
                            /\ out_q'.epoch = current_epoch_q
                            /\ out_q'.inst = Decoded[out_q'.pc]
                            /\ Follows(out_q', NextFetch')
         /\ (req_q' # None \/ out_q' # None) => QueueReady /\ out_q = None
         /\ drop_q' => drop_q /\ req_q' = req_q /\ req_q # None
         /\ req_q' # None /\ ~drop_q' =>
              req_q'.epoch = current_epoch_q /\ Follows(req_q', NextFetch')
<1> DEFINE fire == ImemReqValid /\ iready
<1> USE DEF Inv, PathInv, TypeOK, FrontendTypeOK, FetchInv, NextFetch
<1>1. CASE out_q # None
  <2>1. req_q = None /\ iresp = FALSE /\ ~fire /\ QueueReady
    BY <1>1 DEF ImemReqValid
  <2>. QED  BY <1>1, <2>1 DEF FrontendRun, Discards, BehindQueue
<1>2. CASE out_q = None /\ req_q = None /\ fire
  <2> DEFINE req == [pc |-> pc_q, epoch |-> current_epoch_q, seq_id |-> next_seq_id_q]
  <2>1. /\ req_q' = req /\ req \in FetchReq /\ req # None
        /\ pc_q' = NextPc(pc_q) /\ next_seq_id_q' = IncSeq(next_seq_id_q)
        /\ out_q' = None /\ drop_q' = FALSE
    BY <1>2, NoneAssumption DEF FrontendRun, Discards, FetchReq
  <2>2. pc_q' \in Word /\ next_seq_id_q' \in SeqId
    BY <2>1, CounterTypes
  <2>3. QueueReady
    BY <1>2 DEF ImemReqValid
  <2>. QED  BY <1>2, <2>1, <2>2, <2>3 DEF BehindQueue, Follows
<1>3. CASE out_q = None /\ ~fire /\ ~iresp
  BY <1>3 DEF FrontendRun, Discards, BehindQueue
<1>4. CASE out_q = None /\ iresp /\ ResponseStale
  <2>1. drop_q /\ req_q # None /\ ~fire
    BY <1>4 DEF ResponseStale, ImemReqValid
  <2>. QED  BY <1>4, <2>1 DEF FrontendRun, Discards, BehindQueue
<1>5. CASE out_q = None /\ iresp /\ ~ResponseStale
  <2>1. ~drop_q /\ req_q # None /\ ~fire /\ req_q \in FetchReq
    BY <1>5 DEF ResponseStale, ImemReqValid
  <2>2. Fetched(req_q) \in FetchPkt /\ Fetched(req_q) # None
    BY <2>1, NoneAssumption DEF Fetched, FetchReq, FetchPkt
  <2>. QED  BY <1>5, <2>1, <2>2 DEF FrontendRun, Discards, BehindQueue, Fetched, Follows
<1>. QED  BY <1>1, <1>2, <1>3, <1>4, <1>5 DEF ImemReqValid

\* The queue in such a cycle, slot by slot.
LEMMA RunQueue ==
  ASSUME Inv, NEW iready \in BOOLEAN, NEW iresp \in BOOLEAN, NEW issue \in BOOLEAN,
         issue => IrValid,
         FrontendRun(iready, iresp, issue),
         NEW n, n = IF issue \/ QueueStale THEN Len(ir_queue) - 1 ELSE Len(ir_queue)
  PROVE  /\ ir_queue' \in Seq(FetchPkt) /\ n \in Nat
         /\ Len(ir_queue') = IF out_q # None THEN n + 1 ELSE n
         /\ \A i \in 1 .. n : ir_queue'[i] = ir_queue[IF issue \/ QueueStale THEN i + 1 ELSE i]
         /\ out_q # None => ir_queue'[n + 1] = out_q
<1> DEFINE push == out_q # None
           pop  == issue \/ QueueStale
<1> USE DEF Inv, PathInv, TypeOK
<1>1. pop => ir_queue # <<>>
  BY DEF IrValid, QueueStale
<1>2. push => QueueReady
  BY DEF FetchInv
<1>3. ir_queue' = IF push THEN Append(IF pop THEN Tail(ir_queue) ELSE ir_queue, out_q)
                  ELSE IF pop THEN Tail(ir_queue) ELSE ir_queue
  BY <1>2 DEF FrontendRun, Discards
<1>4. CASE push
  BY <1>1, <1>3, <1>4, QueueStep DEF FrontendTypeOK
<1>5. CASE ~push
  BY <1>1, <1>3, <1>5 DEF FrontendTypeOK
<1>. QED  BY <1>4, <1>5

\* The queue in such a cycle, for any epochs a leftover may carry afterwards.
LEMMA RunInv ==
  ASSUME Inv, NEW iready \in BOOLEAN, NEW iresp \in BOOLEAN, NEW issue \in BOOLEAN,
         iresp => req_q # None, issue => IrValid,
         FrontendRun(iready, iresp, issue),
         \A i \in 1 .. Len(ir_queue) :
           Live(i) \/ (QueueStale /\ i = 1) \/ ir_queue[i].epoch \in StaleEpochs',
         drop_q => req_q.epoch \in StaleEpochs'
  PROVE  FrontendTypeOK' /\ PathInv'
<1> DEFINE push == out_q # None
           pop  == issue \/ QueueStale
           n    == IF pop THEN Len(ir_queue) - 1 ELSE Len(ir_queue)
           old(i) == IF pop THEN i + 1 ELSE i
<1> USE DEF Inv, PathInv, TypeOK
<1>1. /\ ir_queue' \in Seq(FetchPkt) /\ n \in Nat
      /\ Len(ir_queue') = IF push THEN n + 1 ELSE n
      /\ \A i \in 1 .. n : ir_queue'[i] = ir_queue[old(i)]
      /\ push => ir_queue'[n + 1] = out_q
  BY RunQueue
<1>2. \A i \in 1 .. n : old(i) \in 1 .. Len(ir_queue)
  BY <1>1 DEF FrontendTypeOK
<1>3. /\ Decoded' = Decoded /\ current_epoch_q' = current_epoch_q
      /\ push => QueueReady
  BY DEF FrontendRun, Discards, FetchInv, Decoded
<1>4. FrontendTypeOK'
  <2>1. Len(ir_queue') <= IR_QUEUE_DEPTH
    BY <1>1, <1>3, FrontendAssumption DEF QueueReady, FrontendTypeOK
  <2>. QED  BY <1>1, <1>3, <2>1, RunFetch DEF FrontendTypeOK
<1>5. QueueInv'
  <2> SUFFICES ASSUME NEW i \in 1 .. Len(ir_queue')
               PROVE  /\ ir_queue'[i].inst = Decoded'[ir_queue'[i].pc]
                      /\ Live(i)' \/ ir_queue'[i].epoch \in StaleEpochs'
                      /\ Live(i)' => \A j \in i .. Len(ir_queue') : Live(j)'
                      /\ Live(i)' /\ i < Len(ir_queue') => Follows(ir_queue'[i], ir_queue'[i + 1])
                      /\ Live(i)' /\ i = Len(ir_queue') => Follows(ir_queue'[i], BehindQueue')
    BY DEF QueueInv
  <2>1. CASE i \in 1 .. n
    <3>1. /\ ir_queue'[i] = ir_queue[old(i)] /\ old(i) \in 1 .. Len(ir_queue)
          /\ Live(i)' <=> Live(old(i))
      BY <1>1, <1>2, <1>3, <2>1 DEF Live
    <3>2. ir_queue'[i].inst = Decoded'[ir_queue'[i].pc]
      BY <1>3, <3>1 DEF QueueInv
    <3>3. Live(i)' \/ ir_queue'[i].epoch \in StaleEpochs'
      BY <2>1, <3>1
    <3>4. ASSUME Live(i)', NEW j \in i .. Len(ir_queue') PROVE Live(j)'
      <4>1. CASE j \in 1 .. n
        <5>1. ir_queue'[j] = ir_queue[old(j)] /\ old(j) \in old(i) .. Len(ir_queue)
          BY <1>1, <1>2, <2>1, <4>1
        <5>. QED  BY <1>3, <3>1, <3>4, <5>1 DEF Live, QueueInv
      <4>2. CASE j = n + 1 /\ push
        BY <1>1, <1>3, <4>2 DEF Live, FetchInv
      <4>. QED  BY <1>1, <2>1, <4>1, <4>2
    <3>5. ASSUME Live(i)', i < Len(ir_queue')
          PROVE  Follows(ir_queue'[i], ir_queue'[i + 1])
      <4>1. CASE i < n
        <5>1. ir_queue'[i + 1] = ir_queue[old(i) + 1] /\ old(i) < Len(ir_queue)
          <6>1. i + 1 \in 1 .. n /\ old(i + 1) = old(i) + 1
            BY <1>1, <2>1, <4>1
          <6>2. ir_queue'[i + 1] = ir_queue[old(i + 1)] /\ old(i + 1) \in 1 .. Len(ir_queue)
            BY <1>1, <1>2, <6>1
          <6>. QED  BY <6>1, <6>2, <3>1 DEF FrontendTypeOK
        <5>. QED  BY <3>1, <3>5, <5>1 DEF QueueInv
      <4>2. CASE i = n
        <5>1. push /\ ir_queue'[i + 1] = out_q /\ old(i) = Len(ir_queue)
          BY <1>1, <3>5, <4>2 DEF FrontendTypeOK
        <5>2. Follows(ir_queue[old(i)], BehindQueue)
          BY <3>1, <3>5, <5>1 DEF QueueInv
        <5>. QED  BY <3>1, <5>1, <5>2 DEF BehindQueue, Follows
      <4>. QED  BY <2>1, <4>1, <4>2
    <3>6. ASSUME Live(i)', i = Len(ir_queue') PROVE Follows(ir_queue'[i], BehindQueue')
      <4>1. ~push /\ old(i) = Len(ir_queue)
        BY <1>1, <2>1, <3>6 DEF FrontendTypeOK
      <4>2. BehindQueue' = BehindQueue
        BY <4>1, RunFetch
      <4>. QED  BY <3>1, <3>6, <4>1, <4>2 DEF QueueInv
    <3>. QED  BY <3>2, <3>3, <3>4, <3>5, <3>6
  <2>2. CASE push /\ i = n + 1
    <3>1. ir_queue'[i] = out_q /\ i = Len(ir_queue') /\ Live(i)'
      BY <1>1, <1>3, <2>2 DEF Live, FetchInv
    <3>2. BehindQueue' = NextFetch
      BY <2>2, RunFetch
    <3>. QED  BY <1>1, <1>3, <2>2, <3>1, <3>2 DEF FetchInv
  <2>. QED  BY <1>1, <2>1, <2>2
<1>6. FetchInv'
  <2>1. drop_q' => req_q' # None /\ \A i \in 1 .. Len(ir_queue') : ~Live(i)'
    <3> SUFFICES ASSUME drop_q' PROVE \A i \in 1 .. Len(ir_queue') : ~Live(i)'
      BY RunFetch
    <3>1. ~push /\ \A i \in 1 .. Len(ir_queue) : ~Live(i)
      BY RunFetch DEF FetchInv
    <3>. QED  BY <1>1, <1>2, <1>3, <3>1 DEF Live
  <2>2. (req_q' # None \/ out_q' # None) => QueueReady'
    BY <1>1, RunFetch, FrontendAssumption DEF QueueReady, FrontendTypeOK
  <2>3. req_q' # None /\ drop_q' => req_q'.epoch \in StaleEpochs'
    BY RunFetch
  <2>. QED  BY <1>3, <2>1, <2>2, <2>3, RunFetch DEF FetchInv
<1>. QED  BY <1>4, <1>5, <1>6

-----------------------------------------------------------------------------
(* A redirect.                                                              *)

\* The new epoch is neither the current one nor one a leftover can carry, as
\* long as the backend has a redirect left; and what was current or stale
\* before is among the leftovers after.
LEMMA RedirectEpochs ==
  ASSUME TypeOK, credit > 0, credit' \in 0 .. credit - 1,
         current_epoch_q' = IncEpoch(current_epoch_q)
  PROVE  /\ current_epoch_q' \notin StaleEpochs \cup {current_epoch_q}
         /\ StaleEpochs \cup {current_epoch_q} \subseteq StaleEpochs'
<1>1. credit \in {1, 2} /\ current_epoch_q \in Epoch
  BY DEF TypeOK, FrontendTypeOK
<1>2. DecEpoch(current_epoch_q') = current_epoch_q
  BY <1>1, EpochFacts
<1>3. /\ current_epoch_q' # current_epoch_q
      /\ current_epoch_q' # DecEpoch(current_epoch_q)
  BY <1>1, EpochFacts
<1>4. CASE credit = 2
  BY <1>2, <1>3, <1>4 DEF StaleEpochs
<1>5. CASE credit = 1
  BY <1>2, <1>3, <1>5 DEF StaleEpochs
<1>. QED  BY <1>1, <1>4, <1>5

\* After a redirect everything in the queue is a leftover and ID is empty.
LEMMA RedirectInv ==
  ASSUME Inv, NEW target \in Word, NEW iresp \in BOOLEAN, Redirect(target, iresp)
  PROVE  /\ FrontendTypeOK' /\ PathInv'
         /\ \A i \in 1 .. Len(ir_queue') : ~Live(i)'
         /\ BehindQueue'.pc = target
<1> USE DEF Inv, PathInv, TypeOK
<1>1. /\ current_epoch_q' \notin StaleEpochs \cup {current_epoch_q}
      /\ StaleEpochs \cup {current_epoch_q} \subseteq StaleEpochs'
  BY RedirectEpochs DEF Redirect, FrontendRedirect
<1>2. Decoded' = Decoded /\ out_q' = None /\ pc_q' = target
  BY DEF Redirect, FrontendRedirect, Decoded
<1>3. /\ ir_queue' \in Seq(FetchPkt) /\ Len(ir_queue') <= Len(ir_queue)
      /\ \A i \in 1 .. Len(ir_queue') :
           \E j \in 1 .. Len(ir_queue) : ir_queue'[i] = ir_queue[j]
  <2>1. CASE QueueStale
    <3>1. ir_queue' = Tail(ir_queue) /\ ir_queue # <<>>
      BY <2>1 DEF QueueStale, Redirect, FrontendRedirect
    <3>. QED  BY <3>1 DEF FrontendTypeOK
  <2>2. CASE ~QueueStale
    <3>1. ir_queue' = ir_queue
      BY <2>2 DEF Redirect, FrontendRedirect
    <3>. QED  BY <3>1 DEF FrontendTypeOK
  <2>. QED  BY <2>1, <2>2
<1>4. /\ req_q' \in {None, req_q}
      /\ drop_q' = (req_q' # None)
  BY DEF Redirect, FrontendRedirect
<1>5. FrontendTypeOK'
  <2>1. current_epoch_q' \in Epoch
    BY EpochFacts DEF FrontendTypeOK, Redirect, FrontendRedirect
  <2>2. next_seq_id_q' = next_seq_id_q
    BY DEF Redirect, FrontendRedirect
  <2>. QED  BY <1>2, <1>3, <1>4, <2>1, <2>2, FrontendAssumption DEF FrontendTypeOK
<1>6. \A i \in 1 .. Len(ir_queue') : ~Live(i)' /\ ir_queue'[i].epoch \in StaleEpochs'
  BY <1>1, <1>3 DEF QueueInv, Live
<1>7. QueueInv'
  BY <1>2, <1>3, <1>6 DEF QueueInv
<1>8. FetchInv'
  <2>1. req_q' # None => req_q'.epoch \in StaleEpochs' /\ QueueReady'
    BY <1>1, <1>3, <1>4, FrontendAssumption DEF FetchInv, QueueReady, FrontendTypeOK
  <2>. QED  BY <1>2, <1>4, <1>6, <2>1 DEF FetchInv
<1>9. BehindQueue'.pc = target
  BY <1>2, <1>4 DEF BehindQueue, NextFetch
<1>. QED  BY <1>5, <1>6, <1>7, <1>8, <1>9

-----------------------------------------------------------------------------
(* The three kinds of step.                                                 *)

LEMMA AnswersFact == ASSUME NEW iresp \in Answers PROVE iresp \in BOOLEAN /\ (iresp => req_q # None)
BY DEF Answers

\* When the head is issued, everything behind it is of the current path too.
LEMMA IssueInv ==
  ASSUME Inv, NEW iready \in BOOLEAN, NEW iresp \in Answers, Issue(iready, iresp)
  PROVE  Inv'
<1> USE DEF Inv, PathInv, TypeOK
<1>1. IrValid /\ FrontendRun(iready, iresp, TRUE) /\ credit' = 2
  BY DEF Issue
<1>2. ir_queue # <<>> /\ Len(ir_queue) \in Nat \ {0} /\ Live(1)
  BY <1>1 DEF IrValid, QueueStale, Live, FrontendTypeOK
<1>3. \A i \in 1 .. Len(ir_queue) : Live(i)
  BY <1>2 DEF QueueInv
<1>4. ~drop_q
  BY <1>2, <1>3 DEF FetchInv
<1>5. FrontendTypeOK' /\ PathInv'
  BY <1>1, <1>3, <1>4, AnswersFact, RunInv
<1>6. last' \in [pc : Word, inst : Inst]
  <2>1. Head(ir_queue) \in FetchPkt
    BY <1>2 DEF FrontendTypeOK
  <2>. QED  BY <2>1 DEF Issue, FetchPkt
<1>. QED  BY <1>1, <1>5, <1>6

\* When nothing is issued the backend can only lose redirects.
LEMMA WaitInv ==
  ASSUME Inv, NEW iready \in BOOLEAN, NEW iresp \in Answers, Wait(iready, iresp)
  PROVE  Inv'
<1> USE DEF Inv, PathInv, TypeOK
<1>1. /\ FrontendRun(iready, iresp, FALSE)
      /\ credit' \in 0 .. credit /\ last' = last /\ current_epoch_q' = current_epoch_q
  BY DEF Wait, FrontendRun
<1>2. StaleEpochs \subseteq StaleEpochs'
  <2>1. credit \in {0, 1, 2}
    OBVIOUS
  <2>2. CASE credit = 2
    BY <2>2 DEF StaleEpochs
  <2>3. CASE credit = 1
    BY <1>1, <2>3 DEF StaleEpochs
  <2>4. CASE credit = 0
    BY <1>1, <2>4 DEF StaleEpochs
  <2>. QED  BY <2>1, <2>2, <2>3, <2>4
<1>3. /\ \A i \in 1 .. Len(ir_queue) : Live(i) \/ ir_queue[i].epoch \in StaleEpochs'
      /\ drop_q => req_q.epoch \in StaleEpochs'
  BY <1>2 DEF QueueInv, FetchInv
<1>4. FrontendTypeOK' /\ PathInv'
  BY <1>1, <1>3, AnswersFact, RunInv
<1>. QED  BY <1>1, <1>4

\* PathInv and the types hold in every state: two bits of epoch are enough.
THEOREM PathInvariant == Spec => [](TypeOK /\ PathInv)
<1>1. Init => Inv
  <2> SUFFICES ASSUME Init PROVE Inv
    OBVIOUS
  <2>1. TypeOK
    <3>1. 0 \in Epoch /\ 0 \in SeqId
      BY UarchAssumption DEF Epoch, SeqId
    <3>2. ir_queue \in Seq(FetchPkt) /\ Len(ir_queue) <= IR_QUEUE_DEPTH
      BY FrontendAssumption DEF Init, FrontendInit
    <3>3. Decoded \in [Word -> Inst] /\ pc_q \in Word /\ drop_q \in BOOLEAN
      BY FrontendAssumption DEF Init, FrontendInit
    <3>4. req_q \in FetchReq \cup {None} /\ out_q \in FetchPkt \cup {None}
      BY DEF Init, FrontendInit
    <3>5. credit \in 0 .. 2 /\ last \in [pc : Word, inst : Inst] \cup {None}
      BY DEF Init
    <3>. QED  BY <3>1, <3>2, <3>3, <3>4, <3>5 DEF Init, FrontendInit, TypeOK, FrontendTypeOK
  <2>2. QueueInv
    BY DEF Init, FrontendInit, QueueInv
  <2>3. FetchInv
    BY DEF Init, FrontendInit, FetchInv
  <2>. QED  BY <2>1, <2>2, <2>3 DEF Inv, PathInv
<1>2. Inv /\ [Next]_vars => Inv'
  <2> SUFFICES ASSUME Inv, [Next]_vars PROVE Inv'
    OBVIOUS
  <2>1. ASSUME NEW iresp \in Answers, NEW iready \in BOOLEAN, Issue(iready, iresp)
        PROVE  Inv'
    BY <2>1, IssueInv
  <2>2. ASSUME NEW iresp \in Answers, NEW iready \in BOOLEAN, Wait(iready, iresp)
        PROVE  Inv'
    BY <2>2, WaitInv
  <2>3. ASSUME NEW iresp \in Answers, NEW target \in Word, Redirect(target, iresp)
        PROVE  Inv'
    <3>1. FrontendTypeOK' /\ PathInv'
      BY <2>3, AnswersFact, RedirectInv
    <3>2. credit' \in 0 .. 2 /\ last' = last
      BY <2>3 DEF Redirect, Inv, TypeOK
    <3>. QED  BY <3>1, <3>2 DEF Inv, TypeOK
  <2>4. CASE UNCHANGED vars
    BY <2>4 DEF vars, frontendVars, ifVars, Inv, TypeOK, PathInv, FrontendTypeOK, QueueInv,
                FetchInv, Live, StaleEpochs, BehindQueue, NextFetch, QueueReady, Decoded
  <2>. QED  BY <2>1, <2>2, <2>3, <2>4 DEF Next
<1>. QED  BY <1>1, <1>2, PTL DEF Spec, Inv

\* So do the types alone: with any queue depth and any number of tags no register
\* of the frontend leaves its width, and the queue never outgrows its slots.
THEOREM FetchTypesHold == Spec => []TypeOK
BY PathInvariant, PTL

-----------------------------------------------------------------------------
(* Refinement.                                                              *)

\* A cycle that neither issues nor redirects leaves the oldest instruction.
LEMMA WaitKeepsOldest ==
  ASSUME Inv, NEW iready \in BOOLEAN, NEW iresp \in Answers,
         FrontendRun(iready, iresp, FALSE)
  PROVE  OldestFetchPc' = OldestFetchPc
<1> DEFINE push == out_q # None
           n    == IF QueueStale THEN Len(ir_queue) - 1 ELSE Len(ir_queue)
           old(i) == IF QueueStale THEN i + 1 ELSE i
<1> USE DEF Inv, PathInv, TypeOK
<1>1. /\ ir_queue' \in Seq(FetchPkt) /\ n \in Nat
      /\ Len(ir_queue') = IF push THEN n + 1 ELSE n
      /\ \A i \in 1 .. n : ir_queue'[i] = ir_queue[old(i)]
      /\ push => ir_queue'[n + 1] = out_q
  BY RunQueue, AnswersFact
<1>2. current_epoch_q' = current_epoch_q /\ Len(ir_queue) \in Nat
  BY DEF FrontendRun, Discards, FrontendTypeOK
<1>3. QueueStale => ir_queue # <<>> /\ ~Live(1)
  BY DEF QueueStale, Live, FrontendTypeOK
<1>4. CASE \A i \in 1 .. Len(ir_queue) : ~Live(i)
  <2>1. OldestFetchPc = BehindQueue.pc
    BY <1>4, OldestIsBehind DEF OldestFetchPc, Live
  <2>2. \A i \in 1 .. n : ir_queue'[i].epoch # current_epoch_q
    <3>1. \A i \in 1 .. n : old(i) \in 1 .. Len(ir_queue)
      BY <1>1, <1>2
    <3>. QED  BY <1>1, <1>4, <3>1 DEF Live
  <2>3. CASE push
    <3>1. /\ n + 1 \in 1 .. Len(ir_queue') /\ ir_queue'[n + 1].epoch = current_epoch_q
          /\ \A j \in 1 .. (n + 1) - 1 : ir_queue'[j].epoch # current_epoch_q
      BY <1>1, <2>2, <2>3 DEF FetchInv
    <3>2. OldestPc(ir_queue', current_epoch_q, BehindQueue'.pc) = out_q.pc
      <4>1. PICK m \in 1 .. Len(ir_queue') : m = n + 1
        BY <3>1
      <4>2. Len(ir_queue') \in Nat
        BY <1>1
      <4>3. /\ ir_queue'[m].epoch = current_epoch_q
            /\ \A j \in 1 .. m - 1 : ir_queue'[j].epoch # current_epoch_q
        BY <3>1, <4>1
      <4>4. OldestPc(ir_queue', current_epoch_q, BehindQueue'.pc) = ir_queue'[m].pc
        BY ONLY <4>2, <4>3, OldestIs, Zenon
      <4>. QED  BY <1>1, <2>3, <4>1, <4>4
    <3>. QED  BY <1>2, <2>1, <2>3, <3>2 DEF OldestFetchPc, BehindQueue
  <2>4. CASE ~push
    <3>1. BehindQueue' = BehindQueue
      BY <2>4, RunFetch, AnswersFact
    <3>2. OldestPc(ir_queue', current_epoch_q, BehindQueue'.pc) = BehindQueue'.pc
      BY <1>1, <2>2, <2>4, OldestIsBehind
    <3>. QED  BY <1>2, <2>1, <3>1, <3>2 DEF OldestFetchPc
  <2>. QED  BY <2>3, <2>4
<1>5. ASSUME NEW k \in 1 .. Len(ir_queue), Live(k), \A j \in 1 .. k - 1 : ~Live(j)
      PROVE  OldestFetchPc' = OldestFetchPc
  <2>1. OldestFetchPc = ir_queue[k].pc
    BY <1>2, <1>5, OldestIs DEF OldestFetchPc, Live
  <2>2. PICK i \in 1 .. n : old(i) = k
    <3>1. CASE QueueStale
      <4>1. k # 1 /\ k - 1 \in 1 .. n /\ old(k - 1) = k
        BY <1>2, <1>3, <1>5, <3>1
      <4>. QED  BY <4>1
    <3>2. CASE ~QueueStale
      BY <1>2, <3>2
    <3>. QED  BY <3>1, <3>2
  <2>3. /\ i \in 1 .. Len(ir_queue') /\ ir_queue'[i] = ir_queue[k]
        /\ \A j \in 1 .. i - 1 : ir_queue'[j].epoch # current_epoch_q
    <3>1. \A j \in 1 .. i - 1 : j \in 1 .. n /\ old(j) \in 1 .. k - 1
      BY <1>1, <2>2
    <3>2. i \in 1 .. Len(ir_queue') /\ ir_queue'[i] = ir_queue[k]
      BY <1>1, <2>2
    <3>3. ASSUME NEW j \in 1 .. i - 1 PROVE ir_queue'[j].epoch # current_epoch_q
      <4>1. j \in 1 .. n /\ old(j) \in 1 .. k - 1
        BY <3>1
      <4>2. ir_queue'[j] = ir_queue[old(j)] /\ ~Live(old(j))
        BY <1>1, <1>5, <4>1
      <4>. QED  BY <4>2 DEF Live
    <3>. QED  BY <3>2, <3>3
  <2>4. OldestPc(ir_queue', current_epoch_q, BehindQueue'.pc) = ir_queue'[i].pc
    <3>1. Len(ir_queue') \in Nat /\ ir_queue'[i].epoch = current_epoch_q
      BY <1>1, <1>5, <2>3 DEF Live
    <3> HIDE DEF Inv, PathInv, TypeOK
    <3>. QED  BY <2>3, <3>1, OldestIs, Zenon
  <2>. QED  BY <1>2, <2>1, <2>3, <2>4 DEF OldestFetchPc
<1>6. CASE \E i \in 1 .. Len(ir_queue) : Live(i)
  <2> DEFINE S == {i \in 1 .. Len(ir_queue) : Live(i)}
  <2>1. S \in SUBSET Nat /\ S # {}
    BY <1>2, <1>6
  <2>2. PICK k \in S : \A j \in S : k <= j
    <3> HIDE DEF S
    <3>. QED  BY <2>1, LeastElement
  <2>3. \A j \in 1 .. k - 1 : ~Live(j)
    BY <1>2, <2>2
  <2>. QED  BY <2>2, <2>3, <1>5
<1>. QED  BY <1>4, <1>6

\* An issue hands over the oldest instruction, and the one after it becomes the
\* oldest, wherever it is: in the queue, in ID, in flight or not yet requested.
LEMMA IssueTakesOldest ==
  ASSUME Inv, NEW iready \in BOOLEAN, NEW iresp \in Answers,
         IrValid, FrontendRun(iready, iresp, TRUE)
  PROVE  /\ Head(ir_queue) = ir_queue[1] /\ ir_queue[1].inst = Decoded[ir_queue[1].pc]
         /\ OldestFetchPc = ir_queue[1].pc
         /\ OldestFetchPc' = NextPc(OldestFetchPc)
<1> DEFINE push == out_q # None
           n    == Len(ir_queue) - 1
<1>1. IrValid /\ FrontendRun(iready, iresp, TRUE)
  OBVIOUS
<1>2. /\ ir_queue # <<>> /\ Len(ir_queue) \in Nat \ {0} /\ Live(1)
      /\ \A i \in 1 .. Len(ir_queue) : Live(i)
  BY <1>1 DEF IrValid, QueueStale, Live, QueueInv, Inv, TypeOK, FrontendTypeOK, PathInv
<1>3. /\ ir_queue' \in Seq(FetchPkt) /\ n \in Nat
      /\ Len(ir_queue') = IF push THEN n + 1 ELSE n
      /\ \A i \in 1 .. n : ir_queue'[i] = ir_queue[i + 1]
      /\ push => ir_queue'[n + 1] = out_q
  BY <1>1, RunQueue, AnswersFact
<1>4. OldestFetchPc = ir_queue[1].pc
  <2>1. /\ 1 \in 1 .. Len(ir_queue) /\ Len(ir_queue) \in Nat
        /\ ir_queue[1].epoch = current_epoch_q
        /\ \A j \in 1 .. 1 - 1 : ir_queue[j].epoch # current_epoch_q
    BY <1>2 DEF Live
  <2>. QED  BY <2>1, OldestIs, Zenon DEF OldestFetchPc
<1>5. Head(ir_queue) = ir_queue[1] /\ ir_queue[1].inst = Decoded[ir_queue[1].pc]
  BY <1>2 DEF QueueInv, Inv, PathInv, TypeOK, FrontendTypeOK
<1>6. current_epoch_q' = current_epoch_q
  BY <1>1 DEF FrontendRun, Discards
<1>7. ASSUME Len(ir_queue') # 0, ir_queue'[1].epoch = current_epoch_q
      PROVE  OldestFetchPc' = ir_queue'[1].pc
  <2>1. /\ 1 \in 1 .. Len(ir_queue') /\ Len(ir_queue') \in Nat
        /\ \A j \in 1 .. 1 - 1 : ir_queue'[j].epoch # current_epoch_q
    <3>1. Len(ir_queue') \in Nat \ {0}
      BY <1>3, <1>7
    <3>. QED  BY <3>1
  <2>2. OldestPc(ir_queue', current_epoch_q, BehindQueue'.pc) = ir_queue'[1].pc
    BY <1>7, <2>1, OldestIs, Zenon
  <2>. QED  BY <1>6, <2>2 DEF OldestFetchPc
<1>8. OldestFetchPc' = NextPc(OldestFetchPc)
  <2>1. CASE n # 0
    <3>1. /\ Len(ir_queue') # 0 /\ ir_queue'[1] = ir_queue[2]
          /\ 1 < Len(ir_queue) /\ 2 \in 1 .. Len(ir_queue)
      <4>1. 1 \in 1 .. n /\ Len(ir_queue) > 1
        <5>1. n \in Nat \ {0} /\ Len(ir_queue) \in Nat \ {0}
          BY <1>2, <1>3, <2>1
        <5>2. \A m \in Nat : m # 0 /\ m - 1 # 0 => m > 1 /\ 1 \in 1 .. m - 1
          OBVIOUS
        <5>. QED  BY <5>1, <5>2
      <4>2. ir_queue'[1] = ir_queue[1 + 1]
        BY <1>3, <4>1
      <4>. QED  BY <1>2, <1>3, <2>1, <4>1, <4>2
    <3>2. Follows(ir_queue[1], ir_queue[1 + 1])
      BY <1>2, <3>1 DEF QueueInv, Inv, PathInv
    <3>3. ir_queue'[1].epoch = current_epoch_q
      BY <1>2, <3>1 DEF Live
    <3>. QED  BY <1>4, <1>7, <3>1, <3>2, <3>3 DEF Follows
  <2>2. CASE n = 0
    <3>1. Follows(ir_queue[1], BehindQueue)
      BY <1>2, <2>2 DEF QueueInv, Inv, PathInv
    <3>2. CASE push
      <4>1. Len(ir_queue') # 0 /\ ir_queue'[1] = out_q
        BY <1>3, <2>2, <3>2
      <4>2. out_q.epoch = current_epoch_q /\ BehindQueue.pc = out_q.pc
        BY <3>2 DEF Inv, PathInv, FetchInv, BehindQueue
      <4>. QED  BY <1>4, <1>7, <3>1, <4>1, <4>2 DEF Follows
    <3>3. CASE ~push
      <4>1. BehindQueue' = BehindQueue
        BY <1>1, <3>3, RunFetch, AnswersFact
      <4>2. Len(ir_queue') = 0
        BY <1>3, <2>2, <3>3
      <4>3. OldestPc(ir_queue', current_epoch_q', BehindQueue'.pc) = BehindQueue'.pc
        BY <4>2, OldestIsBehind
      <4>. QED  BY <1>4, <3>1, <4>1, <4>3 DEF OldestFetchPc, Follows
    <3>. QED  BY <3>2, <3>3
  <2>. QED  BY <2>1, <2>2
<1>. QED  BY <1>4, <1>5, <1>8

LEMMA IssueDelivers ==
  ASSUME Inv, NEW iready \in BOOLEAN, NEW iresp \in Answers, Issue(iready, iresp)
  PROVE  Stream!Deliver
<1>1. IrValid /\ FrontendRun(iready, iresp, TRUE) /\ Decoded' = Decoded
  BY DEF Issue, FrontendRun, Decoded
<1>2. last' = [pc |-> OldestFetchPc, inst |-> Decoded[OldestFetchPc]]
  BY <1>1, IssueTakesOldest DEF Issue
<1>. QED  BY <1>1, <1>2, IssueTakesOldest DEF Stream!Deliver, Stream!NextPc, Stream!Add, NextPc, Add

\* With a redirect the next instruction is the one at its target: nothing alive is
\* left in the queue, and what is in flight is marked.
LEMMA RedirectSetsPath ==
  ASSUME Inv, NEW target \in Word, NEW iresp \in Answers, Redirect(target, iresp)
  PROVE  OldestFetchPc' = target
<1>1. /\ \A i \in 1 .. Len(ir_queue') : ~Live(i)'
      /\ BehindQueue'.pc = target
  BY AnswersFact, RedirectInv
<1>2. OldestPc(ir_queue', current_epoch_q', BehindQueue'.pc) = BehindQueue'.pc
  BY <1>1, OldestIsBehind DEF Live
<1>. QED  BY <1>1, <1>2 DEF OldestFetchPc

\* The frontend implements FetchStream.
LEMMA StreamIsDelivered == Spec => Stream!Spec
<1>1. Init => Stream!Init
  <2> SUFFICES ASSUME Init PROVE Stream!Init
    OBVIOUS
  <2>1. OldestPc(ir_queue, current_epoch_q, BehindQueue.pc) = BehindQueue.pc
    BY OldestIsBehind DEF Init, FrontendInit
  <2>2. BehindQueue.pc = RESET_PC
    BY DEF Init, FrontendInit, BehindQueue, NextFetch
  <2>. QED  BY <2>1, <2>2 DEF Stream!Init, OldestFetchPc, Init
<1>2. Inv /\ [Next]_vars => [Stream!Next]_(Stream!vars)
  <2> SUFFICES ASSUME Inv, [Next]_vars PROVE [Stream!Next]_(Stream!vars)
    OBVIOUS
  <2>1. ASSUME NEW iresp \in Answers, NEW iready \in BOOLEAN, Issue(iready, iresp)
        PROVE  Stream!Next
    BY <2>1, IssueDelivers DEF Stream!Next
  <2>2. ASSUME NEW iresp \in Answers, NEW iready \in BOOLEAN, Wait(iready, iresp)
        PROVE  UNCHANGED Stream!vars
    <3>1. FrontendRun(iready, iresp, FALSE) /\ last' = last /\ Decoded' = Decoded
      BY <2>2 DEF Wait, FrontendRun, Decoded
    <3>2. OldestFetchPc' = OldestFetchPc
      BY <3>1, WaitKeepsOldest
    <3>. QED  BY <3>1, <3>2 DEF Stream!vars
  <2>3. ASSUME NEW iresp \in Answers, NEW target \in Word, Redirect(target, iresp)
        PROVE  Stream!Next
    <3>1. OldestFetchPc' = target
      BY <2>3, RedirectSetsPath
    <3>2. last' = last /\ Decoded' = Decoded
      BY <2>3 DEF Redirect, FrontendRedirect, Decoded
    <3>. QED  BY <3>1, <3>2 DEF Stream!Next, Stream!Redirect, Stream!Word, Word
  <2>4. CASE UNCHANGED vars
    BY <2>4 DEF vars, frontendVars, ifVars, Stream!vars, OldestFetchPc, BehindQueue, NextFetch, Decoded
  <2>. QED  BY <2>1, <2>2, <2>3, <2>4 DEF Next
<1>. QED  BY <1>1, <1>2, PathInvariant, PTL DEF Spec, Inv, Stream!Spec

\* The backend alone tells the frontend which path is the current one: a redirect
\* takes effect on the next instruction in its own edge, and nothing else does.
LEMMA PathIsFollowed == Spec => PathIsTold
<1> DEFINE Told ==
      \E iresp \in Answers :
        \/ \E target \in Word : Redirect(target, iresp) /\ OldestFetchPc' = target
        \/ \E iready \in BOOLEAN :
             \/ Issue(iready, iresp) /\ OldestFetchPc' = NextPc(OldestFetchPc)
             \/ Wait(iready, iresp) /\ OldestFetchPc' = OldestFetchPc
<1>1. Inv /\ [Next]_vars => [Told]_vars
  <2> SUFFICES ASSUME Inv, Next PROVE Told
    OBVIOUS
  <2>1. ASSUME NEW iresp \in Answers, NEW iready \in BOOLEAN, Issue(iready, iresp)
        PROVE  Told
    <3>1. OldestFetchPc' = NextPc(OldestFetchPc)
      BY <2>1, IssueTakesOldest DEF Issue
    <3>. QED  BY <2>1, <3>1
  <2>2. ASSUME NEW iresp \in Answers, NEW iready \in BOOLEAN, Wait(iready, iresp)
        PROVE  Told
    <3>1. OldestFetchPc' = OldestFetchPc
      BY <2>2, WaitKeepsOldest DEF Wait
    <3>. QED  BY <2>2, <3>1
  <2>3. ASSUME NEW iresp \in Answers, NEW target \in Word, Redirect(target, iresp)
        PROVE  Told
    <3>1. OldestFetchPc' = target
      BY <2>3, RedirectSetsPath
    <3>. QED  BY <2>3, <3>1
  <2>. QED  BY <2>1, <2>2, <2>3 DEF Next
<1>. QED  BY <1>1, PathInvariant, PTL DEF Spec, Inv, PathIsTold

\* Each instruction of the path that the backend has asked for is handed over once,
\* in order, and none of an abandoned one.
THEOREM FrontendDelivers == Spec => DeliversStream
  BY StreamIsDelivered, PathIsFollowed DEF DeliversStream
=============================================================================
