----------------------------- MODULE FifoProofs -----------------------------
(***************************************************************************)
(* The ring buffer is a bounded queue for every depth and every data set.  *)
(***************************************************************************)
EXTENDS Fifo, TLAPS

Inv == TypeOK /\ PointersAgree

\* The ring invariant holds in every state, for the registers of fifo.sv.
THEOREM FifoInvariant == Spec => [](TypeOK /\ PointersAgree)
<1> USE DepthAssumption
<1>1. Init => Inv
  BY DEF Init, Inv, TypeOK, PointersAgree, After, Slot
<1>2. Inv /\ [Next]_vars => Inv'
  <2> SUFFICES ASSUME Inv, [Next]_vars PROVE Inv'
    OBVIOUS
  <2> USE DEF Inv, TypeOK, PointersAgree, After, Slot
  <2>1. CASE Flush
    BY <2>1 DEF Flush
  <2>2. ASSUME NEW inValid \in BOOLEAN, NEW outReady \in BOOLEAN, NEW data \in Data,
               Clock(inValid, data, outReady)
        PROVE  Inv'
    BY <2>2 DEF Clock, InReady, OutValid, PtrNext
  <2>3. CASE UNCHANGED vars
    BY <2>3 DEF vars
  <2>. QED  BY <2>1, <2>2, <2>3 DEF Next
<1>. QED  BY <1>1, <1>2, PTL DEF Spec, Inv

\* So do the types alone: pointers and count never leave the slots, DEPTH a power of
\* two or not.
THEOREM FifoTypes == Spec => []TypeOK
BY FifoInvariant, PTL

\* Walking on from a slot ends in a slot.
LEMMA AfterType ==
  ASSUME NEW ptr \in Slot, NEW n \in 0 .. DEPTH - 1
  PROVE  After(ptr, n) \in Slot
BY DepthAssumption DEF After, Slot

\* The n-th slot from here is the slot before it, seen from the next one.
LEMMA AfterStep ==
  ASSUME NEW ptr \in Slot, NEW n \in 1 .. DEPTH
  PROVE  After(PtrNext(ptr), n - 1) = After(ptr, n)
BY DepthAssumption DEF After, PtrNext, Slot

\* What the occupied slots are, and how the next edge reads them.
LEMMA ContentsLength ==
  ASSUME TypeOK
  PROVE  Contents \in Seq(Data) /\ Len(Contents) = count_q
<1>1. \A i \in 1 .. count_q : After(rd_ptr_q, i - 1) \in Slot
  BY DepthAssumption DEF TypeOK, After, Slot
<1>. QED  BY <1>1 DEF Contents, TypeOK

\* Contents is the empty sequence exactly when the count is 0.
LEMMA ContentsEmpty ==
  ASSUME TypeOK
  PROVE  (Contents = <<>>) <=> (count_q = 0)
BY ContentsLength DEF TypeOK

\* One edge of the ring buffer is one edge of the queue.
LEMMA ClockSimulates ==
  ASSUME Inv, NEW inValid \in BOOLEAN, NEW outReady \in BOOLEAN, NEW data \in Data,
         Clock(inValid, data, outReady), Inv'
  PROVE  Queue!Clock(inValid /\ InReady, data, OutValid /\ outReady)
<1> DEFINE push == inValid /\ InReady
           pop  == OutValid /\ outReady
           rest == IF pop THEN Tail(Contents) ELSE Contents
<1> USE DepthAssumption
<1>1. Contents \in Seq(Data) /\ Len(Contents) = count_q
  BY ContentsLength DEF Inv
<1>2. Contents' \in Seq(Data) /\ Len(Contents') = count_q'
  <2>1. rd_ptr_q' \in 0 .. DEPTH - 1 /\ count_q' \in 0 .. DEPTH /\ mem_q' \in [Slot -> Data]
    BY DEF Inv, TypeOK, Slot
  <2>2. \A i \in 1 .. count_q' : After(rd_ptr_q', i - 1) \in Slot
    <3> SUFFICES ASSUME NEW i \in 1 .. count_q' PROVE After(rd_ptr_q', i - 1) \in Slot
      OBVIOUS
    <3>1. i - 1 \in 0 .. DEPTH - 1
      BY <2>1
    <3>. QED  BY <2>1, <3>1, AfterType DEF Slot
  <2>. QED  BY <2>1, <2>2 DEF Contents
<1>3. push => Len(Contents) # DEPTH
  BY <1>1 DEF InReady
<1>4. pop => Contents # <<>>
  BY <1>1 DEF OutValid
<1>5. /\ rest \in Seq(Data)
      /\ Len(rest) = IF pop THEN count_q - 1 ELSE count_q
      /\ \A i \in 1 .. Len(rest) : rest[i] = IF pop THEN Contents[i + 1] ELSE Contents[i]
  BY <1>1, <1>4
<1>6. \A i \in 1 .. Len(rest) : Contents'[i] = rest[i]
  <2> SUFFICES ASSUME NEW i \in 1 .. Len(rest) PROVE Contents'[i] = rest[i]
    OBVIOUS
  <2>1. i \in 1 .. count_q'
    BY <1>5 DEF Clock, Inv, TypeOK, OutValid, InReady
  <2>2. Contents'[i] = mem_q'[After(rd_ptr_q', i - 1)]
    BY <2>1 DEF Contents
  <2>3. rest[i] = mem_q[IF pop THEN After(rd_ptr_q, i) ELSE After(rd_ptr_q, i - 1)]
    BY <1>5, <1>1 DEF Contents, Inv, TypeOK
  <2>4. After(rd_ptr_q', i - 1) = IF pop THEN After(rd_ptr_q, i) ELSE After(rd_ptr_q, i - 1)
    BY <1>5 DEF Clock, After, PtrNext, Inv, TypeOK, Slot, OutValid
  <2>5. push => wr_ptr_q # (IF pop THEN After(rd_ptr_q, i) ELSE After(rd_ptr_q, i - 1))
    BY <1>5 DEF After, Inv, TypeOK, Slot, PointersAgree, OutValid, InReady
  <2>6. (IF pop THEN After(rd_ptr_q, i) ELSE After(rd_ptr_q, i - 1)) \in Slot
    BY <2>4, <2>1 DEF Inv, TypeOK, After, Slot
  <2>7. mem_q' = IF push THEN [mem_q EXCEPT ![wr_ptr_q] = data] ELSE mem_q
    BY DEF Clock
  <2>. QED  BY <2>2, <2>3, <2>4, <2>5, <2>6, <2>7 DEF Inv, TypeOK
<1>7. CASE push
  <2>1. count_q' = Len(rest) + 1
    BY <1>5, <1>7 DEF Clock, Inv, TypeOK, OutValid
  <2>2. Contents'[Len(rest) + 1] = data
    <3> PICK n \in Nat : n = Len(rest)
      BY <1>5
    <3>1. After(rd_ptr_q', n) = wr_ptr_q
      <4>1. /\ rd_ptr_q \in Slot /\ count_q \in 0 .. DEPTH
            /\ wr_ptr_q = After(rd_ptr_q, count_q)
        BY DEF Inv, TypeOK, PointersAgree
      <4>2. CASE pop
        <5>1. rd_ptr_q' = PtrNext(rd_ptr_q) /\ count_q # 0
          BY <4>2 DEF Clock, OutValid
        <5>2. count_q \in 1 .. DEPTH /\ n = count_q - 1
          BY <1>5, <4>1, <4>2, <5>1
        <5>. QED  BY <4>1, <5>1, <5>2, AfterStep
      <4>3. CASE ~pop
        BY <1>5, <4>1, <4>3 DEF Clock
      <4>. QED  BY <4>2, <4>3
    <3>2. Contents'[n + 1] = mem_q'[After(rd_ptr_q', n)]
      <4>1. n + 1 \in 1 .. count_q' /\ (n + 1) - 1 = n
        BY <2>1, <1>5
      <4>. QED  BY <4>1 DEF Contents
    <3>. QED  BY <3>1, <3>2, <1>7 DEF Clock, Inv, TypeOK
  <2>3. Contents' = Append(rest, data)
    BY <1>2, <1>5, <1>6, <2>1, <2>2
  <2>. QED  BY <1>3, <1>4, <1>7, <2>3 DEF Queue!Clock
<1>8. CASE ~push
  <2>1. count_q' = Len(rest)
    BY <1>5, <1>8 DEF Clock, Inv, TypeOK, OutValid
  <2>2. Contents' = rest
    BY <1>2, <1>5, <1>6, <2>1
  <2>. QED  BY <1>3, <1>4, <1>8, <2>2 DEF Queue!Clock
<1>. QED  BY <1>7, <1>8

\* fifo.sv implements the bounded queue that Frontend takes it for.
THEOREM FifoIsQueue == Spec => ImplementsQueue
<1>1. Init => Queue!Init
  BY ContentsEmpty, DepthAssumption DEF Init, Queue!Init, TypeOK, Slot
<1>2. Inv /\ Inv' /\ [Next]_vars => [Queue!Next]_Contents
  <2> SUFFICES ASSUME Inv, Inv', [Next]_vars PROVE [Queue!Next]_Contents
    OBVIOUS
  <2>1. CASE Flush
    <3>1. count_q' = 0
      BY <2>1 DEF Flush
    <3>2. Contents' = <<>>
      BY <3>1 DEF Contents
    <3>. QED  BY <3>2 DEF Queue!Next, Queue!Flush
  <2>2. ASSUME NEW inValid \in BOOLEAN, NEW outReady \in BOOLEAN, NEW data \in Data,
               Clock(inValid, data, outReady)
        PROVE  [Queue!Next]_Contents
    BY <2>2, ClockSimulates DEF Queue!Next, InReady, OutValid
  <2>3. CASE UNCHANGED vars
    BY <2>3 DEF vars, Contents, After
  <2>. QED  BY <2>1, <2>2, <2>3 DEF Next
<1>. QED  BY <1>1, <1>2, FifoInvariant, PTL DEF Spec, ImplementsQueue, Queue!Spec, Inv
=============================================================================
