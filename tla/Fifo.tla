-------------------------------- MODULE Fifo --------------------------------
(***************************************************************************)
(* fifo.sv: the ring buffer under the IR queue, with its read and write    *)
(* pointers and its count.  The storage is not reset.                      *)
(***************************************************************************)
EXTENDS Naturals, Sequences

CONSTANTS
  DEPTH,   \* number of slots, any positive number
  Data     \* what a slot holds

ASSUME DepthAssumption == DEPTH \in Nat \ {0}

VARIABLES mem_q, rd_ptr_q, wr_ptr_q, count_q

vars == <<mem_q, rd_ptr_q, wr_ptr_q, count_q>>

Slot == 0 .. DEPTH - 1

TypeOK ==
  /\ mem_q \in [Slot -> Data]
  /\ rd_ptr_q \in Slot
  /\ wr_ptr_q \in Slot
  /\ count_q \in 0 .. DEPTH

\* Mutant of PtrNext: the pointer wraps at its width, as if DEPTH were a power of
\* two (3 slots need two bits).
PtrNextByWidth(ptr) == (ptr + 1) % 4

PtrNext(ptr) == IF ptr = DEPTH - 1 THEN 0 ELSE ptr + 1

Init ==
  /\ mem_q \in [Slot -> Data]
  /\ rd_ptr_q = 0
  /\ wr_ptr_q = 0
  /\ count_q = 0

\* Mutant of InReady: one entry too many.
InReadyLate == count_q # DEPTH + 1

InReady  == count_q # DEPTH
OutValid == count_q # 0

\* A clock edge without flush: an offered entry is taken when there is room,
\* the head leaves when it is asked for.
Clock(inValid, data, outReady) ==
  LET push == inValid /\ InReady
      pop  == OutValid /\ outReady
  IN
  /\ mem_q' = IF push THEN [mem_q EXCEPT ![wr_ptr_q] = data] ELSE mem_q
  /\ wr_ptr_q' = IF push THEN PtrNext(wr_ptr_q) ELSE wr_ptr_q
  /\ rd_ptr_q' = IF pop THEN PtrNext(rd_ptr_q) ELSE rd_ptr_q
  /\ count_q' = IF push /\ ~pop THEN count_q + 1
                ELSE IF pop /\ ~push THEN count_q - 1
                ELSE count_q

\* Mutant of Flush: the write pointer stays where it is.
FlushKeepsWrite ==
  /\ rd_ptr_q' = 0 /\ count_q' = 0
  /\ UNCHANGED <<mem_q, wr_ptr_q>>

Flush ==
  /\ rd_ptr_q' = 0 /\ wr_ptr_q' = 0 /\ count_q' = 0
  /\ UNCHANGED mem_q

Next ==
  Flush \/ \E inValid, outReady \in BOOLEAN, data \in Data : Clock(inValid, data, outReady)

Spec == Init /\ [][Next]_vars

-----------------------------------------------------------------------------
\* The slot n places after ptr, for n at most DEPTH.
After(ptr, n) == IF ptr + n < DEPTH THEN ptr + n ELSE ptr + n - DEPTH

\* The write pointer is the first slot behind the occupied ones.  With it, a
\* full and an empty buffer are told apart by the count alone.
PointersAgree == wr_ptr_q = After(rd_ptr_q, count_q)

\* The occupied slots in the order in which they will leave.
Contents == [i \in 1 .. count_q |-> mem_q[After(rd_ptr_q, i - 1)]]

Queue == INSTANCE BoundedQueue WITH q <- Contents

\* The ring buffer is a bounded queue: what enters leaves once and in order,
\* whatever DEPTH is, also when it is not a power of two and the pointers wrap
\* before their width does, and when one entry enters as another leaves.
ImplementsQueue == Queue!Spec
=============================================================================
