-------------------------------- MODULE Heap ---------------------------------
(***************************************************************************)
(* The bump allocator of the runtime's stdlib.c: blocks are handed out in  *)
(* order, a count of the blocks in use is kept, and the space comes back   *)
(* when the count is 0.  An address is a number of bytes; the bound on a   *)
(* request keeps heap_ptr + aligned inside the address space, where it     *)
(* does not wrap.                                                          *)
(***************************************************************************)
EXTENDS Integers, FiniteSets

CONSTANTS
  HeapStart,   \* _sheap
  HeapEnd,     \* _eheap
  Requests,    \* the sizes the program asks for
  Handle       \* where the program keeps the pointers to its blocks

ASSUME HeapAssumption ==
  /\ HeapStart \in Nat \ {0} /\ HeapStart % 4 = 0
  /\ HeapEnd \in Nat /\ HeapStart <= HeapEnd
  /\ Requests \subseteq Nat
  /\ IsFiniteSet(Handle)

VARIABLES
  heap_ptr,        \* the first free byte, or Null before the first call
  allocated_cnt,
  live,            \* history: the blocks malloc gave and free did not get back
  unpaired         \* history: free(NULL) was called while there were blocks

heapVars == <<heap_ptr, allocated_cnt, live, unpaired>>

Null  == 0
Block == [start : Nat, size : Nat]
Owned == DOMAIN live

HeapTypeOK ==
  /\ heap_ptr \in Nat
  /\ allocated_cnt \in Nat
  /\ Owned \subseteq Handle /\ live \in [Owned -> Block]
  /\ unpaired \in BOOLEAN

\* What crt0 leaves of .bss, in a program that has not allocated anything.
HeapInit ==
  /\ heap_ptr = Null
  /\ allocated_cnt = 0
  /\ live = [h \in {} |-> 0]
  /\ unpaired = FALSE

-----------------------------------------------------------------------------
\* Mutant of Aligned: what the code says its predecessor did.
AlignedLegacy(n) == (n + 3) % 4

\* The size rounded up to a multiple of 4.
Aligned(n) == ((n + 3) \div 4) * 4

\* heap_init_if_needed.
FirstFree == IF heap_ptr = Null THEN HeapStart ELSE heap_ptr

Malloc(h, n) ==
  /\ h \notin Owned
  /\ IF FirstFree + Aligned(n) > HeapEnd
     THEN /\ heap_ptr' = FirstFree
          /\ UNCHANGED <<allocated_cnt, live>>
     ELSE /\ heap_ptr' = FirstFree + Aligned(n)
          /\ allocated_cnt' = allocated_cnt + 1
          /\ live' = [k \in Owned \cup {h} |->
                        IF k = h THEN [start |-> FirstFree, size |-> n] ELSE live[k]]
  /\ UNCHANGED unpaired

\* Mutant of Release: the space comes back with the first block.
ReleaseEarly ==
  LET cnt == IF allocated_cnt > 0 THEN allocated_cnt - 1 ELSE 0
  IN  /\ allocated_cnt' = cnt
      /\ heap_ptr' = IF cnt <= 1 THEN HeapStart ELSE heap_ptr

\* Mutant of Release: the pointer is not put back.
ReleaseCountOnly ==
  /\ allocated_cnt' = IF allocated_cnt > 0 THEN allocated_cnt - 1 ELSE 0
  /\ UNCHANGED heap_ptr

\* What free does, whatever its argument is.
Release ==
  LET cnt == IF allocated_cnt > 0 THEN allocated_cnt - 1 ELSE 0
  IN  /\ allocated_cnt' = cnt
      /\ heap_ptr' = IF cnt = 0 THEN HeapStart ELSE heap_ptr

Free(h) ==
  /\ h \in Owned
  /\ Release
  /\ live' = [k \in Owned \ {h} |-> live[k]]
  /\ UNCHANGED unpaired

\* C allows free(NULL); the count goes down all the same.
FreeNull ==
  /\ Release
  /\ unpaired' = (unpaired \/ Owned # {})
  /\ UNCHANGED live

HeapNext ==
  \/ \E h \in Handle, n \in Requests : Malloc(h, n)
  \/ \E h \in Handle : Free(h)
  \/ FreeNull

HeapSpec == HeapInit /\ [][HeapNext]_heapVars

-----------------------------------------------------------------------------
Ends(b) == b.start + b.size

\* Blocks lie in the heap, begin at a word and share no byte (stdlib.c:36-63),
\* however calls of malloc and free follow each other, as long as the program
\* frees nothing but blocks.
BlocksDisjoint ==
  ~unpaired =>
    /\ \A h \in Owned : /\ HeapStart <= live[h].start /\ Ends(live[h]) <= HeapEnd
                        /\ live[h].start % 4 = 0
    /\ \A h, k \in Owned :
         h # k => Ends(live[h]) <= live[k].start \/ Ends(live[k]) <= live[h].start

\* When the last block is back the whole heap is there again (stdlib.c:59-62),
\* under the same condition: a program that frees what it takes never runs out.
HeapComesBack == ~unpaired /\ Owned = {} => FirstFree = HeapStart
=============================================================================
