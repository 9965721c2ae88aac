---------------------------- MODULE FetchStream -----------------------------
(***************************************************************************)
(* What the frontend promises to the backend: the instructions of the      *)
(* current path, in order, each exactly once, each with the bits memory    *)
(* holds at its address.  A redirect starts a new path; nothing of the old *)
(* one is delivered after it.                                              *)
(***************************************************************************)
EXTENDS Uarch

CONSTANTS RESET_PC

VARIABLES
  imem,   \* what instruction memory holds, never written
  next,   \* address of the next instruction to deliver
  last    \* the instruction delivered last

vars == <<imem, next, last>>

Init ==
  /\ next = RESET_PC
  /\ last = None

Deliver ==
  /\ last' = [pc |-> next, inst |-> imem[next]]
  /\ next' = NextPc(next)
  /\ UNCHANGED imem

Redirect ==
  /\ next' \in Word
  /\ UNCHANGED <<imem, last>>

Next == Deliver \/ Redirect

Spec == Init /\ [][Next]_vars
=============================================================================
