---------------------------- MODULE MCFetchUnit -----------------------------
(***************************************************************************)
(* FetchUnit with instructions that are told apart by their address only.  *)
(***************************************************************************)
EXTENDS FetchUnit

MCInst == {"a", "b"}
MCDecode(w) == w

\* One memory image in which neighbours differ.
MCInit ==
  /\ imem = [w \in Word |-> IF (w \div 2) % 2 = 0 THEN "a" ELSE "b"]
  /\ Init
MCSpec == MCInit /\ [][Next]_vars /\ Fairness
=============================================================================
