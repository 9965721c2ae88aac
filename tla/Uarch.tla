------------------------------- MODULE Uarch --------------------------------
(***************************************************************************)
(* The types and helper functions of include/uarch.svh that every stage of *)
(* the core shares: the epoch and sequence tags, the kill event, and the   *)
(* machine word.                                                           *)
(*                                                                         *)
(* A word counts halfwords, so an instruction is two units long and an odd *)
(* word is an address that is not a multiple of four.                      *)
(***************************************************************************)
EXTENDS Naturals

CONSTANTS
  EpochMod,   \* 2^EPOCH_W, the number of epoch tags
  SeqMod,     \* 2^SEQ_ID_W, the number of sequence ids
  WordMod,    \* the number of machine words (2^32 in the code)
  None        \* the content of an invalid register (valid = 0)

ASSUME UarchAssumption ==
  /\ EpochMod \in Nat /\ EpochMod >= 3
  /\ SeqMod \in Nat /\ SeqMod >= 4
  /\ WordMod \in Nat /\ WordMod >= 4

Epoch == 0 .. EpochMod - 1
SeqId == 0 .. SeqMod - 1
Word  == 0 .. WordMod - 1

\* Mutant of IncEpoch: an epoch of one bit, which two redirects bring back.
IncEpochOneBit(e) == IF e = 0 THEN 1 ELSE 0

\* The wrapping adders of the tags and of the 32-bit datapath.
IncEpoch(e) == IF e = EpochMod - 1 THEN 0 ELSE e + 1
DecEpoch(e) == IF e = 0 THEN EpochMod - 1 ELSE e - 1
IncSeq(s)   == IF s = SeqMod - 1 THEN 0 ELSE s + 1
Add(a, b)   == IF a + b < WordMod THEN a + b ELSE a + b - WordMod
NextPc(pc)  == Add(pc, 2)

\* Mutants of SeqAfter: unsigned order, which breaks where the ids wrap, and an
\* order in which an id comes after itself.
SeqAfterUnsigned(lhs, rhs) == lhs > rhs
SeqAfterOrSame(lhs, rhs) ==
  LET diff == IF lhs >= rhs THEN lhs - rhs ELSE lhs + SeqMod - rhs
  IN  2 * diff < SeqMod

\* seq_after: lhs is one of the SeqMod/2 - 1 ids that follow rhs, by the sign
\* of the wrapped difference.
SeqAfter(lhs, rhs) ==
  LET diff == IF lhs >= rhs THEN lhs - rhs ELSE lhs + SeqMod - rhs
  IN  diff # 0 /\ 2 * diff < SeqMod

\* A kill event names the epoch and sequence id of the redirecting token; it
\* hits the tokens and scoreboard rows of that epoch that are younger.
KilledBy(x, kill) ==
  /\ kill # None
  /\ x.epoch = kill.epoch
  /\ SeqAfter(x.seq_id, kill.seq_id)

\* kill_token_if_younger and kill_scoreboard_row_if_younger: the same rule for
\* a token and for its row.
KillIfYounger(x, kill) ==
  IF x = None THEN None
  ELSE [x EXCEPT !.killed = @ \/ KilledBy(x, kill)]
=============================================================================
