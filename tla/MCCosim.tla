------------------------------ MODULE MCCosim -------------------------------
(***************************************************************************)
(* The programs of MCCore on the core next to the reference machine and    *)
(* next to FetchUnit: both histories are kept along the same steps.        *)
(***************************************************************************)
EXTENDS Cosim, CoreFetch, MCCore

MCInit == CosimInit /\ issued = None
MCNext == Next /\ RecordCommit /\ RecordIssue
MCSpec == MCInit /\ [][MCNext]_<<cosimVars, issued>>
MCFairSpec == MCSpec /\ Fairness
=============================================================================
