----------------------------- MODULE CoreFetch ------------------------------
(***************************************************************************)
(* The core seen from its frontend.  FetchUnit closes the frontend with an *)
(* environment that redirects at most twice between two issues; here the   *)
(* backend is shown to be such an environment, so that what is proved of   *)
(* FetchUnit holds inside the core.                                        *)
(***************************************************************************)
EXTENDS Core

VARIABLE issued   \* history: the instruction issued last, or None

fetchVars == <<vars, issued>>

FetchInit == Init /\ issued = None

RecordIssue ==
  issued' = IF exe_q' # None /\ exe_q' # exe_q
            THEN [pc |-> exe_q'.pc, inst |-> exe_q'.ir] ELSE issued

FetchNext == Next /\ RecordIssue

FetchSpec == FetchInit /\ [][FetchNext]_fetchVars

\* How many redirects the tokens in flight can still cause: one in EXE and one
\* more, by a trap of the same token, in MEM.
Credit == IF Alive(exe_q) THEN 2 ELSE IF Alive(mem_q) THEN 1 ELSE 0

Unit == INSTANCE FetchUnit WITH credit <- Credit, last <- issued

\* The backend takes only what it is offered, never drops an offer it was shown
\* as issued, and redirects within the limit that two epoch bits can tell apart.
BackendIsEnvironment == Unit!Spec
=============================================================================
