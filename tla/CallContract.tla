---------------------------- MODULE CallContract ----------------------------
(***************************************************************************)
(* What a camera call of the MCP server promises its client, with no       *)
(* worker, pipe, queue or timer in sight.                                  *)
(*                                                                         *)
(* A call may write to the camera (never, if it only reads) until the      *)
(* client is told how it ended; from then on it writes nothing.  A report  *)
(* that says nothing was changed is given only when nothing was.           *)
(*                                                                         *)
(* WorkerCall implements this contract: see its Contract instance.         *)
(***************************************************************************)
CONSTANTS
    Calls,      \* the camera calls of the session
    ApplyCalls  \* those that may write

VARIABLES
    touched,    \* touched[c]: a write of call c has been sent to the camera
    report      \* report[c]: what the client was told, or "none"

cvars == <<touched, report>>

\* Reports that tell the client the camera was not changed.
Untouched == {"not_applied", "cancelled", "spawn_failed", "read_no_result"}

\* Reports after which the client has to look at the camera or at the result.
Open == {"ok", "err", "busy", "indeterminate"}

ContractTypeOK ==
    /\ touched \in [Calls -> BOOLEAN]
    /\ report \in [Calls -> {"none"} \cup Untouched \cup Open]

ContractInit ==
    /\ touched = [c \in Calls |-> FALSE]
    /\ report = [c \in Calls |-> "none"]

\* A write of an apply that has not been reported yet.
Touch(c) ==
    /\ c \in ApplyCalls
    /\ report[c] = "none"
    /\ touched' = [touched EXCEPT ![c] = TRUE]
    /\ UNCHANGED report

\* The one report of a call.
Settle(c, r) ==
    /\ report[c] = "none"
    /\ r \in Untouched => ~touched[c]
    /\ report' = [report EXCEPT ![c] = r]
    /\ UNCHANGED touched

ContractNext ==
    \E c \in Calls :
        \/ Touch(c)
        \/ \E r \in Untouched \cup Open : Settle(c, r)

ContractSpec == ContractInit /\ [][ContractNext]_cvars
=============================================================================
