---------------------------- MODULE LockContract ----------------------------
(***************************************************************************)
(* What the camera lock promises: one holder at a time, taken only while   *)
(* it is free; when its holder is done with it nobody may be able to take  *)
(* it for a while.  CameraLock implements this contract.                   *)
(***************************************************************************)
CONSTANTS
    Procs,   \* the processes of the project: CLI, GUI, MCP workers
    Nobody   \* no process

VARIABLES
    holder,     \* the process that holds the lock, or Nobody
    lingering   \* nobody holds the lock and it cannot be taken yet

lvars == <<holder, lingering>>

LockInit == holder = Nobody /\ lingering = FALSE

Take(p) ==
    /\ holder = Nobody /\ ~lingering
    /\ holder' = p
    /\ UNCHANGED lingering

\* The holder drops the lock or dies.
Leave ==
    /\ holder # Nobody
    /\ holder' = Nobody
    /\ lingering' \in BOOLEAN

Settle ==
    /\ lingering
    /\ lingering' = FALSE
    /\ UNCHANGED holder

LockNext == (\E p \in Procs : Take(p)) \/ Leave \/ Settle

LockSpec == LockInit /\ [][LockNext]_lvars
=============================================================================
