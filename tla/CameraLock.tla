----------------------------- MODULE CameraLock -----------------------------
(***************************************************************************)
(* The camera lock (src/camera_lock.rs) and the sessions taken under it    *)
(* (open_sdk and SdkSession of src/main.rs, PtpUsbSession of               *)
(* src/ptp_usb.rs).                                                        *)
(*                                                                         *)
(* The lock is an flock on an open file description.  A description stays  *)
(* open as long as a process or one of its children has a descriptor of    *)
(* it: a child that a thread of the process forks has one until it execs   *)
(* (the descriptor is close-on-exec).  The kernel drops the flock with the *)
(* last descriptor.                                                        *)
(***************************************************************************)
EXTENDS Naturals, FiniteSets

CONSTANTS
    Procs,     \* processes that take the lock
    Files,     \* open file descriptions
    Nobody,    \* no process
    NoFile,    \* no description
    MaxForks   \* children of one description between fork and exec

ASSUME LockAssumption ==
    /\ Nobody \notin Procs /\ NoFile \notin Files
    /\ MaxForks \in Nat

VARIABLES
    pc,      \* pc[p]: "idle", "opened", "held" or "session"
    file,    \* file[p]: the description p has open, or NoFile
    forked,  \* forked[f]: children that still have a descriptor of f
    flock    \* the description the kernel has granted the lock to, or NoFile

vars == <<pc, file, forked, flock>>

TypeOK ==
    /\ pc \in [Procs -> {"idle", "opened", "held", "session"}]
    /\ file \in [Procs -> Files \cup {NoFile}]
    /\ forked \in [Files -> 0..MaxForks]
    /\ flock \in Files \cup {NoFile}

Init ==
    /\ pc = [p \in Procs |-> "idle"]
    /\ file = [p \in Procs |-> NoFile]
    /\ forked = [f \in Files |-> 0]
    /\ flock = NoFile

Goto(p, next) == pc' = [pc EXCEPT ![p] = next]

\* Somebody has a descriptor of f.
IsOpen(f) == forked[f] > 0 \/ \E p \in Procs : file[p] = f

\* acquire_at: the anchor file is opened; every open makes a description of its own.
Open(p) ==
    /\ pc[p] = "idle"
    /\ \E f \in Files :
          /\ ~IsOpen(f)
          /\ file' = [file EXCEPT ![p] = f]
    /\ Goto(p, "opened")
    /\ UNCHANGED <<forked, flock>>

\* p closes its descriptor; the last one takes the flock with it.
Close(p) ==
    /\ file' = [file EXCEPT ![p] = NoFile]
    /\ flock' = IF flock = file[p] /\ flock # NoFile /\ forked[flock] = 0 THEN NoFile ELSE flock
    /\ Goto(p, "idle")

\* Plausible bug: the lock is asked for in shared mode.
GrantedShared(p) ==
    /\ pc[p] = "opened"
    /\ flock' = IF flock = NoFile THEN file[p] ELSE flock
    /\ Goto(p, "held")
    /\ UNCHANGED <<file, forked>>

\* flock(LOCK_EX | LOCK_NB) is granted.
Granted(p) ==
    /\ pc[p] = "opened"
    /\ flock = NoFile
    /\ flock' = file[p]
    /\ Goto(p, "held")
    /\ UNCHANGED <<file, forked>>

\* It is refused: camera_busy at once, and the description is closed.
Busy(p) ==
    /\ pc[p] = "opened"
    /\ flock # NoFile
    /\ Close(p)
    /\ UNCHANGED forked

\* It fails otherwise (lock_io).
LockIo(p) ==
    /\ pc[p] = "opened"
    /\ Close(p)
    /\ UNCHANGED forked

\* The SDK or the raw session is opened, under the lock.
OpenSession(p) ==
    /\ pc[p] = "held"
    /\ Goto(p, "session")
    /\ UNCHANGED <<file, forked, flock>>

\* The lock is dropped, ...
Release(p) ==
    /\ pc[p] = "held"
    /\ Close(p)
    /\ UNCHANGED forked

\* ... after the session: SdkSession and PtpUsbSession drop their fields in this order.
CloseSession(p) ==
    /\ pc[p] = "session"
    /\ Goto(p, "held")
    /\ UNCHANGED <<file, forked, flock>>

\* Plausible bug: the lock is a file of its own, which outlives a process that is killed.
DiesLeavesLock(p) ==
    /\ pc[p] # "idle"
    /\ file' = [file EXCEPT ![p] = NoFile]
    /\ Goto(p, "idle")
    /\ UNCHANGED <<forked, flock>>

\* The process dies, killed or not; another one may be started in its place.
Dies(p) ==
    /\ pc[p] # "idle"
    /\ Close(p)
    /\ UNCHANGED forked

\* Another thread of p spawns a child process: between fork and exec it shares every description.
Fork(p) ==
    /\ file[p] # NoFile
    /\ forked[file[p]] < MaxForks
    /\ forked' = [forked EXCEPT ![file[p]] = @ + 1]
    /\ UNCHANGED <<pc, file, flock>>

\* A child execs (or dies): its descriptor is closed.
Exec(f) ==
    /\ forked[f] > 0
    /\ forked' = [forked EXCEPT ![f] = @ - 1]
    /\ flock' = IF flock = f /\ forked[f] = 1 /\ \A p \in Procs : file[p] # f
                THEN NoFile ELSE flock
    /\ UNCHANGED <<pc, file>>

Next ==
    \/ \E p \in Procs :
          \/ Open(p) \/ Granted(p) \/ Busy(p) \/ LockIo(p) \/ OpenSession(p)
          \/ CloseSession(p) \/ Release(p) \/ Dies(p) \/ Fork(p)
    \/ \E f \in Files : Exec(f)

Spec == Init /\ [][Next]_vars

\* A forked child reaches its exec: nothing in it waits.
FairSpec == Spec /\ \A f \in Files : WF_vars(Exec(f))

-----------------------------------------------------------------------------
(* Properties. *)

\* Two sessions never overlap, whatever is killed, dropped, forked or refused in between
\* (camera_lock.rs, module comment; SdkSession's field order).
Exclusive == \A p, q \in Procs : pc[p] = "session" /\ pc[q] = "session" => p = q

\* A refusal has a cause that goes away: whenever the lock is taken, a live process holds it, or
\* a child of one is between fork and exec (camera_lock.rs, the window named in its comment).
BusyHasCause ==
    flock # NoFile =>
        \/ \E p \in Procs : file[p] = flock /\ pc[p] \in {"held", "session"}
        \/ forked[flock] > 0

\* The process that holds the lock.
Holder ==
    IF \E p \in Procs : pc[p] \in {"held", "session"}
    THEN CHOOSE p \in Procs : pc[p] \in {"held", "session"}
    ELSE Nobody

Contract ==
    INSTANCE LockContract
        WITH holder <- Holder, lingering <- (flock # NoFile /\ Holder = Nobody)

\* The flock implements what the callers rely on: a single holder, taken from a free lock only.
ImplementsLock == Contract!LockSpec

\* A lock whose holder dropped it or died becomes free: no child keeps it.
Freed == \A f \in Files : (flock = f /\ \A p \in Procs : file[p] # f) ~> flock # f

\* The inductive invariant behind the theorems of CameraLock_proof.
\* A process has a description exactly when it is past the open, and shares it with no other; ...
OwnFile ==
    /\ \A p \in Procs : file[p] = NoFile <=> pc[p] = "idle"
    /\ \A p, q \in Procs : file[p] = file[q] /\ file[p] # NoFile => p = q

\* ... who holds the lock has the description it was granted to, and that one is open.
Granting ==
    /\ \A p \in Procs : pc[p] \in {"held", "session"} <=> (file[p] # NoFile /\ file[p] = flock)
    /\ flock # NoFile => IsOpen(flock)

IInv == TypeOK /\ OwnFile /\ Granting
=============================================================================
