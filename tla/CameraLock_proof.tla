-------------------------- MODULE CameraLock_proof --------------------------
(***************************************************************************)
(* Proofs about CameraLock, for any processes, descriptions and forks.     *)
(*                                                                         *)
(* The invariant says what the kernel's bookkeeping amounts to: the holder *)
(* of the lock is the one process whose description the lock was granted   *)
(* to.  Everything else follows from that.                                 *)
(***************************************************************************)
EXTENDS CameraLock, TLAPS

\* The steps of one process, apart from its children's.
ProcStep(p) ==
    \/ Open(p) \/ Granted(p) \/ Busy(p) \/ LockIo(p) \/ OpenSession(p)
    \/ CloseSession(p) \/ Release(p) \/ Dies(p) \/ Fork(p)

LEMMA InitHolds == Init => IInv
BY LockAssumption DEF Init, IInv, TypeOK, OwnFile, Granting

\* What closing a description does, shared by a refusal, an error, a release and a death.
LEMMA Closing ==
    ASSUME IInv, NEW p \in Procs, pc[p] # "idle", Close(p), UNCHANGED forked
    PROVE  IInv'
<1> USE DEF Close, Goto
<1>1. file[p] \in Files
  BY LockAssumption DEF IInv, TypeOK, OwnFile
<1>2. TypeOK'
  BY <1>1 DEF IInv, TypeOK
<1>3. OwnFile'
  BY LockAssumption DEF IInv, TypeOK, OwnFile
<1>4. \A q \in Procs : pc'[q] \in {"held", "session"} <=> (file'[q] # NoFile /\ file'[q] = flock')
  <2> TAKE q \in Procs
  <2>1. CASE q = p
    BY <2>1, LockAssumption DEF IInv, TypeOK
  <2>2. CASE q # p
    <3>1. file[q] # file[p] \/ file[q] = NoFile
      BY <2>2 DEF IInv, OwnFile
    <3>2. pc'[q] = pc[q] /\ file'[q] = file[q]
      BY <2>2 DEF IInv, TypeOK
    <3>3. file[q] # NoFile => (file[q] = flock' <=> file[q] = flock)
      BY <3>1
    <3> QED
      BY <3>2, <3>3 DEF IInv, Granting
  <2> QED
    BY <2>1, <2>2
<1>5. flock' # NoFile => IsOpen(flock)'
  <2> SUFFICES ASSUME flock' # NoFile PROVE IsOpen(flock)'
    OBVIOUS
  <2>1. flock' = flock /\ flock # NoFile /\ IsOpen(flock)
    BY DEF IInv, Granting
  <2>2. CASE forked[flock] > 0
    BY <2>1, <2>2 DEF IsOpen
  <2>3. CASE ~(forked[flock] > 0)
    <3>1. flock \in Files /\ forked[flock] = 0
      BY <2>1, <2>3, LockAssumption DEF IInv, TypeOK
    <3>2. PICK q \in Procs : file[q] = flock
      BY <2>1, <2>3 DEF IsOpen
    <3>3. q # p
      BY <2>1, <3>1, <3>2
    <3> QED
      BY <2>1, <3>2, <3>3 DEF IsOpen, IInv, TypeOK
  <2> QED
    BY <2>2, <2>3
<1> QED
  BY <1>2, <1>3, <1>4, <1>5 DEF IInv, Granting

\* The steps that open a description, take the lock, or use it.
LEMMA ProcKeeps ==
    ASSUME IInv, NEW p \in Procs, ProcStep(p)
    PROVE  IInv'
<1>1. CASE Open(p)
  <2> USE DEF Open, Goto
  <2>1. PICK f \in Files : ~IsOpen(f) /\ file' = [file EXCEPT ![p] = f]
    BY <1>1
  <2>2. f # flock /\ f # NoFile /\ \A q \in Procs : file[q] # f
    BY <2>1, LockAssumption DEF IsOpen, IInv, Granting
  <2>3. TypeOK' /\ OwnFile'
    BY <1>1, <2>1, <2>2 DEF IInv, TypeOK, OwnFile
  <2>4. \A q \in Procs : file[q] = flock /\ flock # NoFile => file'[q] = flock
    BY <1>1, <2>1 DEF IInv, TypeOK, OwnFile
  <2>5. Granting'
    BY <1>1, <2>1, <2>2, <2>4 DEF IInv, TypeOK, OwnFile, Granting, IsOpen
  <2> QED
    BY <2>3, <2>5 DEF IInv
<1>2. CASE Granted(p)
  <2> USE DEF Granted, Goto
  <2>1. TypeOK' /\ OwnFile'
    BY <1>2 DEF IInv, TypeOK, OwnFile
  <2>2. file[p] # NoFile /\ \A q \in Procs : pc[q] \notin {"held", "session"}
    BY <1>2 DEF IInv, OwnFile, Granting
  <2>3. Granting'
    BY <1>2, <2>2 DEF IInv, TypeOK, OwnFile, Granting, IsOpen
  <2> QED
    BY <2>1, <2>3 DEF IInv
<1>3. CASE Busy(p) \/ LockIo(p) \/ Release(p) \/ Dies(p)
  BY <1>3, Closing DEF Busy, LockIo, Release, Dies
<1>4. CASE OpenSession(p) \/ CloseSession(p)
  BY <1>4 DEF OpenSession, CloseSession, Goto, IInv, TypeOK, OwnFile, Granting, IsOpen
<1>5. CASE Fork(p)
  <2>1. file[p] \in Files /\ forked[file[p]] \in Nat
    BY <1>5, LockAssumption DEF Fork, IInv, TypeOK
  <2>2. TypeOK'
    BY <1>5, <2>1, LockAssumption DEF Fork, IInv, TypeOK
  <2>3. flock # NoFile => IsOpen(flock)'
    BY <1>5, <2>1, LockAssumption DEF Fork, IInv, TypeOK, Granting, IsOpen
  <2> QED
    BY <1>5, <2>2, <2>3 DEF Fork, IInv, OwnFile, Granting
<1> QED
  BY <1>1, <1>2, <1>3, <1>4, <1>5 DEF ProcStep

LEMMA ExecKeepsInv ==
    ASSUME IInv, NEW f \in Files, Exec(f)
    PROVE  IInv'
<1> USE DEF Exec
<1>1. TypeOK'
  BY LockAssumption DEF IInv, TypeOK
<1>2. OwnFile'
  BY DEF IInv, OwnFile
<1>3. \A p \in Procs : file[p] # NoFile => (file[p] = flock' <=> file[p] = flock)
  BY LockAssumption
<1>4. flock' # NoFile => IsOpen(flock)'
  BY LockAssumption DEF IInv, TypeOK, Granting, IsOpen
<1> QED
  BY <1>1, <1>2, <1>3, <1>4 DEF IInv, Granting

LEMMA InvKept == IInv /\ [Next]_vars => IInv'
<1> SUFFICES ASSUME IInv, [Next]_vars PROVE IInv'
  OBVIOUS
<1>1. CASE UNCHANGED vars
  BY <1>1 DEF vars, IInv, TypeOK, OwnFile, Granting, IsOpen
<1>2. ASSUME NEW p \in Procs, ProcStep(p) PROVE IInv'
  BY <1>2, ProcKeeps
<1>3. ASSUME NEW f \in Files, Exec(f) PROVE IInv'
  BY <1>3, ExecKeepsInv
<1> QED
  BY <1>1, <1>2, <1>3 DEF Next, ProcStep

\* The inductive invariant holds throughout.
LEMMA Invariant == Spec => []IInv
BY InitHolds, InvKept, PTL DEF Spec

\* The variables keep their types.
THEOREM TypeCorrect == Spec => []TypeOK
BY Invariant, PTL DEF IInv

\* The one place a lock holder can be.
LEMMA OneHolder ==
    ASSUME IInv, NEW p \in Procs, NEW q \in Procs,
           pc[p] \in {"held", "session"}, pc[q] \in {"held", "session"}
    PROVE  p = q
BY DEF IInv, OwnFile, Granting

\* Two camera sessions never overlap (camera_lock.rs; SdkSession, PtpUsbSession).
THEOREM MutualExclusion == Spec => []Exclusive
<1>1. IInv => Exclusive
  BY OneHolder DEF Exclusive
<1> QED
  BY <1>1, Invariant, PTL

\* camera_busy always has a live holder or a child about to exec behind it.
THEOREM RefusalHasCause == Spec => []BusyHasCause
<1>1. IInv => BusyHasCause
  BY DEF IInv, Granting, BusyHasCause, IsOpen
<1> QED
  BY <1>1, Invariant, PTL

-----------------------------------------------------------------------------
(* The refinement. *)

\* The holder of the contract is the process that holds the lock, if there is one.
LEMMA HolderIs ==
    ASSUME IInv
    PROVE  /\ \A p \in Procs : pc[p] \in {"held", "session"} => Holder = p
           /\ (\A p \in Procs : pc[p] \notin {"held", "session"}) => Holder = Nobody
           /\ Holder # Nobody => Holder \in Procs /\ pc[Holder] \in {"held", "session"}
BY OneHolder DEF Holder

\* A step that changes neither the holder nor the lock is a stutter of the contract.
LEMMA SameHolder ==
    ASSUME IInv, IInv', flock' = flock,
           \A p \in Procs : pc'[p] \in {"held", "session"} <=> pc[p] \in {"held", "session"}
    PROVE  UNCHANGED Contract!lvars
<1>1. Holder' = Holder
  <2>1. CASE \E p \in Procs : pc[p] \in {"held", "session"}
    <3>1. PICK p \in Procs : pc[p] \in {"held", "session"}
      BY <2>1
    <3>2. Holder = p
      BY <3>1, HolderIs
    <3>3. \A q \in Procs : pc'[q] \in {"held", "session"} <=> q = p
      BY <3>1, OneHolder
    <3> QED
      BY <3>2, <3>3 DEF Holder
  <2>2. CASE ~\E p \in Procs : pc[p] \in {"held", "session"}
    BY <2>2 DEF Holder
  <2> QED
    BY <2>1, <2>2
<1> QED
  BY <1>1 DEF Contract!lvars

\* Closing a description gives the lock up, or leaves the holder alone.
LEMMA ClosingIsLeaving ==
    ASSUME IInv, IInv', NEW p \in Procs, pc[p] # "idle", Close(p), UNCHANGED forked
    PROVE  [Contract!LockNext]_(Contract!lvars)
<1>0. /\ pc'[p] = "idle"
      /\ \A q \in Procs \ {p} : pc'[q] = pc[q]
  BY DEF Close, Goto, IInv, TypeOK
<1>1. CASE pc[p] \in {"held", "session"}
  <2>1. Holder = p /\ p # Nobody
    BY <1>1, HolderIs, LockAssumption
  <2>2. \A q \in Procs : pc'[q] \notin {"held", "session"}
    BY <1>0, <1>1, OneHolder
  <2>3. Holder' = Nobody
    BY <2>2 DEF Holder
  <2>4. (flock # NoFile /\ Holder = Nobody)' \in BOOLEAN
    OBVIOUS
  <2>5. Contract!Leave
    BY <2>1, <2>3, <2>4 DEF Contract!Leave
  <2> QED
    BY <2>5 DEF Contract!LockNext
<1>2. CASE pc[p] \notin {"held", "session"}
  <2>1. file[p] # flock \/ flock = NoFile
    BY <1>2 DEF IInv, OwnFile, Granting
  <2>2. flock' = flock
    BY <2>1 DEF Close
  <2> QED
    BY <1>0, <1>2, <2>2, SameHolder
<1> QED
  BY <1>1, <1>2

\* Every step of a process or a child is a step the contract allows, or none.
LEMMA StepRefines ==
    ASSUME IInv, IInv', [Next]_vars
    PROVE  [Contract!LockNext]_(Contract!lvars)
<1>1. CASE UNCHANGED vars
  BY <1>1, SameHolder DEF vars
<1>2. ASSUME NEW p \in Procs, Open(p) \/ OpenSession(p) \/ CloseSession(p) \/ Fork(p)
      PROVE  [Contract!LockNext]_(Contract!lvars)
  <2>1. flock' = flock
    BY <1>2 DEF Open, OpenSession, CloseSession, Fork
  <2>2. \A q \in Procs : pc'[q] \in {"held", "session"} <=> pc[q] \in {"held", "session"}
    BY <1>2 DEF Open, OpenSession, CloseSession, Fork, Goto, IInv, TypeOK
  <2> QED
    BY <2>1, <2>2, SameHolder
<1>3. ASSUME NEW p \in Procs, Granted(p)
      PROVE  [Contract!LockNext]_(Contract!lvars)
  <2>1. \A q \in Procs : pc[q] \notin {"held", "session"}
    BY <1>3 DEF Granted, IInv, Granting
  <2>2. Holder = Nobody
    BY <2>1 DEF Holder
  <2>3. pc'[p] \in {"held", "session"}
    BY <1>3 DEF Granted, Goto, IInv, TypeOK
  <2>4. Holder' = p
    <3>1. \A q \in Procs : pc'[q] \in {"held", "session"} <=> q = p
      BY <1>3, <2>1, <2>3 DEF Granted, Goto, IInv, TypeOK
    <3> QED
      BY <3>1 DEF Holder
  <2>5. Contract!Take(p)
    BY <1>3, <2>2, <2>4, LockAssumption DEF Granted, Contract!Take
  <2> QED
    BY <2>5 DEF Contract!LockNext
<1>4. ASSUME NEW p \in Procs, Busy(p) \/ LockIo(p) \/ Release(p) \/ Dies(p)
      PROVE  [Contract!LockNext]_(Contract!lvars)
  BY <1>4, ClosingIsLeaving DEF Busy, LockIo, Release, Dies
<1>5. ASSUME NEW f \in Files, Exec(f)
      PROVE  [Contract!LockNext]_(Contract!lvars)
  <2>1. pc' = pc
    BY <1>5 DEF Exec
  <2>2. CASE flock' = flock
    BY <2>1, <2>2, SameHolder
  <2>3. CASE flock' # flock
    <3>1. flock' = NoFile /\ flock = f /\ f # NoFile /\ \A p \in Procs : file[p] # f
      BY <1>5, <2>3, LockAssumption DEF Exec
    <3>2. \A p \in Procs : pc[p] \notin {"held", "session"}
      BY <3>1 DEF IInv, Granting
    <3>3. Holder = Nobody /\ Holder' = Nobody
      BY <2>1, <3>2 DEF Holder
    <3>4. Contract!Settle
      BY <3>1, <3>3 DEF Contract!Settle
    <3> QED
      BY <3>4 DEF Contract!LockNext
  <2> QED
    BY <2>2, <2>3
<1> QED
  BY <1>1, <1>2, <1>3, <1>4, <1>5 DEF Next

\* The flock implements the lock its callers rely on.
THEOREM Refinement == Spec => ImplementsLock
<1>1. Init => Contract!LockInit
  BY DEF Init, Contract!LockInit, Holder
<1> QED
  BY <1>1, Invariant, StepRefines, PTL DEF Spec, ImplementsLock, Contract!LockSpec
=============================================================================
