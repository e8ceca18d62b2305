-------------------------- MODULE WorkerCall_proof --------------------------
(***************************************************************************)
(* Proofs about WorkerCall, for any set of calls and any number of writes. *)
(***************************************************************************)
EXTENDS WorkerCall, TLAPS

\* The specification preserves the types of its variables.
LEMMA TypeInit == Init => TypeOK
<1> SUFFICES ASSUME Init PROVE TypeOK
  OBVIOUS
<1>1. pipe \in [Calls -> Seq(Lines)] /\ queue \in Seq(Calls)
  BY DEF Init
<1>2. NoFlight \in [call : Calls \cup {NoCall}, writing : BOOLEAN]
  BY DEF NoFlight
<1> QED
  BY <1>1, <1>2, BoundsAssumption DEF Init, TypeOK

LEMMA TypeClient ==
    ASSUME TypeOK, NEW c \in Calls, ClientStep(c)
    PROVE  TypeOK'
<1>1. CASE Call(c)
  BY <1>1 DEF TypeOK, Call, serverVars, workerVars
<1>2. CASE Cancel(c)
  BY <1>2 DEF TypeOK, Cancel, serverVars, workerVars
<1> QED
  BY <1>1, <1>2 DEF ClientStep

LEMMA TypeSupervisor ==
    ASSUME TypeOK, NEW c \in Calls, SupervisorStep(c)
    PROVE  TypeOK'
<1> USE DEF TypeOK, serverVars, workerVars, Running, Lines
<1> DEFINE line == Head(pipe[c])
<1>a. ASSUME Absorb(c)
      PROVE  /\ pipe' \in [Calls -> Seq(Lines)]
             /\ writingSeen' \in [Calls -> BOOLEAN]
             /\ lastPhase' \in [Calls -> Phases \cup {"none"}]
             /\ answer' \in [Calls -> Outcomes \cup {"none"}]
  <2>1. pipe[c] \in Seq(Lines) /\ pipe[c] # <<>>
    BY <1>a DEF Absorb
  <2>2. line \in Lines /\ Tail(pipe[c]) \in Seq(Lines)
    BY <2>1
  <2> QED
    BY <1>a, <2>2 DEF Absorb
<1>b. ASSUME NEW r \in Reports \cup {"none"}, Finish(c, r)
      PROVE  /\ report' \in [Calls -> Reports \cup {"none"}]
             /\ pc' \in [Calls -> {"idle", "queued", "done"} \cup Running]
             /\ answer' \in [Calls -> Outcomes \cup {"none"}]
             /\ stop' \in [Calls -> Causes \cup {"none"}]
             /\ cancelIgnored' \in [Calls -> BOOLEAN]
             /\ cancelled' \in [Calls -> BOOLEAN]
             /\ inFlight' \in [call : Calls \cup {NoCall}, writing : BOOLEAN]
  BY <1>b DEF Finish, NoFlight
<1>1. CASE TakeTurn(c)
  BY <1>1 DEF TakeTurn
<1>2. CASE SpawnFails(c)
  BY <1>2 DEF SpawnFails, Reports
<1>3. CASE CancelledBeforeStart(c)
  <2>1. PICK i \in 1..Len(queue) :
           queue' = SubSeq(queue, 1, i - 1) \o SubSeq(queue, i + 1, Len(queue))
    BY <1>3 DEF CancelledBeforeStart
  <2>2. queue' \in Seq(Calls)
    BY <2>1
  <2> QED
    BY <1>3, <2>2 DEF CancelledBeforeStart, Reports
<1>4. CASE ReadLine(c)
  BY <1>4, <1>a DEF ReadLine, NoteProgress
<1>5. CASE EndOfInput(c)
  BY <1>5 DEF EndOfInput, Stop, Causes
<1>6. CASE ChannelError(c)
  BY <1>6 DEF ChannelError, Stop, Causes
<1>7. CASE DeadlineFires(c)
  BY <1>7 DEF DeadlineFires, Stop, Causes
<1>8. CASE CancelSeen(c)
  BY <1>8 DEF CancelSeen
<1>9. CASE DrainReadyLine(c)
  BY <1>9, <1>a DEF DrainReadyLine
<1>10. CASE CancelDecided(c)
  BY <1>10 DEF CancelDecided, Stop, Causes
<1>11. CASE WorkerLeft(c)
  BY <1>11, <1>b DEF WorkerLeft, Reports
<1>12. CASE GraceExpires(c)
  BY <1>12 DEF GraceExpires
<1>13. CASE Kill(c)
  BY <1>13 DEF Kill
<1>14. CASE Reap(c)
  BY <1>14, <1>b DEF Reap, Reports
<1>15. CASE DrainLine(c)
  BY <1>15, <1>a DEF DrainLine
<1>16. CASE Drained(c)
  BY <1>16, <1>b DEF Drained, Reports, NoResultReport
<1> QED
  BY <1>1, <1>2, <1>3, <1>4, <1>5, <1>6, <1>7, <1>8, <1>9, <1>10, <1>11, <1>12,
     <1>13, <1>14, <1>15, <1>16 DEF SupervisorStep, Reaped, ReapExpires

LEMMA TypeServer == TypeOK /\ ServerStep => TypeOK'
<1> SUFFICES ASSUME TypeOK, ServerStep PROVE TypeOK'
  OBVIOUS
<1>1. server' \in {"up", "client_gone", "signalled", "leaving", "gone"}
  BY DEF ServerStep, Signal, SignalExit, ClientGone, TasksDone, WaitExpires, RuntimeDrop
<1>2. marker' \in Calls \cup {NoCall}
  BY CallsAssumption
     DEF ServerStep, Signal, SignalExit, ClientGone, TasksDone, WaitExpires, RuntimeDrop,
         RecordInFlight, TypeOK
<1>3. killed' \in [Calls -> BOOLEAN]
  BY DEF ServerStep, Signal, SignalExit, ClientGone, TasksDone, WaitExpires, RuntimeDrop,
         TypeOK, workerVars
<1>4. UNCHANGED supervisorVars /\ UNCHANGED <<wpc, blocked, pipe, sent, issued, lock>>
  BY DEF ServerStep, Signal, SignalExit, ClientGone, TasksDone, WaitExpires, RuntimeDrop,
         workerVars
<1> QED
  BY <1>1, <1>2, <1>3, <1>4 DEF TypeOK, supervisorVars

LEMMA TypeWorker ==
    ASSUME TypeOK, NEW c \in Calls, WorkerStep(c)
    PROVE  TypeOK'
<1> USE DEF TypeOK, serverVars, supervisorVars, InSession, Goto
<1>a. ASSUME NEW x \in Lines, Send(c, x)
      PROVE  pipe' \in [Calls -> Seq(Lines)]
  <2>1. Append(pipe[c], x) \in Seq(Lines)
    OBVIOUS
  <2> QED
    BY <1>a, <2>1 DEF Send
<1>b. ASSUME NEW o \in Outcomes, SendResult(c, o)
      PROVE  /\ pipe' \in [Calls -> Seq(Lines)]
             /\ sent' \in [Calls -> Outcomes \cup {"none"}]
             /\ wpc' \in [Calls -> {"none", "start", "teardown", "dead"} \cup InSession]
  BY <1>b, <1>a DEF SendResult, Lines
<1>c. ASSUME Ends(c)
      PROVE  /\ wpc' \in [Calls -> {"none", "start", "teardown", "dead"} \cup InSession]
             /\ blocked' \in [Calls -> BOOLEAN]
             /\ lock' \in Calls \cup {"outside", "free"}
  BY <1>c DEF Ends
<1>1. CASE WConnect(c)
  BY <1>1, <1>a DEF WConnect, Lines, Phases, EarlyPhases
<1>2. CASE WBusy(c)
  BY <1>2, <1>b DEF WBusy, Outcomes
<1>3. CASE WRefuse(c)
  BY <1>3, <1>b DEF WRefuse, Outcomes
<1>4. CASE WAnswer(c)
  BY <1>4, <1>b DEF WAnswer, Outcomes
<1>5. CASE WPrepare(c)
  BY <1>5, <1>a DEF WPrepare, Lines, Phases, EarlyPhases
<1>6. CASE WAnnounce(c)
  BY <1>6, <1>a DEF WAnnounce, Lines, Phases, WritePhases
<1>7. CASE WCannotAnnounce(c)
  BY <1>7, <1>c DEF WCannotAnnounce
<1>8. CASE WWrite(c)
  BY <1>8, BoundsAssumption DEF WWrite
<1>9. CASE WReadBack(c)
  BY <1>9, <1>a DEF WReadBack, Lines, Phases, WritePhases
<1>10. CASE WReport(c)
  BY <1>10, <1>b DEF WReport, Outcomes
<1>11. CASE WBlock(c)
  BY <1>11 DEF WBlock
<1>12. CASE WUnblock(c)
  BY <1>12 DEF WUnblock
<1>13. CASE WExit(c)
  BY <1>13, <1>c DEF WExit
<1>14. CASE WCrash(c)
  BY <1>14, <1>c DEF WCrash
<1>15. CASE WKilled(c)
  BY <1>15, <1>c DEF WKilled
<1> QED
  BY <1>1, <1>2, <1>3, <1>4, <1>5, <1>6, <1>7, <1>8, <1>9, <1>10, <1>11, <1>12,
     <1>13, <1>14, <1>15 DEF WorkerStep

LEMMA TypeNext == TypeOK /\ [Next]_vars => TypeOK'
<1> SUFFICES ASSUME TypeOK, [Next]_vars PROVE TypeOK'
  OBVIOUS
<1>1. CASE \E c \in Calls : ClientStep(c) \/ SupervisorStep(c) \/ WorkerStep(c)
  BY <1>1, TypeClient, TypeSupervisor, TypeWorker
<1>2. CASE ServerStep
  BY <1>2, TypeServer
<1>3. CASE OutsideTakes \/ OutsideReleases
  BY <1>3 DEF OutsideTakes, OutsideReleases, TypeOK, supervisorVars, serverVars
<1>4. CASE UNCHANGED vars
  BY <1>4 DEF vars, TypeOK
<1> QED
  BY <1>1, <1>2, <1>3, <1>4 DEF Next

\* Every variable keeps its type, whatever the calls do.
THEOREM TypeCorrect == Spec => []TypeOK
<1>1. Init => TypeOK
  BY TypeInit
<1>2. TypeOK /\ [Next]_vars => TypeOK'
  BY TypeNext
<1> QED
  BY <1>1, <1>2, PTL DEF Spec

-----------------------------------------------------------------------------
(* Lines and phases. *)

\* Reading the first line keeps the order of the phases; a write phase read leaves no early one.
LEMMA ReadOrder ==
    ASSUME NEW s \in Seq(Lines), s # <<>>, PhasesInOrder(s)
    PROVE  /\ PhasesInOrder(Tail(s))
           /\ Head(s) \in WritePhases => NoEarlyPhase(Tail(s))
           /\ NoEarlyPhase(s) => NoEarlyPhase(Tail(s)) /\ Head(s) \notin EarlyPhases
           /\ HasWritePhase(s) <=> Head(s) \in WritePhases \/ HasWritePhase(Tail(s))
<1>1. /\ Len(s) \in Nat /\ Len(s) > 0 /\ Head(s) = s[1]
      /\ Len(Tail(s)) = Len(s) - 1
      /\ \A i \in 1..Len(Tail(s)) : Tail(s)[i] = s[i + 1] /\ i + 1 \in 1..Len(s)
  OBVIOUS
<1>2. PhasesInOrder(Tail(s))
  BY <1>1 DEF PhasesInOrder
<1>3. Head(s) \in WritePhases => NoEarlyPhase(Tail(s))
  BY <1>1 DEF PhasesInOrder, NoEarlyPhase
<1>4. NoEarlyPhase(s) => NoEarlyPhase(Tail(s)) /\ Head(s) \notin EarlyPhases
  BY <1>1 DEF NoEarlyPhase
<1>5. HasWritePhase(s) <=> Head(s) \in WritePhases \/ HasWritePhase(Tail(s))
  <2>1. ASSUME NEW i \in 1..Len(s), s[i] \in WritePhases
        PROVE  Head(s) \in WritePhases \/ HasWritePhase(Tail(s))
    <3>1. CASE i = 1
      BY <2>1, <3>1, <1>1
    <3>2. CASE i # 1
      <4>1. i - 1 \in 1..Len(Tail(s)) /\ Tail(s)[i - 1] = s[i]
        BY <1>1, <3>2
      <4> QED
        BY <4>1, <2>1 DEF HasWritePhase
    <3> QED
      BY <3>1, <3>2
  <2>2. Head(s) \in WritePhases => HasWritePhase(s)
    BY <1>1 DEF HasWritePhase
  <2>3. HasWritePhase(Tail(s)) => HasWritePhase(s)
    BY <1>1 DEF HasWritePhase
  <2> QED
    BY <2>1, <2>2, <2>3 DEF HasWritePhase
<1> QED
  BY <1>2, <1>3, <1>4, <1>5

\* Flushing a line keeps the order unless an early phase follows a write phase.
LEMMA SendOrder ==
    ASSUME NEW s \in Seq(Lines), NEW x \in Lines
    PROVE  /\ HasWritePhase(Append(s, x)) <=> HasWritePhase(s) \/ x \in WritePhases
           /\ NoEarlyPhase(s) /\ x \notin EarlyPhases => NoEarlyPhase(Append(s, x))
           /\ PhasesInOrder(s) /\ (x \notin EarlyPhases \/ ~HasWritePhase(s))
                => PhasesInOrder(Append(s, x))
<1> DEFINE t == Append(s, x)
<1>1. /\ Len(s) \in Nat /\ Len(t) = Len(s) + 1 /\ t[Len(s) + 1] = x
      /\ \A i \in 1..Len(s) : t[i] = s[i] /\ i \in 1..Len(t)
      /\ \A i \in 1..Len(t) : i \in 1..Len(s) \/ i = Len(s) + 1
  OBVIOUS
<1> HIDE DEF t
<1>2. HasWritePhase(t) <=> HasWritePhase(s) \/ x \in WritePhases
  <2>1. HasWritePhase(t) => HasWritePhase(s) \/ x \in WritePhases
    BY <1>1 DEF HasWritePhase
  <2>2. HasWritePhase(s) => HasWritePhase(t)
    BY <1>1 DEF HasWritePhase
  <2>3. x \in WritePhases => HasWritePhase(t)
    <3>1. Len(s) + 1 \in 1..Len(t)
      BY <1>1
    <3> QED
      BY <1>1, <3>1 DEF HasWritePhase
  <2> QED
    BY <2>1, <2>2, <2>3
<1>3. NoEarlyPhase(s) /\ x \notin EarlyPhases => NoEarlyPhase(t)
  BY <1>1 DEF NoEarlyPhase
<1>4. PhasesInOrder(s) /\ (x \notin EarlyPhases \/ ~HasWritePhase(s)) => PhasesInOrder(t)
  <2> SUFFICES ASSUME PhasesInOrder(s), x \notin EarlyPhases \/ ~HasWritePhase(s),
                      NEW i \in 1..Len(t), NEW j \in 1..Len(t),
                      i < j, t[i] \in WritePhases
               PROVE  t[j] \notin EarlyPhases
    BY DEF PhasesInOrder
  <2>1. i \in 1..Len(s) /\ t[i] = s[i]
    BY <1>1
  <2>2. CASE j \in 1..Len(s)
    BY <2>1, <2>2, <1>1 DEF PhasesInOrder
  <2>3. CASE j = Len(s) + 1
    BY <2>1, <2>3, <1>1 DEF HasWritePhase
  <2> QED
    BY <2>2, <2>3, <1>1
<1> QED
  BY <1>2, <1>3, <1>4 DEF t

-----------------------------------------------------------------------------
(* The inductive invariant. *)

LEMMA InvInit == Init => IInv
<1> SUFFICES ASSUME Init PROVE IInv
  OBVIOUS
<1>1. TypeOK
  BY TypeInit
<1>2. ASSUME NEW c \in Calls PROVE CallInv(c)
  <2>1. ~Delivered(c) /\ PhasesInOrder(pipe[c])
    BY DEF Init, Delivered, HasWritePhase, PhasesInOrder
  <2> QED
    BY <2>1 DEF Init, CallInv, PhaseOrder, WorkerOrder, CallOrder, WritePhases
<1> QED
  BY <1>1, <1>2 DEF IInv

\* What the invariant says of a call depends on that call's own state.
LEMMA Frame ==
    ASSUME NEW d \in Calls, CallInv(d),
           pc'[d] = pc[d], lastPhase'[d] = lastPhase[d], writingSeen'[d] = writingSeen[d],
           answer'[d] = answer[d], report'[d] = report[d], wpc'[d] = wpc[d],
           killed[d] => killed'[d], pipe'[d] = pipe[d], issued'[d] = issued[d]
    PROVE  CallInv(d)'
BY DEF CallInv, PhaseOrder, WorkerOrder, CallOrder, Delivered, HasWritePhase, NoEarlyPhase,
       PhasesInOrder

\* A step of one call leaves the state of every other call alone.
LEMMA OtherCalls ==
    ASSUME IInv, NEW c \in Calls, ClientStep(c) \/ SupervisorStep(c) \/ WorkerStep(c),
           NEW d \in Calls, d # c
    PROVE  CallInv(d)'
<1> DEFINE Same == /\ pc'[d] = pc[d] /\ lastPhase'[d] = lastPhase[d]
                   /\ writingSeen'[d] = writingSeen[d] /\ answer'[d] = answer[d]
                   /\ report'[d] = report[d] /\ wpc'[d] = wpc[d] /\ killed'[d] = killed[d]
                   /\ pipe'[d] = pipe[d] /\ issued'[d] = issued[d]
<1> USE DEF IInv, TypeOK, serverVars, workerVars, supervisorVars
<1>1. CASE ClientStep(c)
  BY <1>1, Frame DEF ClientStep, Call, Cancel
<1>2. CASE SupervisorStep(c)
  <2>1. Same
    BY <1>2 DEF SupervisorStep, TakeTurn, SpawnFails, CancelledBeforeStart, ReadLine, EndOfInput,
         ChannelError, DeadlineFires, CancelSeen, DrainReadyLine, CancelDecided, WorkerLeft,
         GraceExpires, Kill, Reaped, ReapExpires, Reap, DrainLine, Drained, Absorb, Stop, Finish
  <2> QED
    BY <2>1, Frame
<1>3. CASE WorkerStep(c)
  <2>1. Same
    BY <1>3 DEF WorkerStep, WConnect, WBusy, WRefuse, WAnswer, WPrepare, WAnnounce,
         WCannotAnnounce, WWrite, WReadBack, WReport, WBlock, WUnblock, WExit, WCrash, WKilled,
         Send, SendResult, Goto, Ends
  <2> QED
    BY <2>1, Frame
<1> QED
  BY <1>1, <1>2, <1>3

LEMMA ClientInv ==
    ASSUME IInv, NEW c \in Calls, ClientStep(c)
    PROVE  CallInv(c)'
<1> USE DEF IInv, TypeOK, serverVars, workerVars, Delivered, HasWritePhase, NoEarlyPhase,
        PhasesInOrder
<1>1. CASE Call(c)
  BY <1>1 DEF Call, CallInv, PhaseOrder, WorkerOrder, CallOrder
<1>2. CASE Cancel(c)
  BY <1>2 DEF Cancel, CallInv, PhaseOrder, WorkerOrder, CallOrder
<1> QED
  BY <1>1, <1>2 DEF ClientStep

\* What reading a line does to a call.
LEMMA AbsorbInv ==
    ASSUME IInv, NEW c \in Calls, Absorb(c), wpc' = wpc, issued' = issued
    PROVE  PhaseOrder(c)' /\ WorkerOrder(c)' /\ (Delivered(c)' <=> Delivered(c))
<1> DEFINE s == pipe[c]
<1>1. s \in Seq(Lines) /\ s # <<>> /\ PhasesInOrder(s) /\ PhaseOrder(c) /\ WorkerOrder(c)
  BY DEF IInv, TypeOK, Absorb, CallInv, PhaseOrder
<1>2. /\ pipe'[c] = Tail(s)
      /\ writingSeen'[c] = (writingSeen[c] \/ Head(s) \in WritePhases)
      /\ lastPhase'[c] = IF Head(s) \in Phases THEN Head(s) ELSE lastPhase[c]
  BY DEF Absorb, IInv, TypeOK
<1>3. /\ PhasesInOrder(Tail(s))
      /\ Head(s) \in WritePhases => NoEarlyPhase(Tail(s))
      /\ NoEarlyPhase(s) => NoEarlyPhase(Tail(s)) /\ Head(s) \notin EarlyPhases
      /\ HasWritePhase(s) <=> Head(s) \in WritePhases \/ HasWritePhase(Tail(s))
  BY <1>1, ReadOrder
<1>4. PhasesInOrder(pipe[c])' /\ (NoEarlyPhase(pipe[c])' <=> NoEarlyPhase(Tail(s)))
      /\ (HasWritePhase(pipe[c])' <=> HasWritePhase(Tail(s)))
  BY <1>2, <1>3 DEF PhasesInOrder, NoEarlyPhase, HasWritePhase
<1>5. Delivered(c)' <=> Delivered(c)
  BY <1>2, <1>3, <1>4 DEF Delivered
<1>6. writingSeen[c] \in BOOLEAN /\ Head(s) \in Lines
  BY <1>1 DEF IInv, TypeOK
<1>7. PhaseOrder(c)'
  <2>1. writingSeen'[c] <=> lastPhase'[c] \in WritePhases
    BY <1>1, <1>2, <1>3, <1>6 DEF PhaseOrder, Phases, WritePhases, EarlyPhases, NoEarlyPhase
  <2>2. writingSeen'[c] => NoEarlyPhase(pipe[c])'
    BY <1>1, <1>2, <1>3, <1>4 DEF PhaseOrder
  <2> QED
    BY <2>1, <2>2, <1>4 DEF PhaseOrder
<1>8. WorkerOrder(c)'
  BY <1>1, <1>5 DEF WorkerOrder
<1> QED
  BY <1>5, <1>7, <1>8

LEMMA SupervisorInv ==
    ASSUME IInv, NEW c \in Calls, SupervisorStep(c)
    PROVE  CallInv(c)'
<1> USE DEF serverVars, workerVars, Running
<1>0. TypeOK /\ CallInv(c)
  BY DEF IInv
<1>a. ASSUME pipe' = pipe, lastPhase' = lastPhase, writingSeen' = writingSeen
      PROVE  /\ Delivered(c)' <=> Delivered(c)
             /\ PhaseOrder(c)'
             /\ wpc' = wpc /\ issued' = issued => WorkerOrder(c)'
  BY <1>0, <1>a DEF CallInv, PhaseOrder, WorkerOrder, Delivered, HasWritePhase, NoEarlyPhase,
     PhasesInOrder
<1>1. CASE TakeTurn(c)
  BY <1>1, <1>0, <1>a DEF TakeTurn, TypeOK, CallInv, WorkerOrder, CallOrder, WritePhases
<1>2. CASE SpawnFails(c)
  BY <1>2, <1>0, <1>a DEF SpawnFails, TypeOK, CallInv, WorkerOrder, CallOrder, WritePhases
<1>3. CASE CancelledBeforeStart(c)
  BY <1>3, <1>0, <1>a DEF CancelledBeforeStart, TypeOK, CallInv, WorkerOrder, CallOrder, WritePhases
<1>4. CASE ReadLine(c)
  <2>1. PhaseOrder(c)' /\ WorkerOrder(c)' /\ (Delivered(c)' <=> Delivered(c))
    BY <1>4, AbsorbInv DEF ReadLine
  <2> QED
    BY <1>4, <2>1, <1>0 DEF ReadLine, Absorb, TypeOK, CallInv, CallOrder
<1>5. CASE EndOfInput(c)
  BY <1>5, <1>0, <1>a DEF EndOfInput, Stop, TypeOK, CallInv, CallOrder
<1>6. CASE ChannelError(c)
  BY <1>6, <1>0, <1>a DEF ChannelError, Stop, TypeOK, CallInv, CallOrder
<1>7. CASE DeadlineFires(c)
  BY <1>7, <1>0, <1>a DEF DeadlineFires, Stop, TypeOK, CallInv, CallOrder
<1>8. CASE CancelSeen(c)
  BY <1>8, <1>0, <1>a DEF CancelSeen, TypeOK, CallInv, CallOrder
<1>9. CASE DrainReadyLine(c)
  <2>1. PhaseOrder(c)' /\ WorkerOrder(c)' /\ (Delivered(c)' <=> Delivered(c))
    BY <1>9, AbsorbInv DEF DrainReadyLine
  <2> QED
    BY <1>9, <2>1, <1>0 DEF DrainReadyLine, Absorb, TypeOK, CallInv, CallOrder
<1>10. CASE CancelDecided(c)
  BY <1>10, <1>0, <1>a DEF CancelDecided, Stop, TypeOK, CallInv, CallOrder
<1>11. CASE WorkerLeft(c)
  <2>1. answer[c] \in Outcomes
    BY <1>11, <1>0 DEF WorkerLeft, TypeOK, CallInv, CallOrder
  <2> QED
    BY <1>11, <2>1, <1>0, <1>a DEF WorkerLeft, Finish, TypeOK, CallInv, CallOrder, Outcomes
<1>12. CASE GraceExpires(c)
  BY <1>12, <1>0, <1>a DEF GraceExpires, TypeOK, CallInv, CallOrder
<1>13. CASE Kill(c)
  BY <1>13, <1>0, <1>a DEF Kill, TypeOK, CallInv, CallOrder
<1>14. CASE Reap(c)
  <2>1. answer[c] \in Outcomes \cup {"none"}
    BY <1>0 DEF TypeOK
  <2> QED
    BY <1>14, <2>1, <1>0, <1>a DEF Reap, Finish, TypeOK, CallInv, CallOrder, Outcomes
<1>15. CASE DrainLine(c)
  <2>1. PhaseOrder(c)' /\ WorkerOrder(c)' /\ (Delivered(c)' <=> Delivered(c))
    BY <1>15, AbsorbInv DEF DrainLine
  <2> QED
    BY <1>15, <2>1, <1>0 DEF DrainLine, Absorb, TypeOK, CallInv, CallOrder
<1>16. CASE Drained(c)
  <2>1. answer[c] \in Outcomes \cup {"none"}
    BY <1>0 DEF TypeOK
  <2>2. CASE answer[c] # "none"
    BY <1>16, <2>1, <2>2, <1>0, <1>a DEF Drained, Finish, TypeOK, CallInv, CallOrder, Outcomes
  <2>3. CASE answer[c] = "none"
    <3>1. pipe[c] = <<>> /\ Finish(c, NoResultReport(c))
      BY <1>16, <2>3 DEF Drained
    <3>2. Delivered(c) <=> writingSeen[c]
      BY <3>1 DEF Delivered, HasWritePhase
    <3>3. NoResultReport(c) \in {"read_no_result", "not_applied"} => ~Delivered(c)
      BY <3>2, <1>0 DEF NoResultReport, CallInv, PhaseOrder, WorkerOrder
    <3>4. NoResultReport(c) \notin {"cancelled", "spawn_failed"}
      BY DEF NoResultReport
    <3> QED
      BY <1>16, <3>1, <3>3, <3>4, <1>0, <1>a DEF Drained, Finish, TypeOK, CallInv, CallOrder
  <2> QED
    BY <2>2, <2>3
<1> QED
  BY <1>1, <1>2, <1>3, <1>4, <1>5, <1>6, <1>7, <1>8, <1>9, <1>10, <1>11, <1>12,
     <1>13, <1>14, <1>15, <1>16 DEF SupervisorStep, Reaped, ReapExpires

\* What a line the worker flushes does to a call; a line nobody can read changes nothing.
LEMMA SendInv ==
    ASSUME IInv, NEW c \in Calls, NEW x \in Lines, Send(c, x),
           x \in EarlyPhases => ~Delivered(c),
           lastPhase' = lastPhase, writingSeen' = writingSeen
    PROVE  /\ PhaseOrder(c)'
           /\ Delivered(c) => Delivered(c)'
           /\ x \notin WritePhases => (Delivered(c)' <=> Delivered(c))
           /\ Readable(c) /\ x \in WritePhases => Delivered(c)'
           /\ ~Readable(c) => (Delivered(c)' <=> Delivered(c))
<1> DEFINE s == pipe[c]
<1>1. s \in Seq(Lines) /\ PhaseOrder(c)
  BY DEF IInv, TypeOK, CallInv
<1>2. CASE ~Readable(c)
  <2>1. pipe' = pipe
    BY <1>2 DEF Send
  <2> QED
    BY <2>1, <1>1, <1>2 DEF PhaseOrder, Delivered, HasWritePhase, NoEarlyPhase, PhasesInOrder
<1>3. CASE Readable(c)
  <2>1. pipe'[c] = Append(s, x)
    BY <1>3 DEF Send, IInv, TypeOK
  <2>2. /\ HasWritePhase(Append(s, x)) <=> HasWritePhase(s) \/ x \in WritePhases
        /\ NoEarlyPhase(s) /\ x \notin EarlyPhases => NoEarlyPhase(Append(s, x))
        /\ PhasesInOrder(s) /\ (x \notin EarlyPhases \/ ~HasWritePhase(s))
             => PhasesInOrder(Append(s, x))
    BY <1>1, SendOrder
  <2>3. /\ HasWritePhase(pipe[c])' <=> HasWritePhase(Append(s, x))
        /\ NoEarlyPhase(pipe[c])' <=> NoEarlyPhase(Append(s, x))
        /\ PhasesInOrder(pipe[c])' <=> PhasesInOrder(Append(s, x))
    BY <2>1 DEF HasWritePhase, NoEarlyPhase, PhasesInOrder
  <2>4. PhaseOrder(c)'
    BY <1>1, <2>2, <2>3 DEF PhaseOrder, Delivered
  <2>5. Delivered(c)' <=> Delivered(c) \/ x \in WritePhases
    BY <2>2, <2>3 DEF Delivered
  <2> QED
    BY <1>3, <2>4, <2>5
<1> QED
  BY <1>2, <1>3

LEMMA WorkerInv ==
    ASSUME IInv, NEW c \in Calls, WorkerStep(c)
    PROVE  CallInv(c)'
<1> USE DEF supervisorVars
<1>0. /\ TypeOK /\ CallInv(c)
      /\ lastPhase' = lastPhase /\ writingSeen' = writingSeen
      /\ pc' = pc /\ report' = report /\ answer' = answer /\ server' = server
  BY DEF IInv, WorkerStep, WConnect, WBusy, WRefuse, WAnswer, WPrepare, WAnnounce, WCannotAnnounce,
     WWrite, WReadBack, WReport, WBlock, WUnblock, WExit, WCrash, WKilled, serverVars
\* A worker that acts belongs to a call that has no report and whose worker is not given up.
<1>r. ASSUME Runs(c)
      PROVE  pc[c] \notin {"idle", "queued", "reaping", "draining", "done"} /\ report[c] = "none"
  BY <1>r, <1>0 DEF Runs, CallInv, CallOrder, TypeOK
<1>p. ASSUME pipe' = pipe
      PROVE  PhaseOrder(c)' /\ (Delivered(c)' <=> Delivered(c))
  BY <1>0, <1>p DEF CallInv, PhaseOrder, Delivered, HasWritePhase, NoEarlyPhase, PhasesInOrder
\* The process ends: what was delivered stays delivered.
<1>e. ASSUME Ends(c), wpc[c] # "none", pipe' = pipe, issued' = issued, killed' = killed
      PROVE  CallInv(c)'
  <2>1. wpc'[c] = "dead"
    BY <1>e, <1>0 DEF Ends, Goto, TypeOK
  <2>2. pc[c] \in {"idle", "queued"} => wpc[c] = "none"
    BY <1>0 DEF CallInv, CallOrder
  <2> QED
    BY <2>1, <2>2, <1>e, <1>p, <1>0 DEF CallInv, WorkerOrder, CallOrder, WritePhases
\* A result is sent before or after the writes; it is no phase.
<1>s. ASSUME NEW o \in Outcomes, Runs(c), SendResult(c, o), issued' = issued, killed' = killed,
             wpc[c] # "saved"
      PROVE  CallInv(c)'
  <2>1. o \in Lines /\ o \notin EarlyPhases /\ o \notin WritePhases
    BY DEF Lines, Outcomes, EarlyPhases, WritePhases
  <2>2. PhaseOrder(c)' /\ (Delivered(c)' <=> Delivered(c))
    BY <1>s, <2>1, <1>0, SendInv DEF SendResult
  <2>3. wpc'[c] = "teardown"
    BY <1>s, <1>0 DEF SendResult, TypeOK
  <2> QED
    BY <2>2, <2>3, <1>r, <1>s, <1>0 DEF CallInv, WorkerOrder, CallOrder, WritePhases
<1>1. CASE WConnect(c)
  <2>1. wpc[c] = "start" /\ ~Delivered(c)
    BY <1>1, <1>0 DEF WConnect, CallInv, WorkerOrder, WritePhases
  <2>2. PhaseOrder(c)' /\ (Delivered(c)' <=> Delivered(c))
    BY <1>1, <2>1, <1>0, SendInv DEF WConnect, Lines, Phases, EarlyPhases, WritePhases
  <2> QED
    BY <1>1, <2>1, <2>2, <1>r, <1>0
       DEF WConnect, Goto, TypeOK, CallInv, WorkerOrder, CallOrder, WritePhases
<1>2. CASE WBusy(c)
  BY <1>2, <1>s DEF WBusy, Outcomes
<1>3. CASE WRefuse(c)
  BY <1>3, <1>s DEF WRefuse, Outcomes
<1>4. CASE WAnswer(c)
  BY <1>4, <1>s DEF WAnswer, Outcomes
<1>5. CASE WPrepare(c)
  <2>1. ~Delivered(c) /\ c \in ApplyCalls
    BY <1>5, <1>0 DEF WPrepare, CallInv, WorkerOrder, WritePhases
  <2>2. PhaseOrder(c)' /\ (Delivered(c)' <=> Delivered(c))
    BY <1>5, <2>1, <1>0, SendInv DEF WPrepare, Lines, Phases, EarlyPhases, WritePhases
  <2>3. wpc'[c] \in {"verified", "saved"}
    BY <1>5, <1>0 DEF WPrepare, Goto, TypeOK
  <2> QED
    BY <1>5, <2>1, <2>2, <2>3, <1>r, <1>0
       DEF WPrepare, CallInv, WorkerOrder, CallOrder, WritePhases
<1>6. CASE WAnnounce(c)
  <2>1. c \in ApplyCalls
    BY <1>6, <1>0 DEF WAnnounce, CallInv, WorkerOrder
  <2>2. PhaseOrder(c)' /\ Delivered(c)'
    BY <1>6, <1>0, SendInv DEF WAnnounce, Lines, Phases, EarlyPhases, WritePhases
  <2>3. wpc'[c] = "writing"
    BY <1>6, <1>0 DEF WAnnounce, Goto, TypeOK
  <2> QED
    BY <1>6, <2>1, <2>2, <2>3, <1>r, <1>0
       DEF WAnnounce, CallInv, WorkerOrder, CallOrder, WritePhases
<1>7. CASE WCannotAnnounce(c)
  BY <1>7, <1>e DEF WCannotAnnounce, Runs
<1>8. CASE WWrite(c)
  <2>1. Delivered(c)
    BY <1>8, <1>0 DEF WWrite, CallInv, WorkerOrder, WritePhases
  <2> QED
    BY <1>8, <2>1, <1>p, <1>0 DEF WWrite, CallInv, WorkerOrder, CallOrder
<1>9. CASE WReadBack(c)
  <2>1. Delivered(c)
    BY <1>9, <1>0 DEF WReadBack, CallInv, WorkerOrder, WritePhases
  <2>2. PhaseOrder(c)' /\ Delivered(c)'
    BY <1>9, <2>1, <1>0, SendInv DEF WReadBack, Lines, Phases, EarlyPhases, WritePhases
  <2>3. wpc'[c] = "read_back" /\ c \in ApplyCalls
    BY <1>9, <2>1, <1>0 DEF WReadBack, Goto, TypeOK, CallInv, WorkerOrder
  <2> QED
    BY <1>9, <2>2, <2>3, <1>r, <1>0
       DEF WReadBack, CallInv, WorkerOrder, CallOrder, WritePhases
<1>10. CASE WReport(c)
  BY <1>10, <1>s DEF WReport, Outcomes
<1>11. CASE WBlock(c)
  BY <1>11, <1>p, <1>0 DEF WBlock, CallInv, WorkerOrder, CallOrder
<1>12. CASE WUnblock(c)
  BY <1>12, <1>p, <1>0 DEF WUnblock, CallInv, WorkerOrder, CallOrder
<1>13. CASE WExit(c)
  BY <1>13, <1>e DEF WExit, Runs
<1>14. CASE WCrash(c)
  BY <1>14, <1>e DEF WCrash, Runs
<1>15. CASE WKilled(c)
  BY <1>15, <1>e DEF WKilled
<1> QED
  BY <1>1, <1>2, <1>3, <1>4, <1>5, <1>6, <1>7, <1>8, <1>9, <1>10, <1>11, <1>12,
     <1>13, <1>14, <1>15 DEF WorkerStep

LEMMA InvNext == IInv /\ [Next]_vars => IInv'
<1> SUFFICES ASSUME IInv, [Next]_vars PROVE IInv'
  OBVIOUS
<1>1. TypeOK'
  BY TypeNext DEF IInv
<1>2. ASSUME NEW d \in Calls PROVE CallInv(d)'
  <2>0. CallInv(d)
    BY DEF IInv
  <2>1. ASSUME NEW c \in Calls, ClientStep(c) \/ SupervisorStep(c) \/ WorkerStep(c)
        PROVE  CallInv(d)'
    <3>1. CASE c = d
      BY <2>1, <3>1, ClientInv, SupervisorInv, WorkerInv
    <3>2. CASE c # d
      BY <2>1, <3>2, OtherCalls
    <3> QED
      BY <3>1, <3>2
  <2>2. CASE ServerStep
    <3>1. /\ UNCHANGED <<pc, lastPhase, writingSeen, answer, report, wpc, pipe, issued>>
          /\ killed[d] => killed'[d]
      BY <2>2 DEF ServerStep, Signal, SignalExit, ClientGone, TasksDone, WaitExpires, RuntimeDrop,
         supervisorVars, workerVars
    <3> QED
      BY <3>1, <2>0, Frame
  <2>3. CASE OutsideTakes \/ OutsideReleases
    BY <2>3, <2>0, Frame DEF OutsideTakes, OutsideReleases, supervisorVars
  <2>4. CASE UNCHANGED vars
    BY <2>4, <2>0, Frame DEF vars
  <2> QED
    BY <2>1, <2>2, <2>3, <2>4 DEF Next
<1> QED
  BY <1>1, <1>2 DEF IInv

LEMMA Invariant == Spec => []IInv
<1>1. Init => IInv
  BY InvInit
<1>2. IInv /\ [Next]_vars => IInv'
  BY InvNext
<1> QED
  BY <1>1, <1>2, PTL DEF Spec

-----------------------------------------------------------------------------
(* The way of a result line. *)

\* Reading the first line takes at most that line's result away, and adds none.
LEMMA ReadResult ==
    ASSUME NEW s \in Seq(Lines), s # <<>>, NEW o, OnlyResult(s, o)
    PROVE  /\ OnlyResult(Tail(s), o)
           /\ Head(s) \in Outcomes => Head(s) = o
           /\ HasResult(s) /\ Head(s) \notin Outcomes => HasResult(Tail(s))
<1>1. /\ Len(s) \in Nat /\ Len(s) > 0 /\ Head(s) = s[1]
      /\ Len(Tail(s)) = Len(s) - 1
      /\ \A i \in 1..Len(Tail(s)) : Tail(s)[i] = s[i + 1] /\ i + 1 \in 1..Len(s)
  OBVIOUS
<1>2. OnlyResult(Tail(s), o) /\ (Head(s) \in Outcomes => Head(s) = o)
  BY <1>1 DEF OnlyResult
<1>3. ASSUME NEW i \in 1..Len(s), s[i] \in Outcomes, Head(s) \notin Outcomes
      PROVE  HasResult(Tail(s))
  <2>1. i - 1 \in 1..Len(Tail(s)) /\ Tail(s)[i - 1] = s[i]
    BY <1>1, <1>3
  <2> QED
    BY <2>1, <1>3 DEF HasResult
<1> QED
  BY <1>2, <1>3 DEF HasResult

\* Flushing a phase changes nothing; flushing a result makes it the only one, if there was none.
LEMMA SendsResult ==
    ASSUME NEW s \in Seq(Lines), NEW x \in Lines, NEW o
    PROVE  /\ x \notin Outcomes => (OnlyResult(Append(s, x), o) <=> OnlyResult(s, o))
           /\ HasResult(s) \/ x \in Outcomes => HasResult(Append(s, x))
           /\ OnlyResult(s, "none") /\ x \in Outcomes => OnlyResult(Append(s, x), x)
<1> DEFINE t == Append(s, x)
<1>1. /\ Len(s) \in Nat /\ Len(t) = Len(s) + 1 /\ t[Len(s) + 1] = x /\ Len(s) + 1 \in 1..Len(t)
      /\ \A i \in 1..Len(s) : t[i] = s[i] /\ i \in 1..Len(t)
      /\ \A i \in 1..Len(t) : i \in 1..Len(s) \/ i = Len(s) + 1
  OBVIOUS
<1> HIDE DEF t
<1>2. x \notin Outcomes => (OnlyResult(t, o) <=> OnlyResult(s, o))
  BY <1>1 DEF OnlyResult
<1>3. HasResult(s) \/ x \in Outcomes => HasResult(t)
  BY <1>1 DEF HasResult
<1>4. OnlyResult(s, "none") /\ x \in Outcomes => OnlyResult(t, x)
  BY <1>1 DEF OnlyResult, Outcomes
<1> QED
  BY <1>2, <1>3, <1>4 DEF t

LEMMA ResultInit == Init => ResultInv
<1> SUFFICES ASSUME Init PROVE ResultInv
  OBVIOUS
<1>1. OneTurn
  BY DEF Init, OneTurn, Running
<1>2. \A c \in Calls : OnlyResult(pipe[c], sent[c])
  BY DEF Init, OnlyResult
<1>3. ASSUME NEW c \in Calls PROVE ResultOrder(c)
  BY <1>2 DEF Init, ResultOrder
<1> QED
  BY <1>1, <1>3 DEF ResultInv

\* What the invariant says of a call depends on that call's own state.
LEMMA ResultFrame ==
    ASSUME NEW d \in Calls, ResultOrder(d), pc'[d] = pc[d] \/ pc'[d] = "done" \/ pc[d] # "done",
           answer'[d] = answer[d], report'[d] = report[d], sent'[d] = sent[d],
           wpc'[d] = wpc[d] \/ wpc'[d] \in {"teardown", "dead"} \/ wpc[d] \notin {"teardown", "dead"},
           pipe'[d] = pipe[d]
    PROVE  ResultOrder(d)'
BY DEF ResultOrder, HasResult, OnlyResult

LEMMA ResultOtherCalls ==
    ASSUME IInv, ResultInv, NEW c \in Calls, ClientStep(c) \/ SupervisorStep(c) \/ WorkerStep(c),
           NEW d \in Calls, d # c
    PROVE  ResultOrder(d)'
<1> DEFINE Same == /\ pc'[d] = pc[d] /\ answer'[d] = answer[d] /\ report'[d] = report[d]
                   /\ wpc'[d] = wpc[d] /\ pipe'[d] = pipe[d] /\ sent'[d] = sent[d]
<1> USE DEF IInv, TypeOK, serverVars, workerVars, supervisorVars
<1>1. CASE ClientStep(c)
  <2>1. Same
    BY <1>1 DEF ClientStep, Call, Cancel
  <2> QED
    BY <2>1, ResultFrame DEF ResultInv
<1>2. CASE SupervisorStep(c)
  <2>1. Same
    BY <1>2 DEF SupervisorStep, TakeTurn, SpawnFails, CancelledBeforeStart, ReadLine, EndOfInput,
         ChannelError, DeadlineFires, CancelSeen, DrainReadyLine, CancelDecided, WorkerLeft,
         GraceExpires, Kill, Reaped, ReapExpires, Reap, DrainLine, Drained, Absorb, Stop, Finish
  <2> QED
    BY <2>1, ResultFrame DEF ResultInv
<1>3. CASE WorkerStep(c)
  <2>1. Same
    BY <1>3 DEF WorkerStep, WConnect, WBusy, WRefuse, WAnswer, WPrepare, WAnnounce,
         WCannotAnnounce, WWrite, WReadBack, WReport, WBlock, WUnblock, WExit, WCrash, WKilled,
         Send, SendResult, Goto, Ends
  <2> QED
    BY <2>1, ResultFrame DEF ResultInv
<1> QED
  BY <1>1, <1>2, <1>3

\* A line read that is a result becomes the answer.
LEMMA AbsorbResult ==
    ASSUME IInv, NEW c \in Calls, ResultOrder(c), Absorb(c), wpc' = wpc, sent' = sent,
           pc'[c] # "done", pc[c] # "done", report' = report
    PROVE  ResultOrder(c)'
<1> DEFINE s == pipe[c]
<1>1. s \in Seq(Lines) /\ s # <<>> /\ OnlyResult(s, sent[c])
  BY DEF IInv, TypeOK, Absorb, ResultOrder
<1>2. /\ pipe'[c] = Tail(s)
      /\ answer'[c] = IF Head(s) \in Outcomes THEN Head(s) ELSE answer[c]
  BY DEF Absorb, IInv, TypeOK
<1>3. /\ OnlyResult(Tail(s), sent[c])
      /\ Head(s) \in Outcomes => Head(s) = sent[c]
      /\ HasResult(s) /\ Head(s) \notin Outcomes => HasResult(Tail(s))
  BY <1>1, ReadResult
<1>4. (OnlyResult(pipe[c], sent[c])' <=> OnlyResult(Tail(s), sent[c]))
      /\ (HasResult(pipe[c])' <=> HasResult(Tail(s)))
  BY <1>2 DEF OnlyResult, HasResult
<1>5. "none" \notin Outcomes
  BY DEF Outcomes
<1> QED
  BY <1>2, <1>3, <1>4, <1>5 DEF ResultOrder

\* A report is the answer that was read, or one of the reports of a call with no result.
LEMMA FinishResult ==
    ASSUME IInv, NEW c \in Calls, ResultOrder(c), NEW x \in Reports, Finish(c, x),
           UNCHANGED workerVars,
           \/ answer[c] # "none" /\ x = answer[c]
           \/ answer[c] = "none" /\ pipe[c] = <<>> /\ pc[c] # "done"
    PROVE  ResultOrder(c)'
<1>1. report'[c] = x /\ pc'[c] = "done" /\ answer'[c] = "none"
  BY DEF IInv, TypeOK, Finish
<1>2. ~HasResult(<<>>)
  BY DEF HasResult
<1>3. OnlyResult(pipe[c], sent[c])'
  BY DEF ResultOrder, OnlyResult, workerVars
<1> QED
  BY <1>1, <1>2, <1>3 DEF ResultOrder, workerVars

LEMMA SupervisorResult ==
    ASSUME IInv, NEW c \in Calls, ResultOrder(c), SupervisorStep(c)
    PROVE  ResultOrder(c)'
<1> USE DEF serverVars, Running
<1>0. TypeOK /\ CallInv(c)
  BY DEF IInv
<1>1. CASE TakeTurn(c)
  <2>1. wpc[c] = "none" /\ sent[c] = "none"
    BY <1>1, <1>0 DEF TakeTurn, CallInv, CallOrder, ResultOrder
  <2>2. OnlyResult(pipe[c], sent[c])'
    BY <1>1 DEF TakeTurn, ResultOrder, OnlyResult
  <2> QED
    BY <1>1, <2>1, <2>2, <1>0 DEF TakeTurn, TypeOK, ResultOrder
<1>2. CASE SpawnFails(c) \/ CancelledBeforeStart(c)
  <2>1. wpc[c] = "none" /\ sent[c] = "none"
    BY <1>2, <1>0 DEF SpawnFails, CancelledBeforeStart, CallInv, CallOrder, ResultOrder
  <2>2. OnlyResult(pipe[c], sent[c])'
    BY <1>2 DEF SpawnFails, CancelledBeforeStart, ResultOrder, OnlyResult, workerVars
  <2> QED
    BY <1>2, <2>1, <2>2, <1>0
       DEF SpawnFails, CancelledBeforeStart, TypeOK, ResultOrder, workerVars
<1>3. CASE ReadLine(c)
  BY <1>3, <1>0, AbsorbResult DEF ReadLine, TypeOK
<1>4. CASE DrainReadyLine(c)
  BY <1>4, <1>0, AbsorbResult DEF DrainReadyLine, TypeOK
<1>5. CASE DrainLine(c)
  BY <1>5, <1>0, AbsorbResult DEF DrainLine, TypeOK
<1>6. CASE \/ EndOfInput(c) \/ ChannelError(c) \/ DeadlineFires(c) \/ CancelSeen(c)
           \/ CancelDecided(c) \/ GraceExpires(c) \/ Kill(c)
  BY <1>6, ResultFrame DEF EndOfInput, ChannelError, DeadlineFires, CancelSeen, CancelDecided,
     GraceExpires, Kill, Stop, workerVars
<1>7. CASE WorkerLeft(c)
  BY <1>7, <1>0, FinishResult DEF WorkerLeft, CallInv, CallOrder, TypeOK, Reports
<1>8. CASE Reap(c)
  <2>1. CASE answer[c] # "none"
    BY <1>8, <2>1, <1>0, FinishResult DEF Reap, TypeOK, Reports
  <2>2. CASE answer[c] = "none"
    BY <1>8, <2>2, ResultFrame DEF Reap, workerVars
  <2> QED
    BY <2>1, <2>2
<1>9. CASE Drained(c)
  <2>1. NoResultReport(c) \in Reports
    BY DEF NoResultReport, Reports
  <2> QED
    BY <1>9, <2>1, <1>0, FinishResult DEF Drained, TypeOK, Reports
<1> QED
  BY <1>1, <1>2, <1>3, <1>4, <1>5, <1>6, <1>7, <1>8, <1>9
     DEF SupervisorStep, Reaped, ReapExpires

LEMMA WorkerResult ==
    ASSUME IInv, NEW c \in Calls, ResultOrder(c), WorkerStep(c)
    PROVE  ResultOrder(c)'
<1> USE DEF serverVars
<1>0. /\ TypeOK /\ CallInv(c)
      /\ UNCHANGED <<pc, report, answer>>
  BY DEF IInv, WorkerStep, WConnect, WBusy, WRefuse, WAnswer, WPrepare, WAnnounce, WCannotAnnounce,
     WWrite, WReadBack, WReport, WBlock, WUnblock, WExit, WCrash, WKilled, supervisorVars
\* A worker that has not sent its result flushes a phase.
<1>p. ASSUME NEW x \in Phases, Send(c, x), sent' = sent, wpc[c] \notin {"teardown", "dead"}
      PROVE  ResultOrder(c)'
  <2>1. sent[c] = "none" /\ x \in Lines /\ x \notin Outcomes /\ pipe[c] \in Seq(Lines)
    BY <1>p, <1>0 DEF ResultOrder, TypeOK, Lines, Phases, EarlyPhases, WritePhases, Outcomes
  <2>2. pipe'[c] = pipe[c] \/ pipe'[c] = Append(pipe[c], x)
    BY <1>p, <1>0 DEF Send, TypeOK
  <2>3. OnlyResult(pipe'[c], sent[c])
    <3>1. OnlyResult(Append(pipe[c], x), sent[c]) <=> OnlyResult(pipe[c], sent[c])
      BY <2>1, SendsResult
    <3> QED
      BY <2>2, <3>1 DEF ResultOrder
  <2> QED
    BY <2>1, <2>3, <1>0, <1>p DEF ResultOrder
\* ... or its result.
<1>r. ASSUME NEW o \in Outcomes, SendResult(c, o), wpc[c] \notin {"teardown", "dead"}
      PROVE  ResultOrder(c)'
  <2>1. /\ sent[c] = "none" /\ o \in Lines /\ pipe[c] \in Seq(Lines) /\ wpc'[c] = "teardown"
        /\ answer[c] = "none"
    BY <1>r, <1>0 DEF ResultOrder, TypeOK, Lines, SendResult, Outcomes
  <2>2. CASE Readable(c)
    <3>1. sent'[c] = o /\ pipe'[c] = Append(pipe[c], o) /\ pc[c] # "done"
      BY <1>r, <2>2, <1>0 DEF SendResult, Send, TypeOK, Readable, Running
    <3>2. OnlyResult(pipe'[c], sent'[c]) /\ HasResult(pipe'[c])
      BY <3>1, <2>1, SendsResult DEF ResultOrder
    <3>3. report[c] = "none"
      BY <3>1, <1>0 DEF CallInv, CallOrder
    <3> QED
      BY <3>1, <3>2, <3>3, <2>1, <1>0 DEF ResultOrder
  <2>3. CASE ~Readable(c)
    <3>1. sent'[c] = "none" /\ pipe' = pipe
      BY <1>r, <2>1, <2>3, <1>0 DEF SendResult, Send, TypeOK
    <3> QED
      BY <3>1, <2>1, <1>0 DEF ResultOrder, OnlyResult
  <2> QED
    BY <2>2, <2>3
\* The process ends.
<1>e. ASSUME Ends(c), pipe' = pipe, sent' = sent
      PROVE  ResultOrder(c)'
  <2>1. wpc'[c] = "dead"
    BY <1>e, <1>0 DEF Ends, Goto, TypeOK
  <2> QED
    BY <2>1, <1>e, <1>0, ResultFrame
<1>1. CASE WConnect(c)
  BY <1>1, <1>p DEF WConnect, Phases, EarlyPhases
<1>2. CASE WBusy(c)
  BY <1>2, <1>r DEF WBusy, Outcomes
<1>3. CASE WRefuse(c)
  BY <1>3, <1>r DEF WRefuse, Outcomes
<1>4. CASE WAnswer(c)
  BY <1>4, <1>r DEF WAnswer, Outcomes
<1>5. CASE WPrepare(c)
  BY <1>5, <1>p DEF WPrepare, Phases, EarlyPhases
<1>6. CASE WAnnounce(c)
  BY <1>6, <1>p DEF WAnnounce, Phases, WritePhases
<1>7. CASE WReadBack(c)
  BY <1>7, <1>p DEF WReadBack, Phases, WritePhases
<1>8. CASE WReport(c)
  BY <1>8, <1>r DEF WReport, Outcomes
<1>9. CASE WCannotAnnounce(c) \/ WExit(c) \/ WCrash(c) \/ WKilled(c)
  BY <1>9, <1>e DEF WCannotAnnounce, WExit, WCrash, WKilled
<1>10. CASE WWrite(c) \/ WBlock(c) \/ WUnblock(c)
  BY <1>10, <1>0, ResultFrame DEF WWrite, WBlock, WUnblock
<1> QED
  BY <1>1, <1>2, <1>3, <1>4, <1>5, <1>6, <1>7, <1>8, <1>9, <1>10 DEF WorkerStep

\* Only the call that takes its turn starts to run, when no other does.
LEMMA TurnNext == IInv /\ OneTurn /\ [Next]_vars => OneTurn'
<1> SUFFICES ASSUME IInv, OneTurn, [Next]_vars PROVE OneTurn'
  OBVIOUS
<1> USE DEF IInv, TypeOK, supervisorVars, Running
<1>1. ASSUME NEW c \in Calls, TakeTurn(c) PROVE OneTurn'
  BY <1>1 DEF TakeTurn, OneTurn, Turn
<1>2. CASE \A d \in Calls : pc'[d] \in Running => pc[d] \in Running
  BY <1>2 DEF OneTurn
<1>3. ASSUME NEW c \in Calls, SupervisorStep(c), ~TakeTurn(c)
      PROVE  \A d \in Calls : pc'[d] \in Running => pc[d] \in Running
  BY <1>3 DEF SupervisorStep, SpawnFails, CancelledBeforeStart, ReadLine, EndOfInput,
     ChannelError, DeadlineFires, CancelSeen, DrainReadyLine, CancelDecided, WorkerLeft,
     GraceExpires, Kill, Reaped, ReapExpires, Reap, DrainLine, Drained, Stop, Finish
<1>4. ASSUME NEW c \in Calls, ClientStep(c)
      PROVE  \A d \in Calls : pc'[d] \in Running => pc[d] \in Running
  BY <1>4 DEF ClientStep, Call, Cancel
<1>5. ASSUME NEW c \in Calls, WorkerStep(c)
      PROVE  pc' = pc
  BY <1>5 DEF WorkerStep, WConnect, WBusy, WRefuse, WAnswer, WPrepare, WAnnounce,
     WCannotAnnounce, WWrite, WReadBack, WReport, WBlock, WUnblock, WExit, WCrash, WKilled
<1>6. ServerStep \/ OutsideTakes \/ OutsideReleases \/ UNCHANGED vars => pc' = pc
  BY DEF ServerStep, Signal, SignalExit, ClientGone, TasksDone, WaitExpires, RuntimeDrop,
     OutsideTakes, OutsideReleases, vars
<1> QED
  BY <1>1, <1>2, <1>3, <1>4, <1>5, <1>6 DEF Next

LEMMA ResultNext == IInv /\ ResultInv /\ [Next]_vars => ResultInv'
<1> SUFFICES ASSUME IInv, ResultInv, [Next]_vars PROVE ResultInv'
  OBVIOUS
<1>1. OneTurn'
  BY TurnNext DEF ResultInv
<1>2. ASSUME NEW d \in Calls PROVE ResultOrder(d)'
  <2>0. ResultOrder(d)
    BY DEF ResultInv
  <2>1. ASSUME NEW c \in Calls, ClientStep(c) \/ SupervisorStep(c) \/ WorkerStep(c)
        PROVE  ResultOrder(d)'
    <3>1. CASE c = d
      <4>1. ASSUME ClientStep(d) PROVE ResultOrder(d)'
        <5>1. UNCHANGED <<wpc, pipe, sent, answer, report>> /\ (pc'[d] = pc[d] \/ pc[d] # "done")
          BY <4>1 DEF ClientStep, Call, Cancel, workerVars
        <5> QED
          BY <5>1, <2>0, ResultFrame
      <4> QED
        BY <2>0, <2>1, <3>1, <4>1, SupervisorResult, WorkerResult
    <3>2. CASE c # d
      BY <2>1, <3>2, ResultOtherCalls
    <3> QED
      BY <3>1, <3>2
  <2>2. CASE ServerStep \/ OutsideTakes \/ OutsideReleases \/ UNCHANGED vars
    <3>1. UNCHANGED <<pc, answer, report, wpc, pipe, sent>>
      BY <2>2 DEF ServerStep, Signal, SignalExit, ClientGone, TasksDone, WaitExpires, RuntimeDrop,
         OutsideTakes, OutsideReleases, supervisorVars, workerVars, vars
    <3> QED
      BY <3>1, <2>0, ResultFrame
  <2> QED
    BY <2>1, <2>2 DEF Next
<1> QED
  BY <1>1, <1>2 DEF ResultInv

LEMMA ResultInvariant == Spec => [](IInv /\ ResultInv)
<1>1. Init => IInv /\ ResultInv
  BY InvInit, ResultInit
<1>2. IInv /\ ResultInv /\ [Next]_vars => (IInv /\ ResultInv)'
  BY InvNext, ResultNext
<1> QED
  BY <1>1, <1>2, PTL DEF Spec

-----------------------------------------------------------------------------
(* The properties. *)

\* No write is sent to the camera before `writing` was delivered.
THEOREM WritesAreAnnounced == Spec => []WriteAnnounced
<1>1. IInv => WriteAnnounced
  BY DEF IInv, CallInv, WorkerOrder, WriteAnnounced
<1> QED
  BY <1>1, Invariant, PTL

\* A client told that nothing was changed is told the truth, in every later state too.
THEOREM NotAppliedHolds == Spec => []NotAppliedIsTrue
<1>1. IInv => NotAppliedIsTrue
  <2> SUFFICES ASSUME IInv, NEW c \in Calls,
                      report[c] \in {"not_applied", "cancelled", "spawn_failed", "read_no_result"}
               PROVE  issued[c] = 0
    BY DEF NotAppliedIsTrue
  <2>1. ~Delivered(c) /\ issued[c] \in 0..MaxWrites
    BY DEF IInv, TypeOK, CallInv, CallOrder
  <2>2. ~(issued[c] > 0)
    BY <2>1 DEF IInv, CallInv, WorkerOrder
  <2> QED
    BY <2>1, <2>2, BoundsAssumption
<1> QED
  BY <1>1, Invariant, PTL

\* The in-flight slot's flag and the phase the client's status is computed from agree.
THEOREM PhasesAgree == Spec => []PhaseAgreesWithWritingSeen
<1>1. IInv => PhaseAgreesWithWritingSeen
  BY DEF IInv, CallInv, PhaseOrder, PhaseAgreesWithWritingSeen
<1> QED
  BY <1>1, Invariant, PTL

\* What a worker got into the pipe is what its client is told.
THEOREM ResultsAreHonoured == Spec => []ResultHonoured
<1>1. IInv /\ ResultInv => ResultHonoured
  BY DEF ResultInv, ResultOrder, ResultHonoured
<1> QED
  BY <1>1, ResultInvariant, PTL

\* A worker that can act belongs to the one call that runs.
THEOREM OneWorkerActs == Spec => []OneActingWorker
<1>1. IInv /\ ResultInv => OneActingWorker
  <2> SUFFICES ASSUME IInv, ResultInv, NEW c \in Calls, NEW d \in Calls,
                      wpc[c] \notin {"none", "dead"} /\ ~killed[c],
                      wpc[d] \notin {"none", "dead"} /\ ~killed[d]
               PROVE  c = d
    BY DEF OneActingWorker
  <2>1. ASSUME NEW e \in Calls, wpc[e] \notin {"none", "dead"} /\ ~killed[e]
        PROVE  pc[e] \in Running
    BY <2>1 DEF IInv, TypeOK, CallInv, CallOrder
  <2> QED
    BY <2>1 DEF ResultInv, OneTurn
<1> QED
  BY <1>1, ResultInvariant, PTL

\* A call is left for a cancellation only while no write phase of it has been seen.
THEOREM KnownWritesGoOn == Spec => KnownWritesAreNotCancelled
<1>1. IInv /\ [Next]_vars =>
        [\A c \in ApplyCalls : stop[c] = "none" /\ stop'[c] = "cancelled" => ~writingSeen'[c]]_vars
  <2> SUFFICES ASSUME IInv, Next, NEW a \in ApplyCalls, stop[a] = "none", stop'[a] = "cancelled"
               PROVE  ~writingSeen'[a]
    OBVIOUS
  <2> USE DEF IInv, TypeOK, supervisorVars
  <2>0. a \in Calls
    BY CallsAssumption
  <2>1. ASSUME NEW c \in Calls, SupervisorStep(c) PROVE ~writingSeen'[a]
    <3>1. CASE CancelDecided(c)
      BY <3>1, <2>0 DEF CancelDecided, Stop
    <3>2. CASE ~CancelDecided(c)
      <4>1. stop'[a] # "cancelled"
        BY <2>0, <2>1, <3>2 DEF SupervisorStep, TakeTurn, SpawnFails, CancelledBeforeStart, ReadLine,
           EndOfInput, ChannelError, DeadlineFires, CancelSeen, DrainReadyLine, WorkerLeft,
           GraceExpires, Kill, Reaped, ReapExpires, Reap, DrainLine, Drained, Stop, Finish
      <4> QED
        BY <4>1
    <3> QED
      BY <3>1, <3>2
  <2>2. ASSUME NEW c \in Calls, ClientStep(c) \/ WorkerStep(c) PROVE stop' = stop
    BY <2>2 DEF ClientStep, Call, Cancel, WorkerStep, WConnect, WBusy, WRefuse, WAnswer, WPrepare,
       WAnnounce, WCannotAnnounce, WWrite, WReadBack, WReport, WBlock, WUnblock, WExit, WCrash,
       WKilled
  <2>3. ServerStep \/ OutsideTakes \/ OutsideReleases => stop' = stop
    BY DEF ServerStep, Signal, SignalExit, ClientGone, TasksDone, WaitExpires, RuntimeDrop,
       OutsideTakes, OutsideReleases
  <2> QED
    BY <2>1, <2>2, <2>3 DEF Next
<1> QED
  BY <1>1, Invariant, PTL DEF Spec, KnownWritesAreNotCancelled

\* The calls implement the contract: one report each, and no write after it.
THEOREM Refinement == Spec => ImplementsContract
<1>1. Init => Contract!ContractInit
  <2> SUFFICES ASSUME Init PROVE Contract!ContractInit
    OBVIOUS
  <2>1. \A c \in Calls : (issued[c] > 0) = FALSE
    <3>1. \A c \in Calls : issued[c] = 0
      BY DEF Init
    <3>2. (0 > 0) = FALSE
      OBVIOUS
    <3> QED
      BY <3>1, <3>2, Zenon
  <2>2. [c \in Calls |-> issued[c] > 0] = [c \in Calls |-> FALSE]
    BY <2>1, Zenon
  <2>3. report = [c \in Calls |-> "none"]
    BY DEF Init
  <2> QED
    BY <2>2, <2>3 DEF Contract!ContractInit
<1>2. IInv /\ [Next]_vars => [Contract!ContractNext]_(Contract!cvars)
  <2> SUFFICES ASSUME IInv, [Next]_vars
               PROVE  [Contract!ContractNext]_(Contract!cvars)
    OBVIOUS
  <2> USE DEF Contract!cvars
  <2>0. /\ report \in [Calls -> Reports \cup {"none"}] /\ issued \in [Calls -> 0..MaxWrites]
        /\ report' \in [Calls -> Reports \cup {"none"}]
    BY InvNext DEF IInv, TypeOK
  <2>1. ASSUME NEW c \in Calls, report[c] = "none", issued' = issued,
               NEW r, report' = [report EXCEPT ![c] = r]
        PROVE  [Contract!ContractNext]_(Contract!cvars)
    <3>1. CASE r = "none"
      <4>1. report' = report
        BY <2>1, <3>1, <2>0
      <4> QED
        BY <4>1, <2>1
    <3>2. CASE r # "none"
      <4>1. r \in Reports /\ r = report'[c]
        BY <3>2, <2>1, <2>0
      <4>2. r \in Contract!Untouched => ~(issued[c] > 0)
        <5>1. r \in Contract!Untouched => ~Delivered(c)'
          BY <4>1, InvNext DEF IInv, CallInv, CallOrder, Contract!Untouched
        <5>2. ~Delivered(c)' => ~(issued'[c] > 0)
          BY InvNext DEF IInv, CallInv, WorkerOrder
        <5> QED
          BY <5>1, <5>2, <2>1
      <4>3. r \in Contract!Untouched \cup Contract!Open
        BY <4>1 DEF Reports, Outcomes, Contract!Untouched, Contract!Open
      <4> QED
        BY <4>2, <4>3, <2>1 DEF Contract!ContractNext, Contract!Settle
    <3> QED
      BY <3>1, <3>2
  <2>2. ASSUME NEW c \in Calls, SupervisorStep(c)
        PROVE  [Contract!ContractNext]_(Contract!cvars)
    <3>1. issued' = issued
      BY <2>2 DEF SupervisorStep, TakeTurn, SpawnFails, CancelledBeforeStart, ReadLine, EndOfInput,
         ChannelError, DeadlineFires, CancelSeen, DrainReadyLine, CancelDecided, WorkerLeft,
         GraceExpires, Kill, Reaped, ReapExpires, Reap, DrainLine, Drained, workerVars
    <3>2. report' = report \/ (pc[c] # "done" /\ \E r : report' = [report EXCEPT ![c] = r])
      BY <2>2 DEF SupervisorStep, TakeTurn, SpawnFails, CancelledBeforeStart, ReadLine, EndOfInput,
         ChannelError, DeadlineFires, CancelSeen, DrainReadyLine, CancelDecided, WorkerLeft,
         GraceExpires, Kill, Reaped, ReapExpires, Reap, DrainLine, Drained, Finish
    <3>3. pc[c] # "done" => report[c] = "none"
      BY DEF IInv, CallInv, CallOrder
    <3> QED
      BY <3>1, <3>2, <3>3, <2>1
  <2>3. ASSUME NEW c \in Calls, WorkerStep(c)
        PROVE  [Contract!ContractNext]_(Contract!cvars)
    <3>1. report' = report
      BY <2>3 DEF WorkerStep, WConnect, WBusy, WRefuse, WAnswer, WPrepare, WAnnounce,
         WCannotAnnounce, WWrite, WReadBack, WReport, WBlock, WUnblock, WExit, WCrash, WKilled,
         supervisorVars
    <3>2. CASE WWrite(c)
      <4>1. c \in ApplyCalls /\ report[c] = "none"
        BY <3>2 DEF WWrite, Runs, IInv, CallInv, CallOrder, WorkerOrder, WritePhases
      <4>2. [d \in Calls |-> issued[d] > 0]' = [[d \in Calls |-> issued[d] > 0] EXCEPT ![c] = TRUE]
        <5>1. issued' = [issued EXCEPT ![c] = issued[c] + 1] /\ issued'[c] = issued[c] + 1
          BY <3>2, <2>0 DEF WWrite
        <5>2. (issued'[c] > 0) = TRUE
          BY <5>1, <2>0, BoundsAssumption
        <5>3. \A d \in Calls : d # c => issued'[d] = issued[d]
          BY <5>1, <2>0
        <5> QED
          BY <5>2, <5>3, Zenon
      <4> QED
        BY <3>1, <4>1, <4>2 DEF Contract!ContractNext, Contract!Touch
    <3>3. CASE issued' = issued
      BY <3>1, <3>3
    <3> QED
      BY <2>3, <3>2, <3>3 DEF WorkerStep, WConnect, WBusy, WRefuse, WAnswer, WPrepare, WAnnounce,
         WCannotAnnounce, WReadBack, WReport, WBlock, WUnblock, WExit, WCrash, WKilled
  <2>4. CASE UNCHANGED <<issued, report>>
    BY <2>4
  <2>5. ASSUME NEW c \in Calls, ClientStep(c)
        PROVE  UNCHANGED <<issued, report>>
    BY <2>5 DEF ClientStep, Call, Cancel, workerVars
  <2>6. ServerStep => UNCHANGED <<issued, report>>
    BY DEF ServerStep, Signal, SignalExit, ClientGone, TasksDone, WaitExpires, RuntimeDrop,
       supervisorVars, workerVars
  <2>7. OutsideTakes \/ OutsideReleases => UNCHANGED <<issued, report>>
    BY DEF OutsideTakes, OutsideReleases, supervisorVars
  <2> QED
    BY <2>2, <2>3, <2>4, <2>5, <2>6, <2>7 DEF Next, vars
<1> QED
  BY <1>1, <1>2, Invariant, PTL DEF Spec, ImplementsContract, Contract!ContractSpec
=============================================================================
