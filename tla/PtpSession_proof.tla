-------------------------- MODULE PtpSession_proof --------------------------
(***************************************************************************)
(* Proofs about PtpSession: a session that nothing was outstanding for is   *)
(* in step until it is poisoned, and a poisoned session sends nothing; one  *)
(* that opens anew after its CloseSession failed lags by one answer, and    *)
(* every operation of it notices.                                          *)
(***************************************************************************)
EXTENDS PtpSession, SequenceTheorems, TLAPS

---------------------------------------------------------------------------
(* The invariant.                                                          *)

\* What a session that is in step has under way: nothing between transactions, one unfinished
\* command in a data phase, and then one command or its answer.
AtRest == wire = <<>> /\ pipe = <<>>
InData == pipe = <<>> /\ Len(wire) = 1 /\ wire[1].age = "txn" /\ wire[1].step = Step /\ ~wire[1].whole
Asked == pipe = <<>> /\ Len(wire) = 1 /\ wire[1].age = "txn" /\ wire[1].step = Step
Answered ==
    /\ wire = <<>>
    /\ \/ /\ Len(pipe) = 2 /\ pipe[1].kind = "data" /\ pipe[1].age = "txn"
          /\ pipe[2].kind = "response" /\ pipe[2].age = "txn" /\ ~Changes(Step)
       \/ /\ Len(pipe) = 1 /\ pipe[1].kind = "response" /\ pipe[1].age = "txn"
          /\ Changes(Step) => (pipe[1].code = "ok") = acted

InStep ==
    clean /\ sess /\ ~poisoned =>
        /\ phase = "rest" => AtRest
        /\ phase = "data" => InData
        /\ phase = "reply" => Asked \/ Answered

\* A transaction runs in a session that is not poisoned.
RunsInSession == /\ job # "none" => sess
                 /\ phase # "rest" => ~poisoned /\ job # "none"
                 /\ phase = "data" => HasData(Step)
                 /\ job # "none" => report = NoReport

\* What the write of an operation has done at each step of it.
WriteInOrder ==
    clean /\ job # "none" =>
        /\ at < WriteAt[job] \/ job \notin Operations => ~acted /\ ~Pending
        /\ at = WriteAt[job] /\ phase # "reply" => ~acted /\ ~Pending
        /\ at = WriteAt[job] /\ phase = "reply" /\ pipe = <<>> => ~acted
        /\ at > WriteAt[job] => acted

IInv ==
    /\ TypeOK /\ AnswersAreOwn /\ InStep /\ RunsInSession /\ WriteInOrder
    /\ FailedMeansUnchanged /\ OkMeansActed

\* How far a session that nothing was outstanding for, and that nothing went wrong in, has come
\* with opening itself: the body has answered OpenSession, then CloseSession, and has no session
\* open when it is asked again.
OpenInOrder ==
    /\ poisoned => trouble
    /\ fresh /\ ~trouble /\ job = "open" =>
        /\ clean
        /\ at = 1 /\ phase = "reply" /\ pipe # <<>> =>
              pipe[1].kind = "response" /\ pipe[1].code \in {"ok", "already"}
        /\ at = 2 /\ phase = "reply" /\ pipe # <<>> => ~bodyOpen
        /\ at = 3 /\ pipe = <<>> => ~bodyOpen
        /\ at = 3 /\ pipe # <<>> => pipe[1].kind = "response" /\ pipe[1].code = "ok"

OpenInv == OpenInOrder /\ OpenFailsForCause

---------------------------------------------------------------------------
(* Sequences of commands and containers.                                   *)

\* What the end of a transaction may change of the control.
ControlOK ==
    /\ sess \in BOOLEAN /\ isOpen \in BOOLEAN /\ clean \in BOOLEAN
    /\ txid \in 0..MaxId
    /\ job \in Jobs \cup {"none"} /\ at \in 1..7
    /\ job # "none" => at <= Len(Script[job])
    /\ report \in Reports

PendingIn(s) == \E i \in 1..Len(s) : s[i].age # "past" /\ Changes(s[i].step) /\ s[i].whole

\* Ageing keeps a sequence what it is, and no less of it is pending than was.
LEMMA Ageing ==
    ASSUME NEW s \in Seq(Commands)
    PROVE  /\ OlderCommands(s) \in Seq(Commands)
           /\ PastCommands(s) \in Seq(Commands)
           /\ s = <<>> => OlderCommands(s) = <<>>
           /\ PendingIn(OlderCommands(s)) => PendingIn(s)
           /\ ~PendingIn(PastCommands(s))
<1>1. s \in [1..Len(s) -> Commands] /\ Len(s) \in Nat
  BY LenProperties
<1>2. \A i \in 1..Len(s) : Aged(s[i], Older(s[i].age)) \in Commands /\ Aged(s[i], "past") \in Commands
  BY <1>1 DEF Aged, Older, Commands, Ages
<1>3. OlderCommands(s) \in [1..Len(s) -> Commands] /\ PastCommands(s) \in [1..Len(s) -> Commands]
  BY <1>2 DEF OlderCommands, PastCommands
<1>4. OlderCommands(s) \in Seq(Commands) /\ PastCommands(s) \in Seq(Commands)
  BY <1>1, <1>3, IsASeq
<1>5. Len(OlderCommands(s)) = Len(s) /\ Len(PastCommands(s)) = Len(s)
  BY <1>1, <1>3, <1>4, LenProperties
<1>6. s = <<>> => OlderCommands(s) = <<>>
  BY <1>4, <1>5, EmptySeq
<1>7. PendingIn(OlderCommands(s)) => PendingIn(s)
  BY <1>1, <1>5 DEF PendingIn, OlderCommands, Aged, Older
<1>8. ~PendingIn(PastCommands(s))
  BY <1>1, <1>5 DEF PendingIn, PastCommands, Aged
<1> QED
  BY <1>4, <1>6, <1>7, <1>8

LEMMA AgeingContainers ==
    ASSUME NEW s \in Seq(Containers)
    PROVE  /\ PastContainers(s) \in Seq(Containers)
           /\ s = <<>> => PastContainers(s) = <<>>
<1>1. s \in [1..Len(s) -> Containers] /\ Len(s) \in Nat
  BY LenProperties
<1>2. \A i \in 1..Len(s) : Container(s[i], "past") \in Containers
  BY <1>1 DEF Container, Containers, Ages
<1>3. PastContainers(s) \in [1..Len(s) -> Containers]
  BY <1>2 DEF PastContainers
<1>4. PastContainers(s) \in Seq(Containers)
  BY <1>1, <1>3, IsASeq
<1>5. Len(PastContainers(s)) = Len(s)
  BY <1>1, <1>3, <1>4, LenProperties
<1>6. s = <<>> => PastContainers(s) = <<>>
  BY <1>4, <1>5, EmptySeq
<1> QED
  BY <1>4, <1>6

\* What a command that is sent, completed or acted on does to what is pending.
LEMMA PendingMoves ==
    ASSUME NEW s \in Seq(Commands), NEW c \in Commands
    PROVE  /\ PendingIn(Append(s, c)) => PendingIn(s) \/ (Changes(c.step) /\ c.whole)
           /\ s # <<>> => /\ Completed(s) \in Seq(Commands)
                          /\ Len(Completed(s)) = Len(s)
                          /\ Completed(s)[Len(s)].step = s[Len(s)].step
                          /\ Completed(s)[Len(s)].age = "txn"
                          /\ PendingIn(Completed(s)) => PendingIn(s) \/ Changes(s[Len(s)].step)
           /\ Completed(s) \in Seq(Commands)
           /\ s # <<>> => Tail(s) \in Seq(Commands) /\ (PendingIn(Tail(s)) => PendingIn(s))
           /\ ~PendingIn(<<>>)
<1>1. s \in [1..Len(s) -> Commands] /\ Len(s) \in Nat
  BY LenProperties
<1>2. PendingIn(Append(s, c)) => PendingIn(s) \/ (Changes(c.step) /\ c.whole)
  BY <1>1, AppendProperties DEF PendingIn
<1>3. ASSUME s # <<>>
      PROVE  /\ Completed(s) \in Seq(Commands)
             /\ Len(Completed(s)) = Len(s)
             /\ Completed(s)[Len(s)].step = s[Len(s)].step
             /\ Completed(s)[Len(s)].age = "txn"
             /\ PendingIn(Completed(s)) => PendingIn(s) \/ Changes(s[Len(s)].step)
  <2>1. Len(s) \in 1..Len(s) /\ s[Len(s)] \in Commands
    BY <1>1, <1>3, EmptySeq
  <2> DEFINE last == [step |-> s[Len(s)].step, id |-> s[Len(s)].id, whole |-> TRUE, age |-> "txn"]
  <2>2. last \in Commands
    BY <2>1 DEF Commands, Ages
  <2>3. Completed(s) \in [1..Len(s) -> Commands]
    BY <1>1, <2>1, <2>2 DEF Completed
  <2>4. Completed(s) \in Seq(Commands)
    BY <1>1, <2>3, IsASeq
  <2>5. Len(Completed(s)) = Len(s)
    BY <1>1, <2>3, <2>4, LenProperties
  <2>6. Completed(s)[Len(s)].step = s[Len(s)].step /\ Completed(s)[Len(s)].age = "txn"
    BY <1>1, <2>1 DEF Completed
  <2>7. \A i \in 1..Len(s) : i # Len(s) => Completed(s)[i] = s[i]
    BY <1>1, <2>1 DEF Completed
  <2>8. PendingIn(Completed(s)) => PendingIn(s) \/ Changes(s[Len(s)].step)
    BY <2>5, <2>6, <2>7 DEF PendingIn
  <2> QED
    BY <2>4, <2>5, <2>6, <2>8
<1>4. s # <<>> => Tail(s) \in Seq(Commands) /\ (PendingIn(Tail(s)) => PendingIn(s))
  <2>1. SUFFICES ASSUME s # <<>>, PendingIn(Tail(s)) PROVE PendingIn(s)
    BY HeadTailProperties
  <2>2. PICK i \in 1..Len(Tail(s)) : Tail(s)[i].age # "past" /\ Changes(Tail(s)[i].step) /\ Tail(s)[i].whole
    BY <2>1 DEF PendingIn
  <2>3. i + 1 \in 1..Len(s) /\ Tail(s)[i] = s[i + 1]
    BY <2>1, <1>1, HeadTailProperties
  <2> QED
    BY <2>2, <2>3 DEF PendingIn
<1>5. ~PendingIn(<<>>)
  BY DEF PendingIn
<1>6. s = <<>> => Completed(s) \in Seq(Commands)
  <2>1. SUFFICES ASSUME s = <<>> PROVE Completed(s) \in [1..0 -> Commands]
    BY IsASeq
  <2>2. s \in [1..0 -> Commands] /\ 1..0 = {} /\ Len(s) = 0
    BY <1>1, <2>1, EmptySeq
  <2>3. s \in [{} -> Commands]
    BY <2>2
  <2>4. Completed(s) \in [{} -> Commands]
    BY <2>3 DEF Completed
  <2> QED
    BY <2>2, <2>4
<1> QED
  BY <1>2, <1>3, <1>4, <1>5, <1>6

---------------------------------------------------------------------------
(* The operations.                                                         *)

\* The one step that changes the camera is where WriteAt says, and no operation but a read ends before it.
LEMMA ScriptFacts ==
    ASSUME TypeOK, job # "none"
    PROVE  /\ Step \in Steps
           /\ Len(Script[job]) \in 1..7
           /\ WriteAt[job] \in 1..9
           /\ job \in Operations => (Changes(Step) <=> at = WriteAt[job])
           /\ job \notin Operations => ~Changes(Step)
           /\ job \in Operations /\ at = Len(Script[job]) => job = "get" \/ at >= WriteAt[job]
           /\ Changes(Step) => ~NeedsData(Step)
<1>1. job \in Jobs /\ at \in 1..7 /\ at <= Len(Script[job])
  BY DEF TypeOK
<1>2. at = 1 \/ at = 2 \/ at = 3 \/ at = 4 \/ at = 5 \/ at = 6 \/ at = 7
  BY <1>1
<1> USE <1>1, <1>2 DEF Step, Steps, Script, OpenScript, DropScript, GetScript, SetScript, IptcScript, PlanScript,
            SendScript, VerifyScript, DeleteScript, WriteAt, Operations, Changes, NeedsData
<1>3. CASE job = "open"
  BY <1>3
<1>4. CASE job = "drop"
  BY <1>4
<1>5. CASE job = "get"
  BY <1>5
<1>6. CASE job = "set"
  BY <1>6
<1>7. CASE job = "iptc"
  BY <1>7
<1>8. CASE job = "ftp"
  BY <1>8
<1>9. CASE job = "ftp_plain"
  BY <1>9
<1>10. CASE job = "delete"
  BY <1>10
<1> QED
  BY <1>3, <1>4, <1>5, <1>6, <1>7, <1>8, <1>9, <1>10 DEF Jobs

---------------------------------------------------------------------------
(* The end of a transaction.                                               *)

SafetyParts == InStep /\ RunsInSession /\ WriteInOrder /\ FailedMeansUnchanged /\ OkMeansActed /\ AnswersAreOwn

LEMMA IdsWrap ==
    ASSUME TypeOK
    PROVE  NextId(txid) \in 0..MaxId
BY SessionAssumption DEF TypeOK, NextId

\* A job that ends with `what'.
LEMMA Ending ==
    ASSUME TypeOK, RunsInSession, job # "none",
           NEW what \in {"ok", "failed", "unsure"}, EndJob(what),
           txid' \in 0..MaxId,
           phase' = "rest", acted' = acted, clean => ~foreign',
           clean /\ ~poisoned' => AtRest',
           clean /\ what = "failed" => ~acted /\ ~PendingIn(wire'),
           clean /\ what = "ok" /\ job \in Operations \ {"get"} => acted
    PROVE  ControlOK' /\ SafetyParts'
<1> USE DEF EndJob
<1>1. ControlOK'
  BY DEF TypeOK, ControlOK, Reports
<1>2. RunsInSession'
  BY DEF RunsInSession
<1>3. InStep' /\ WriteInOrder'
  BY DEF InStep, AtRest, WriteInOrder
<1>4. FailedMeansUnchanged'
  BY DEF FailedMeansUnchanged, Pending, PendingIn
<1>5. OkMeansActed'
  BY DEF OkMeansActed
<1>6. AnswersAreOwn'
  BY DEF AnswersAreOwn
<1> QED
  BY <1>1, <1>2, <1>3, <1>4, <1>5, <1>6 DEF SafetyParts

\* OpenSession goes on to its step n.
LEMMA Reopening ==
    ASSUME TypeOK, RunsInSession, WriteInOrder, AnswersAreOwn, job = "open",
           NEW n \in 2..3, Reopen(n), clean' \in BOOLEAN, clean' => clean,
           phase' = "rest", acted' = acted, clean => ~foreign',
           clean' => AtRest'
    PROVE  ControlOK' /\ SafetyParts'
<1> USE DEF Reopen
<1>1. Len(Script["open"]) = 3
  BY DEF Script, OpenScript
<1>2. ControlOK'
  BY <1>1, SessionAssumption DEF TypeOK, ControlOK
<1>3. RunsInSession'
  BY DEF RunsInSession, NoReport
<1>4. clean => ~acted
  BY DEF WriteInOrder, Operations
<1>5. InStep'
  BY DEF InStep
<1>6. clean' => ~Pending'
  BY DEF AtRest, Pending
<1>7. WriteInOrder'
  BY <1>4, <1>6 DEF WriteInOrder, Operations, WriteAt
<1>8. FailedMeansUnchanged' /\ OkMeansActed'
  BY DEF FailedMeansUnchanged, OkMeansActed, RunsInSession, NoReport
<1>9. AnswersAreOwn'
  BY DEF AnswersAreOwn
<1> QED
  BY <1>2, <1>3, <1>5, <1>7, <1>8, <1>9 DEF SafetyParts

\* A transaction that ends with an error.  What is known of a write then: nothing of it is pending
\* when the step is before the write, or is the write and has surely not been handed over.
LEMMA Failing ==
    ASSUME TypeOK, RunsInSession, WriteInOrder, AnswersAreOwn, job # "none",
           NEW sure \in BOOLEAN, NEW next \in 0..MaxId, StepFails(sure, next),
           phase' = "rest", acted' = acted, clean => ~foreign',
           clean /\ ~(job = "open" /\ at = 2) /\ ~poisoned' => AtRest',
           clean /\ (at < WriteAt[job] \/ job \notin Operations \/ (at = WriteAt[job] /\ sure)) => ~PendingIn(wire'),
           clean /\ at = WriteAt[job] /\ sure => ~acted
    PROVE  ControlOK' /\ SafetyParts'
<1>1. clean => ~foreign'
  OBVIOUS
<1>2. WriteAt[job] \in 1..9 /\ at \in 1..7
  BY ScriptFacts DEF TypeOK
<1>3. CASE job = "open" /\ at = 2
  <2>1. Reopen(3) /\ clean' = (clean /\ wire' = <<>> /\ pipe' = <<>>)
    BY <1>3 DEF StepFails, Operations
  <2>2. clean' \in BOOLEAN /\ (clean' => clean) /\ (clean' => AtRest')
    BY <2>1 DEF AtRest
  <2> QED
    BY <1>1, <1>3, <2>1, <2>2, Reopening
<1>4. CASE job = "open" /\ at # 2
  <2>1. EndJob("failed") /\ txid' = next
    BY <1>4 DEF StepFails, Operations
  <2>2. clean => ~acted /\ ~PendingIn(wire')
    BY <1>4 DEF WriteInOrder, Operations
  <2> QED
    BY <1>1, <1>4, <2>1, <2>2, Ending DEF Operations
<1>5. CASE job = "drop"
  <2>1. EndJob("ok") /\ txid' = next
    BY <1>5 DEF StepFails, Operations
  <2> QED
    BY <1>1, <1>5, <2>1, Ending DEF Operations
<1>6. CASE job \in Operations
  <2>1. EndJob(FailedOutcome(sure)) /\ txid' = next
    BY <1>6 DEF StepFails, Operations
  <2>2. FailedOutcome(sure) \in {"ok", "failed", "unsure"}
    BY DEF FailedOutcome
  <2>3. clean /\ FailedOutcome(sure) = "failed" => ~acted /\ ~PendingIn(wire')
    BY <1>2, <1>6 DEF FailedOutcome, WriteInOrder
  <2>4. clean /\ FailedOutcome(sure) = "ok" => acted
    BY <1>2, <1>6 DEF FailedOutcome, WriteInOrder
  <2>5. ~(job = "open" /\ at = 2)
    BY <1>6 DEF Operations
  <2> QED
    BY <1>1, <2>1, <2>2, <2>3, <2>4, <2>5, Ending
<1> QED
  BY <1>3, <1>4, <1>5, <1>6 DEF TypeOK, Jobs

LEMMA Poisoning ==
    ASSUME NEW w \in Seq(Commands), NEW p \in Seq(Containers), Poisons(w, p)
    PROVE  /\ wire' \in Seq(Commands) /\ pipe' \in Seq(Containers) /\ poisoned' \in BOOLEAN
           /\ PendingIn(wire') => PendingIn(w)
           /\ ~(job = "open" /\ at = 2) => poisoned'
<1>1. wire' = OlderCommands(w) \/ wire' = <<>>
  BY DEF Poisons
<1>2. pipe' = PastContainers(p) \/ pipe' = <<>>
  BY DEF Poisons
<1>3. <<>> \in Seq(Commands) /\ <<>> \in Seq(Containers) /\ ~PendingIn(<<>>)
  BY DEF PendingIn
<1>4. poisoned' \in BOOLEAN /\ (~(job = "open" /\ at = 2) => poisoned')
  BY DEF Poisons
<1> QED
  BY <1>1, <1>2, <1>3, <1>4, Ageing, AgeingContainers

---------------------------------------------------------------------------
(* The steps.                                                              *)

\* What a step does to the other variables' types.
RestOK ==
    /\ poisoned \in BOOLEAN /\ cur \in 0..MaxId
    /\ phase \in {"rest", "data", "reply"}
    /\ phase # "rest" => job # "none"
    /\ started \in BOOLEAN /\ data \in BOOLEAN /\ matched \in BOOLEAN
    /\ wire \in Seq(Commands) /\ pipe \in Seq(Containers)
    /\ bodyOpen \in BOOLEAN
    /\ acted \in BOOLEAN /\ foreign \in BOOLEAN
    /\ fresh \in BOOLEAN /\ trouble \in BOOLEAN
    /\ sessions \in 0..MaxSessions /\ ops \in 0..MaxOps /\ faults \in 0..MaxFaults

LEMMA Parts == /\ TypeOK <=> ControlOK /\ RestOK
               /\ IInv <=> TypeOK /\ SafetyParts
<1>1. TypeOK <=> ControlOK /\ RestOK
  BY DEF TypeOK, ControlOK, RestOK
<1>2. IInv <=> TypeOK /\ SafetyParts
  BY DEF IInv, SafetyParts
<1> QED
  BY <1>1, <1>2

LEMMA PartsNext == ControlOK' /\ RestOK' /\ SafetyParts' => IInv'
<1>1. ControlOK' /\ RestOK' => TypeOK'
  BY DEF TypeOK, ControlOK, RestOK
<1>2. TypeOK' /\ SafetyParts' => IInv'
  BY DEF IInv, SafetyParts
<1> QED
  BY <1>1, <1>2

LEMMA CommandType ==
    ASSUME TypeOK, job # "none"
    PROVE  Command \in Commands /\ Command.step = Step /\ Command.age = "txn" /\ Command.whole = ~HasData(Step)
<1>1. Step \in Steps
  BY ScriptFacts
<1>2. HasData(Step) \in BOOLEAN
  BY DEF HasData
<1> QED
  BY <1>1, <1>2 DEF Command, Commands, Ages, TypeOK

LEMMA InitHolds == Init => IInv
<1> SUFFICES ASSUME Init PROVE IInv
  OBVIOUS
<1>1. TypeOK
  <2>1. report \in Reports
    BY DEF Init, Reports, NoReport
  <2>2. wire \in Seq(Commands) /\ pipe \in Seq(Containers)
    BY DEF Init
  <2>3. /\ sess \in BOOLEAN /\ isOpen \in BOOLEAN /\ clean \in BOOLEAN /\ poisoned \in BOOLEAN
        /\ started \in BOOLEAN /\ data \in BOOLEAN /\ matched \in BOOLEAN /\ bodyOpen \in BOOLEAN
        /\ acted \in BOOLEAN /\ foreign \in BOOLEAN /\ fresh \in BOOLEAN /\ trouble \in BOOLEAN
    BY Zenon DEF Init
  <2>4. /\ txid \in 0..MaxId /\ cur \in 0..MaxId /\ at \in 1..7
        /\ sessions \in 0..MaxSessions /\ ops \in 0..MaxOps /\ faults \in 0..MaxFaults
    BY SessionAssumption DEF Init
  <2>5. job = "none" /\ phase = "rest"
    BY DEF Init
  <2>6. ControlOK
    BY <2>1, <2>3, <2>4, <2>5 DEF ControlOK
  <2>7. RestOK
    BY <2>2, <2>3, <2>4, <2>5 DEF RestOK
  <2> QED
    BY <2>6, <2>7, Parts
<1>2. SafetyParts
  BY DEF Init, SafetyParts, InStep, RunsInSession, WriteInOrder, FailedMeansUnchanged, OkMeansActed,
         AnswersAreOwn, NoReport
<1> QED
  BY <1>1, <1>2, Parts

LEMMA BeginSessionStep == IInv /\ BeginSession => IInv'
<1> SUFFICES ASSUME IInv, BeginSession PROVE IInv'
  OBVIOUS
<1> USE DEF BeginSession
<1>0. TypeOK
  BY Parts
<1>1. wire' \in Seq(Commands) /\ pipe' \in Seq(Containers) /\ ~PendingIn(wire')
  <2>1. wire \in Seq(Commands) /\ pipe \in Seq(Containers)
    BY <1>0 DEF TypeOK
  <2>2. wire' = PastCommands(wire) \/ wire' = <<>>
    OBVIOUS
  <2>3. pipe' = PastContainers(pipe) \/ pipe' = <<>>
    OBVIOUS
  <2>4. <<>> \in Seq(Commands) /\ <<>> \in Seq(Containers) /\ ~PendingIn(<<>>)
    BY DEF PendingIn
  <2> QED
    BY <2>1, <2>2, <2>3, <2>4, Ageing, AgeingContainers
<1>2. phase = "rest" /\ phase' = "rest"
  BY <1>0, Parts DEF SafetyParts, RunsInSession, txnVars, TypeOK
<1>3. ControlOK'
  <2>1. report' \in Reports /\ job' = "open" /\ 1 <= Len(Script["open"])
    BY DEF NoReport, Reports, Script, OpenScript
  <2>2. sess' \in BOOLEAN /\ isOpen' \in BOOLEAN /\ clean' \in BOOLEAN /\ at' = 1 /\ txid' = 0
    OBVIOUS
  <2> QED
    BY <2>1, <2>2, SessionAssumption DEF ControlOK, Jobs
<1>4. RestOK'
  <2>1. cur' \in 0..MaxId /\ sessions' \in 0..MaxSessions
    BY <1>0, SessionAssumption DEF TypeOK
  <2>2. /\ poisoned' \in BOOLEAN /\ matched' \in BOOLEAN /\ acted' \in BOOLEAN /\ foreign' \in BOOLEAN
        /\ fresh' \in BOOLEAN /\ trouble' \in BOOLEAN
    OBVIOUS
  <2> QED
    BY <1>0, <1>1, <1>2, <2>1, <2>2 DEF TypeOK, RestOK, txnVars
<1>5. InStep' /\ RunsInSession'
  BY <1>2 DEF InStep, RunsInSession, AtRest, NoReport
<1>6. WriteInOrder'
  BY <1>1 DEF WriteInOrder, Pending, PendingIn, Operations, WriteAt
<1>7. FailedMeansUnchanged' /\ OkMeansActed' /\ AnswersAreOwn'
  BY DEF FailedMeansUnchanged, OkMeansActed, AnswersAreOwn, NoReport
<1> QED
  BY <1>3, <1>4, <1>5, <1>6, <1>7, PartsNext DEF SafetyParts

LEMMA StartStep ==
    ASSUME IInv, NEW o \in Operations, StartOp(o)
    PROVE  IInv'
<1> USE DEF StartOp
<1>0. TypeOK /\ SafetyParts
  BY Parts
<1>1. wire' \in Seq(Commands) /\ pipe' \in Seq(Containers) /\ ~PendingIn(wire') /\ (AtRest => AtRest')
  <2>1. wire \in Seq(Commands) /\ pipe \in Seq(Containers)
    BY <1>0 DEF TypeOK
  <2>3. wire = <<>> => wire' = <<>>
    BY EmptySeq DEF PastCommands
  <2> QED
    BY <2>1, <2>3, Ageing, AgeingContainers DEF AtRest
<1>2. phase = "rest" /\ phase' = "rest"
  BY <1>0 DEF SafetyParts, RunsInSession, txnVars, TypeOK
<1>3. 1 <= Len(Script[o]) /\ WriteAt[o] \in 1..9
  <2> USE DEF Script, GetScript, SetScript, IptcScript, PlanScript, SendScript, VerifyScript, DeleteScript, WriteAt
  <2>1. CASE o = "get"
    BY <2>1
  <2>2. CASE o = "set"
    BY <2>2
  <2>3. CASE o = "iptc"
    BY <2>3
  <2>4. CASE o = "ftp"
    <3>1. Len(Script["ftp"]) = 7 /\ WriteAt["ftp"] = 4
      OBVIOUS
    <3> QED
      BY <2>4, <3>1
  <2>5. CASE o = "ftp_plain"
    BY <2>5
  <2>6. CASE o = "delete"
    BY <2>6
  <2> QED
    BY <2>1, <2>2, <2>3, <2>4, <2>5, <2>6 DEF Operations
<1>4. ControlOK'
  BY <1>0, <1>3 DEF TypeOK, ControlOK, sessionVars, Jobs, NoReport, Reports
<1>5. RestOK'
  <2>1. ops' \in 0..MaxOps
    BY <1>0, SessionAssumption DEF TypeOK
  <2> QED
    BY <1>0, <1>1, <1>2, <2>1 DEF TypeOK, RestOK, txnVars, sessionVars
<1>6. InStep' /\ RunsInSession'
  BY <1>0, <1>1, <1>2 DEF SafetyParts, InStep, RunsInSession, NoReport, sessionVars
<1>7. WriteInOrder'
  BY <1>1, <1>2, <1>3 DEF WriteInOrder, Pending, PendingIn
<1>8. FailedMeansUnchanged' /\ OkMeansActed' /\ AnswersAreOwn'
  BY DEF FailedMeansUnchanged, OkMeansActed, AnswersAreOwn, NoReport
<1> QED
  BY <1>4, <1>5, <1>6, <1>7, <1>8, PartsNext DEF SafetyParts

LEMMA DropStep == IInv /\ Drop => IInv'
<1> SUFFICES ASSUME IInv, Drop PROVE IInv'
  OBVIOUS
<1> USE DEF Drop
<1>0. TypeOK /\ SafetyParts
  BY Parts
<1>1. wire' \in Seq(Commands) /\ pipe' \in Seq(Containers) /\ ~PendingIn(wire') /\ (AtRest => AtRest')
  <2>1. wire \in Seq(Commands) /\ pipe \in Seq(Containers)
    BY <1>0 DEF TypeOK
  <2>2. wire = <<>> => wire' = <<>>
    BY EmptySeq DEF PastCommands
  <2> QED
    BY <2>1, <2>2, Ageing, AgeingContainers DEF AtRest
<1>2. phase = "rest" /\ phase' = "rest"
  BY <1>0 DEF SafetyParts, RunsInSession, txnVars, TypeOK
<1>3. Len(Script["drop"]) = 1 /\ WriteAt["drop"] = 9
  BY DEF Script, DropScript, WriteAt
<1>4. ControlOK'
  BY <1>0, <1>3 DEF TypeOK, ControlOK, sessionVars, Jobs, NoReport, Reports
<1>5. RestOK'
  BY <1>0, <1>1, <1>2 DEF TypeOK, RestOK, txnVars, sessionVars, bounds
<1>6. InStep' /\ RunsInSession'
  BY <1>0, <1>1, <1>2 DEF SafetyParts, InStep, RunsInSession, NoReport, sessionVars
<1>7. WriteInOrder'
  BY <1>1, <1>2, <1>3 DEF WriteInOrder, Pending, PendingIn
<1>8. FailedMeansUnchanged' /\ OkMeansActed' /\ AnswersAreOwn'
  BY DEF FailedMeansUnchanged, OkMeansActed, AnswersAreOwn, NoReport
<1> QED
  BY <1>4, <1>5, <1>6, <1>7, <1>8, PartsNext DEF SafetyParts

LEMMA DiesStep == IInv /\ Dies => IInv'
<1> SUFFICES ASSUME IInv, Dies PROVE IInv'
  OBVIOUS
<1> USE DEF Dies
<1>0. TypeOK /\ SafetyParts
  BY Parts
<1>1. ControlOK'
  <2>1. report' \in Reports
    BY DEF NoReport, Reports
  <2>2. txid' \in 0..MaxId /\ clean' \in BOOLEAN
    BY <1>0 DEF TypeOK
  <2>3. sess' \in BOOLEAN /\ isOpen' \in BOOLEAN
    OBVIOUS
  <2>4. job' = "none" /\ at' \in 1..7
    OBVIOUS
  <2> QED
    BY <2>1, <2>2, <2>3, <2>4 DEF ControlOK
<1>2. RestOK'
  BY <1>0, SessionAssumption DEF TypeOK, RestOK
<1>3. SafetyParts'
  BY <1>0 DEF SafetyParts, InStep, RunsInSession, WriteInOrder, FailedMeansUnchanged, OkMeansActed,
         AnswersAreOwn, NoReport
<1> QED
  BY <1>1, <1>2, <1>3, PartsNext

\* What is on the wire in a session in step, before the write and at it.
LEMMA BeforeWrite ==
    ASSUME TypeOK, SafetyParts, job # "none", phase # "reply",
           clean, at < WriteAt[job] \/ job \notin Operations \/ at = WriteAt[job]
    PROVE  ~acted /\ ~PendingIn(wire)
<1>1. ~acted /\ ~Pending
  BY DEF SafetyParts, WriteInOrder
<1> QED
  BY <1>1 DEF Pending, PendingIn

LEMMA RefusePoisonedStep == IInv /\ RefusePoisoned => IInv'
<1> SUFFICES ASSUME IInv, RefusePoisoned PROVE IInv'
  OBVIOUS
<1>0. TypeOK /\ SafetyParts /\ job # "none" /\ phase = "rest" /\ poisoned
  BY Parts DEF RefusePoisoned, Running
<1>1. /\ StepFails(TRUE, txid) /\ started' = FALSE
      /\ UNCHANGED <<poisoned, cur, fresh, trouble, acted, foreign, matched, phase, data, wire, pipe, bodyOpen, bounds>>
  BY DEF RefusePoisoned
<1>2. txid \in 0..MaxId /\ TRUE \in BOOLEAN
  BY <1>0 DEF TypeOK
<1>3. clean /\ (at < WriteAt[job] \/ job \notin Operations \/ (at = WriteAt[job] /\ TRUE)) => ~PendingIn(wire')
  BY <1>0, <1>1, BeforeWrite
<1>4. clean /\ at = WriteAt[job] /\ TRUE => ~acted
  BY <1>0, BeforeWrite
<1>5. ControlOK' /\ SafetyParts'
  BY <1>0, <1>1, <1>2, <1>3, <1>4, Failing DEF SafetyParts, AnswersAreOwn
<1>6. RestOK'
  BY <1>0, <1>1 DEF TypeOK, RestOK, bounds
<1> QED
  BY <1>5, <1>6, PartsNext

LEMMA SendCommandStep == IInv /\ SendCommand => IInv'
<1> SUFFICES ASSUME IInv, SendCommand PROVE IInv'
  OBVIOUS
<1> USE DEF SendCommand
<1>0. TypeOK /\ SafetyParts /\ job # "none" /\ phase = "rest" /\ ~poisoned
  BY Parts DEF Running
<1>1. Command \in Commands /\ Command.step = Step /\ Command.age = "txn" /\ Command.whole = ~HasData(Step)
  BY <1>0, CommandType
<1>2. wire \in Seq(Commands) /\ wire' \in Seq(Commands)
  BY <1>0, <1>1 DEF TypeOK
<1>3. Step' = Step /\ UNCHANGED jobVars
  BY DEF Step, jobVars
<1>4. ControlOK'
  BY <1>0, IdsWrap DEF TypeOK, ControlOK, jobVars
<1>5. phase' = (IF HasData(Step) THEN "data" ELSE "reply")
  OBVIOUS
<1>6. RestOK'
  BY <1>0, <1>2, <1>5 DEF TypeOK, RestOK, jobVars, bounds
<1>7. InStep'
  <2> SUFFICES ASSUME clean, sess PROVE Len(wire') = 1 /\ wire'[1] = Command /\ pipe' = <<>>
    BY <1>1, <1>3, <1>5 DEF InStep, InData, Asked
  <2>1. wire = <<>> /\ pipe = <<>>
    BY <1>0 DEF SafetyParts, InStep, AtRest
  <2> QED
    BY <2>1, <1>1, AppendProperties
<1>8. RunsInSession'
  BY <1>0, <1>3, <1>5 DEF SafetyParts, RunsInSession, jobVars
<1>9. WriteInOrder'
  <2> SUFFICES ASSUME clean PROVE WriteInOrder'
    BY DEF WriteInOrder
  <2>1. WriteAt[job] \in 1..9 /\ at \in 1..7
    BY <1>0, ScriptFacts DEF TypeOK
  <2>2. at > WriteAt[job] => acted
    BY <1>0 DEF SafetyParts, WriteInOrder
  <2>3. at < WriteAt[job] \/ job \notin Operations => ~acted /\ ~PendingIn(wire')
    <3>1. at < WriteAt[job] \/ job \notin Operations => ~Changes(Step)
      BY <1>0, <2>1, ScriptFacts
    <3> QED
      BY <1>0, <1>1, <1>2, <3>1, BeforeWrite, PendingMoves
  <2>4. at = WriteAt[job] => ~acted /\ (phase' # "reply" => ~PendingIn(wire'))
    <3>1. phase' # "reply" => HasData(Step)
      BY <1>5
    <3> QED
      BY <1>0, <1>1, <1>2, <3>1, BeforeWrite, PendingMoves
  <2>5. Pending' <=> PendingIn(wire')
    BY DEF Pending, PendingIn
  <2> QED
    BY <1>0, <2>1, <2>2, <2>3, <2>4, <2>5 DEF WriteInOrder, jobVars
<1>10. FailedMeansUnchanged' /\ OkMeansActed' /\ AnswersAreOwn'
  BY <1>0 DEF SafetyParts, RunsInSession, NoReport, FailedMeansUnchanged, OkMeansActed, AnswersAreOwn, jobVars
<1> QED
  BY <1>4, <1>6, <1>7, <1>8, <1>9, <1>10, PartsNext DEF SafetyParts

LEMMA SendDataStep == IInv /\ SendData => IInv'
<1> SUFFICES ASSUME IInv, SendData PROVE IInv'
  OBVIOUS
<1> USE DEF SendData
<1>0. TypeOK /\ SafetyParts /\ phase = "data" /\ job # "none" /\ ~poisoned /\ sess
  BY Parts DEF SafetyParts, RunsInSession
<1>1. wire \in Seq(Commands) /\ (clean => pipe = <<>> /\ Len(wire) = 1 /\ wire[1].step = Step)
  BY <1>0 DEF TypeOK, SafetyParts, InStep, InData
<1>2. Step' = Step /\ UNCHANGED jobVars /\ UNCHANGED sessionVars
  BY DEF Step, jobVars
<1>3. ControlOK'
  BY <1>0, <1>2 DEF TypeOK, ControlOK, jobVars, sessionVars
<1>4. /\ wire' \in Seq(Commands)
      /\ clean => /\ wire # <<>> /\ Len(wire') = 1 /\ wire'[1].step = Step /\ wire'[1].age = "txn"
                  /\ PendingIn(wire') => PendingIn(wire) \/ Changes(Step)
  <2>1. \E c : c \in Commands
    BY <1>0, CommandType
  <2> QED
    BY <1>1, <2>1, PendingMoves, EmptySeq
<1>5. RestOK'
  BY <1>0, <1>2, <1>4 DEF TypeOK, RestOK, jobVars, sessionVars, bounds
<1>6. InStep'
  BY <1>1, <1>2, <1>4 DEF InStep, Asked, sessionVars, jobVars
<1>7. RunsInSession'
  BY <1>0, <1>2 DEF SafetyParts, RunsInSession, jobVars, sessionVars
<1>8. WriteInOrder'
  <2> SUFFICES ASSUME clean PROVE WriteInOrder'
    BY <1>2 DEF WriteInOrder, sessionVars
  <2>1. WriteAt[job] \in 1..9 /\ at \in 1..7
    BY <1>0, ScriptFacts DEF TypeOK
  <2>2. at > WriteAt[job] => acted
    BY <1>0 DEF SafetyParts, WriteInOrder
  <2>3. at < WriteAt[job] \/ job \notin Operations => ~acted /\ ~PendingIn(wire')
    <3>1. at < WriteAt[job] \/ job \notin Operations => ~Changes(Step)
      BY <1>0, <2>1, ScriptFacts
    <3> QED
      BY <1>0, <1>4, <3>1, BeforeWrite
  <2>4. at = WriteAt[job] => ~acted
    BY <1>0, BeforeWrite
  <2>5. Pending' <=> PendingIn(wire')
    BY DEF Pending, PendingIn
  <2> QED
    BY <1>0, <1>2, <2>1, <2>2, <2>3, <2>4, <2>5 DEF WriteInOrder, jobVars
<1>9. FailedMeansUnchanged' /\ OkMeansActed' /\ AnswersAreOwn'
  BY <1>0, <1>2 DEF SafetyParts, RunsInSession, NoReport, FailedMeansUnchanged, OkMeansActed, AnswersAreOwn,
                   jobVars, sessionVars
<1> QED
  BY <1>3, <1>5, <1>6, <1>7, <1>8, <1>9, PartsNext DEF SafetyParts

LEMMA CommandFailsStep == IInv /\ CommandFails => IInv'
<1> SUFFICES ASSUME IInv, CommandFails PROVE IInv'
  OBVIOUS
<1>0. TypeOK /\ SafetyParts /\ job # "none" /\ phase = "rest" /\ ~poisoned /\ wire \in Seq(Commands) /\ pipe \in Seq(Containers)
  BY Parts DEF CommandFails, Running, TypeOK
<1>1. PICK delivered \in BOOLEAN : Poisons(IF delivered THEN Append(wire, Command) ELSE wire, pipe)
  BY DEF CommandFails
<1>2. /\ StepFails(HasData(Step), NextId(txid)) /\ started' = FALSE /\ data' = FALSE /\ cur' = txid
      /\ trouble' = TRUE /\ faults < MaxFaults /\ faults' = faults + 1
      /\ UNCHANGED <<fresh, acted, foreign, matched, phase, bodyOpen, sessions, ops>>
  BY DEF CommandFails, Trouble
<1>3. Command \in Commands /\ Command.step = Step /\ Command.whole = ~HasData(Step)
  BY <1>0, CommandType
<1> DEFINE w == IF delivered THEN Append(wire, Command) ELSE wire
<1>4. w \in Seq(Commands) /\ (PendingIn(w) => PendingIn(wire) \/ (Changes(Step) /\ ~HasData(Step)))
  <2>1. Append(wire, Command) \in Seq(Commands)
    BY <1>0, <1>3, AppendProperties
  <2>2. PendingIn(Append(wire, Command)) => PendingIn(wire) \/ (Changes(Step) /\ ~HasData(Step))
    BY <1>0, <1>3, PendingMoves
  <2>3. CASE delivered
    BY <2>1, <2>2, <2>3
  <2>4. CASE ~delivered
    BY <1>0, <2>4
  <2> QED
    BY <2>3, <2>4
<1>5. Poisons(w, pipe)
  BY <1>1
<1> HIDE DEF w
<1>6. /\ wire' \in Seq(Commands) /\ pipe' \in Seq(Containers) /\ poisoned' \in BOOLEAN
      /\ PendingIn(wire') => PendingIn(wire) \/ (Changes(Step) /\ ~HasData(Step))
      /\ ~(job = "open" /\ at = 2) => poisoned'
  BY <1>0, <1>4, <1>5, Poisoning
<1>7. /\ at < WriteAt[job] \/ job \notin Operations => ~Changes(Step)
      /\ HasData(Step) \in BOOLEAN /\ NextId(txid) \in 0..MaxId
  BY <1>0, ScriptFacts, IdsWrap DEF HasData, TypeOK
<1>8. clean /\ (at < WriteAt[job] \/ job \notin Operations \/ (at = WriteAt[job] /\ HasData(Step))) => ~PendingIn(wire')
  BY <1>0, <1>6, <1>7, BeforeWrite
<1>9. clean /\ at = WriteAt[job] /\ HasData(Step) => ~acted
  BY <1>0, BeforeWrite
<1>10. ControlOK' /\ SafetyParts'
  BY <1>0, <1>2, <1>6, <1>7, <1>8, <1>9, Failing DEF SafetyParts, AnswersAreOwn
<1>11. RestOK'
  <2>1. cur' \in 0..MaxId /\ faults' \in 0..MaxFaults
    BY <1>0, <1>2, SessionAssumption DEF TypeOK
  <2>2. trouble' \in BOOLEAN /\ started' \in BOOLEAN /\ data' \in BOOLEAN
    BY <1>0, <1>2 DEF TypeOK
  <2> QED
    BY <1>0, <1>2, <1>6, <2>1, <2>2 DEF TypeOK, RestOK
<1> QED
  BY <1>10, <1>11, PartsNext

LEMMA DataFailsStep == IInv /\ DataFails => IInv'
<1> SUFFICES ASSUME IInv, DataFails PROVE IInv'
  OBVIOUS
<1>0. /\ TypeOK /\ SafetyParts /\ job # "none" /\ phase = "data" /\ ~poisoned /\ sess
      /\ wire \in Seq(Commands) /\ pipe \in Seq(Containers) /\ txid \in 0..MaxId
  BY Parts DEF DataFails, SafetyParts, RunsInSession, TypeOK
<1>1. PICK delivered \in BOOLEAN : Poisons(IF delivered THEN Completed(wire) ELSE wire, pipe)
  BY DEF DataFails
<1>2. /\ StepFails(FALSE, txid) /\ started' = TRUE /\ phase' = "rest"
      /\ trouble' = TRUE /\ faults < MaxFaults /\ faults' = faults + 1
      /\ UNCHANGED <<cur, fresh, acted, foreign, matched, data, bodyOpen, sessions, ops>>
  BY DEF DataFails, Trouble
<1>3. clean => Len(wire) = 1 /\ wire[1].step = Step /\ wire # <<>>
  BY <1>0, EmptySeq DEF SafetyParts, InStep, InData
<1> DEFINE w == IF delivered THEN Completed(wire) ELSE wire
<1>4. w \in Seq(Commands) /\ (clean /\ PendingIn(w) => PendingIn(wire) \/ Changes(Step))
  BY <1>0, <1>3, CommandType, PendingMoves
<1>5. Poisons(w, pipe)
  BY <1>1
<1> HIDE DEF w
<1>6. /\ wire' \in Seq(Commands) /\ pipe' \in Seq(Containers) /\ poisoned' \in BOOLEAN
      /\ clean /\ PendingIn(wire') => PendingIn(wire) \/ Changes(Step)
      /\ ~(job = "open" /\ at = 2) => poisoned'
  BY <1>0, <1>4, <1>5, Poisoning
<1>7. at < WriteAt[job] \/ job \notin Operations => ~Changes(Step)
  BY <1>0, ScriptFacts DEF TypeOK
<1>8. clean /\ (at < WriteAt[job] \/ job \notin Operations \/ (at = WriteAt[job] /\ FALSE)) => ~PendingIn(wire')
  BY <1>0, <1>6, <1>7, BeforeWrite
<1>9. ControlOK' /\ SafetyParts'
  BY <1>0, <1>2, <1>6, <1>8, Failing DEF SafetyParts, AnswersAreOwn
<1>10. RestOK'
  <2>1. cur' \in 0..MaxId /\ faults' \in 0..MaxFaults
    BY <1>0, <1>2, SessionAssumption DEF TypeOK
  <2>2. trouble' \in BOOLEAN /\ started' \in BOOLEAN /\ data' \in BOOLEAN
    BY <1>0, <1>2 DEF TypeOK
  <2> QED
    BY <1>0, <1>2, <1>6, <2>1, <2>2 DEF TypeOK, RestOK
<1> QED
  BY <1>9, <1>10, PartsNext

LEMMA TimesOutStep == IInv /\ TimesOut => IInv'
<1> SUFFICES ASSUME IInv, TimesOut PROVE IInv'
  OBVIOUS
<1>0. /\ TypeOK /\ SafetyParts /\ job # "none" /\ phase = "reply" /\ ~poisoned /\ sess
      /\ wire \in Seq(Commands) /\ pipe \in Seq(Containers) /\ txid \in 0..MaxId
  BY Parts DEF TimesOut, SafetyParts, RunsInSession, TypeOK
<1>1. PICK rest \in {pipe} \cup (IF pipe = <<>> THEN {} ELSE {Tail(pipe)}) : Poisons(wire, rest)
  BY DEF TimesOut
<1>2. rest \in Seq(Containers)
  BY <1>0, <1>1, HeadTailProperties
<1>3. /\ StepFails(FALSE, txid) /\ phase' = "rest"
      /\ trouble' = TRUE /\ faults < MaxFaults /\ faults' = faults + 1
      /\ UNCHANGED <<cur, fresh, acted, foreign, matched, started, data, bodyOpen, sessions, ops>>
  BY DEF TimesOut, Trouble
<1>4. /\ wire' \in Seq(Commands) /\ pipe' \in Seq(Containers) /\ poisoned' \in BOOLEAN
      /\ PendingIn(wire') => PendingIn(wire)
      /\ ~(job = "open" /\ at = 2) => poisoned'
  BY <1>0, <1>1, <1>2, Poisoning
<1>5. clean /\ (at < WriteAt[job] \/ job \notin Operations \/ (at = WriteAt[job] /\ FALSE)) => ~PendingIn(wire')
  BY <1>0, <1>4 DEF SafetyParts, WriteInOrder, Pending, PendingIn
<1>6. ControlOK' /\ SafetyParts'
  BY <1>0, <1>3, <1>4, <1>5, Failing DEF SafetyParts, AnswersAreOwn
<1>7. RestOK'
  BY <1>0, <1>3, <1>4, SessionAssumption DEF TypeOK, RestOK
<1> QED
  BY <1>6, <1>7, PartsNext

LEMMA MismatchStep == IInv /\ Mismatch => IInv'
<1> SUFFICES ASSUME IInv, Mismatch PROVE IInv'
  OBVIOUS
<1>0. /\ TypeOK /\ SafetyParts /\ job # "none" /\ phase = "reply" /\ ~poisoned /\ sess
      /\ wire \in Seq(Commands) /\ pipe \in Seq(Containers) /\ txid \in 0..MaxId /\ pipe # <<>>
  BY Parts DEF Mismatch, SafetyParts, RunsInSession, TypeOK
<1>1. Tail(pipe) \in Seq(Containers)
  BY <1>0, HeadTailProperties
<1>2. /\ StepFails(FALSE, txid) /\ phase' = "rest" /\ trouble' = TRUE
      /\ Poisons(wire, Tail(pipe))
      /\ UNCHANGED <<cur, fresh, acted, foreign, matched, started, data, bodyOpen, bounds>>
  BY DEF Mismatch
<1>3. /\ wire' \in Seq(Commands) /\ pipe' \in Seq(Containers) /\ poisoned' \in BOOLEAN
      /\ PendingIn(wire') => PendingIn(wire)
      /\ ~(job = "open" /\ at = 2) => poisoned'
  BY <1>0, <1>1, <1>2, Poisoning
<1>4. clean /\ (at < WriteAt[job] \/ job \notin Operations \/ (at = WriteAt[job] /\ FALSE)) => ~PendingIn(wire')
  BY <1>0, <1>3 DEF SafetyParts, WriteInOrder, Pending, PendingIn
<1>5. ControlOK' /\ SafetyParts'
  BY <1>0, <1>2, <1>3, <1>4, Failing DEF SafetyParts, AnswersAreOwn
<1>6. RestOK'
  BY <1>0, <1>2, <1>3 DEF TypeOK, RestOK, bounds
<1> QED
  BY <1>5, <1>6, PartsNext

\* What is known of a container that is taken.
LEMMA TakenFacts ==
    ASSUME TypeOK, SafetyParts, phase = "reply", pipe # <<>>, Taken(Head(pipe))
    PROVE  /\ Head(pipe) \in Containers /\ Tail(pipe) \in Seq(Containers)
           /\ matched' \in BOOLEAN /\ foreign' \in BOOLEAN /\ (clean => ~foreign')
           /\ sess /\ ~poisoned /\ job # "none"
           /\ clean => wire = <<>>
           /\ clean /\ Head(pipe).kind = "response" =>
                 Tail(pipe) = <<>> /\ (Changes(Step) => (Head(pipe).code = "ok") = acted)
           /\ clean /\ Head(pipe).kind = "data" =>
                 /\ Len(Tail(pipe)) = 1 /\ ~Changes(Step)
                 /\ Tail(pipe)[1].kind = "response" /\ Tail(pipe)[1].age = "txn"
<1>1. pipe \in Seq(Containers)
  BY DEF TypeOK
<1>2. Head(pipe) \in Containers /\ Tail(pipe) \in Seq(Containers) /\ Head(pipe) = pipe[1] /\ Len(Tail(pipe)) = Len(pipe) - 1
      /\ Len(pipe) \in Nat
  BY <1>1, HeadTailProperties, LenProperties, EmptySeq
<1>3. sess /\ ~poisoned /\ job # "none"
  BY DEF SafetyParts, RunsInSession
<1>4. clean => Answered
  BY <1>3 DEF SafetyParts, InStep, Asked
<1>5. clean => Head(pipe).age = "txn"
  BY <1>2, <1>4 DEF Answered
<1>6. matched' \in BOOLEAN /\ foreign' \in BOOLEAN
  BY Zenon DEF Taken
<1>7. clean => ~foreign'
  BY <1>5 DEF Taken, SafetyParts, AnswersAreOwn
<1>8. clean /\ Head(pipe).kind = "response" => Len(pipe) = 1 /\ (Changes(Step) => (Head(pipe).code = "ok") = acted)
  BY <1>2, <1>4 DEF Answered
<1>9. clean /\ Head(pipe).kind = "data" => Len(pipe) = 2 /\ ~Changes(Step) /\ pipe[2].kind = "response" /\ pipe[2].age = "txn"
  BY <1>2, <1>4 DEF Answered
<1>10. Len(pipe) = 1 => Tail(pipe) = <<>>
  <2>1. Len(pipe) = 1 => Len(Tail(pipe)) = 0
    BY <1>2
  <2> QED
    BY <1>2, <2>1, EmptySeq
<1>11. Len(pipe) = 2 => Len(Tail(pipe)) = 1 /\ Tail(pipe)[1] = pipe[2]
  <2>1. \A i \in 1..Len(Tail(pipe)) : Tail(pipe)[i] = pipe[i + 1]
    BY <1>1, HeadTailProperties
  <2>2. Len(pipe) = 2 => Len(Tail(pipe)) = 1
    BY <1>2
  <2>3. 1 \in 1..1 /\ 1 + 1 = 2
    OBVIOUS
  <2> QED
    BY <2>1, <2>2, <2>3
<1> QED
  BY <1>2, <1>3, <1>4, <1>6, <1>7, <1>8, <1>9, <1>10, <1>11 DEF Answered

LEMMA TakeDataStep == IInv /\ TakeData => IInv'
<1> SUFFICES ASSUME IInv, TakeData PROVE IInv'
  OBVIOUS
<1> USE DEF TakeData
<1>0. TypeOK /\ SafetyParts /\ phase = "reply"
  BY Parts
<1>1. /\ Tail(pipe) \in Seq(Containers)
      /\ matched' \in BOOLEAN /\ foreign' \in BOOLEAN /\ (clean => ~foreign')
      /\ sess /\ ~poisoned /\ job # "none"
      /\ clean => /\ wire = <<>> /\ Len(pipe') = 1 /\ ~Changes(Step)
                  /\ pipe'[1].kind = "response" /\ pipe'[1].age = "txn"
  BY <1>0, TakenFacts
<1>2. Step' = Step
  BY DEF Step
<1>3. ControlOK'
  BY <1>0 DEF TypeOK, ControlOK, sessionVars
<1>4. RestOK'
  BY <1>0, <1>1 DEF TypeOK, RestOK, sessionVars, bounds
<1>5. InStep'
  BY <1>0, <1>1, <1>2 DEF InStep, Answered, sessionVars
<1>6. RunsInSession'
  BY <1>0, <1>1 DEF SafetyParts, RunsInSession, sessionVars
<1>7. clean => ~(at = WriteAt[job] /\ job \in Operations)
  BY <1>0, <1>1, ScriptFacts
<1>8. WriteInOrder' /\ FailedMeansUnchanged' /\ OkMeansActed'
  <2>1. Pending' <=> Pending
    BY DEF Pending
  <2>2. WriteInOrder'
    BY <1>0, <1>7, <2>1 DEF SafetyParts, WriteInOrder, sessionVars
  <2>3. FailedMeansUnchanged' /\ OkMeansActed'
    BY <1>0, <2>1 DEF SafetyParts, FailedMeansUnchanged, OkMeansActed, sessionVars
  <2> QED
    BY <2>2, <2>3
<1>9. AnswersAreOwn'
  BY <1>1 DEF AnswersAreOwn, sessionVars
<1> QED
  BY <1>3, <1>4, <1>5, <1>6, <1>8, <1>9, PartsNext DEF SafetyParts

LEMMA TakeMalformedStep == IInv /\ TakeMalformed => IInv'
<1> SUFFICES ASSUME IInv, TakeMalformed PROVE IInv'
  OBVIOUS
<1>0. TypeOK /\ SafetyParts /\ phase = "reply" /\ pipe # <<>> /\ Head(pipe).kind = "response" /\ Taken(Head(pipe))
  BY Parts DEF TakeMalformed
<1>1. /\ wire \in Seq(Commands) /\ txid \in 0..MaxId
      /\ Tail(pipe) \in Seq(Containers)
      /\ matched' \in BOOLEAN /\ foreign' \in BOOLEAN /\ (clean => ~foreign')
      /\ sess /\ ~poisoned /\ job # "none"
      /\ clean => wire = <<>> /\ Tail(pipe) = <<>>
  BY <1>0, TakenFacts DEF TypeOK
<1>2. /\ StepFails(FALSE, txid) /\ phase' = "rest" /\ wire' = OlderCommands(wire) /\ pipe' = PastContainers(Tail(pipe))
      /\ trouble' = TRUE /\ faults < MaxFaults /\ faults' = faults + 1
      /\ UNCHANGED <<poisoned, cur, fresh, acted, started, data, bodyOpen, sessions, ops>>
  BY DEF TakeMalformed, Trouble
<1>3. wire' \in Seq(Commands) /\ pipe' \in Seq(Containers) /\ (clean => AtRest')
  BY <1>1, <1>2, Ageing, AgeingContainers DEF AtRest
<1>4. clean => ~PendingIn(wire')
  BY <1>3 DEF AtRest, PendingIn
<1>5. ControlOK' /\ SafetyParts'
  BY <1>0, <1>1, <1>2, <1>3, <1>4, Failing DEF SafetyParts, AnswersAreOwn
<1>6. RestOK'
  <2>1. faults' \in 0..MaxFaults /\ trouble' \in BOOLEAN
    BY <1>0, <1>2, SessionAssumption DEF TypeOK
  <2> QED
    BY <1>0, <1>1, <1>2, <1>3, <2>1 DEF TypeOK, RestOK
<1> QED
  BY <1>5, <1>6, PartsNext

LEMMA TakeResponseStep == IInv /\ TakeResponse => IInv'
<1> SUFFICES ASSUME IInv, TakeResponse PROVE IInv'
  OBVIOUS
<1>0. TypeOK /\ SafetyParts /\ phase = "reply" /\ pipe # <<>> /\ Head(pipe).kind = "response" /\ Taken(Head(pipe))
  BY Parts DEF TakeResponse
<1> DEFINE code == Head(pipe).code
<1>1. /\ wire \in Seq(Commands) /\ txid \in 0..MaxId
      /\ Tail(pipe) \in Seq(Containers)
      /\ matched' \in BOOLEAN /\ foreign' \in BOOLEAN /\ (clean => ~foreign')
      /\ sess /\ ~poisoned /\ job # "none"
      /\ clean => wire = <<>> /\ Tail(pipe) = <<>> /\ (Changes(Step) => (code = "ok") = acted)
      /\ code \in {"ok", "already", "refused"}
  BY <1>0, TakenFacts DEF TypeOK, Containers
<1>2. /\ phase' = "rest" /\ wire' = OlderCommands(wire) /\ pipe' = PastContainers(Tail(pipe))
      /\ poisoned' = (poisoned /\ ~(job = "open" /\ at = 2))
      /\ UNCHANGED <<cur, fresh, trouble, acted, started, data, bodyOpen, bounds>>
      /\ \/ job = "open" /\ OpenAnswered(code)
         \/ job = "drop" /\ EndJob("ok") /\ UNCHANGED txid
         \/ job \in Operations /\ \E useful \in BOOLEAN : OpAnswered(code, useful)
  BY DEF TakeResponse
<1> HIDE DEF code
<1>3. wire' \in Seq(Commands) /\ pipe' \in Seq(Containers) /\ (clean => AtRest')
  BY <1>1, <1>2, Ageing, AgeingContainers DEF AtRest
<1>4. clean => ~PendingIn(wire')
  BY <1>3 DEF AtRest, PendingIn
<1>5. WriteAt[job] \in 1..9 /\ at \in 1..7
  BY <1>0, <1>1, ScriptFacts DEF TypeOK
<1>6. ControlOK' /\ SafetyParts'
  <2>1. CASE job = "open" /\ OpenAnswered(code)
    <3>1. clean => ~acted
      BY <1>0, <2>1 DEF SafetyParts, WriteInOrder, Operations
    <3>2. CASE EndJob("ok") /\ UNCHANGED txid
      BY <1>0, <1>1, <1>2, <1>3, <2>1, <3>2, Ending DEF Operations, SafetyParts
    <3>3. CASE EndJob("failed") /\ UNCHANGED txid
      BY <1>0, <1>1, <1>2, <1>3, <1>4, <2>1, <3>1, <3>3, Ending DEF Operations, SafetyParts
    <3>4. CASE Reopen(2) /\ UNCHANGED clean
      BY <1>0, <1>1, <1>2, <1>3, <2>1, <3>4, Reopening DEF SafetyParts, TypeOK
    <3>5. CASE Reopen(3) /\ clean' = (clean /\ wire' = <<>> /\ pipe' = <<>>)
      <4>1. clean' \in BOOLEAN /\ (clean' => clean) /\ (clean' => AtRest')
        BY <3>5 DEF AtRest
      <4> QED
        BY <1>0, <1>1, <1>2, <2>1, <3>5, <4>1, Reopening DEF SafetyParts
    <3> QED
      BY <2>1, <3>2, <3>3, <3>4, <3>5 DEF OpenAnswered
  <2>2. CASE job = "drop" /\ EndJob("ok") /\ UNCHANGED txid
    BY <1>0, <1>1, <1>2, <1>3, <2>2, Ending DEF Operations, SafetyParts
  <2>3. CASE job \in Operations /\ \E useful \in BOOLEAN : OpAnswered(code, useful)
    <3>1. PICK useful \in BOOLEAN : OpAnswered(code, useful)
      BY <2>3
    <3> DEFINE good == code = "ok" /\ (NeedsData(Step) => data /\ useful)
    <3>2. /\ Changes(Step) <=> at = WriteAt[job]
          /\ Changes(Step) => ~NeedsData(Step)
          /\ at = Len(Script[job]) => job = "get" \/ at >= WriteAt[job]
          /\ Len(Script[job]) \in 1..7
      BY <1>0, <1>1, <2>3, ScriptFacts
    <3>3. /\ clean /\ at < WriteAt[job] => ~acted
          /\ clean /\ at > WriteAt[job] => acted
          /\ clean /\ at = WriteAt[job] => (good <=> acted)
      BY <1>0, <1>1, <1>5, <3>2 DEF SafetyParts, WriteInOrder, TypeOK
    <3>8. \/ good /\ at < Len(Script[job]) /\ at' = at + 1 /\ UNCHANGED <<job, report, isOpen, sess, txid, clean>>
          \/ good /\ at = Len(Script[job]) /\ EndJob("ok") /\ UNCHANGED txid
          \/ ~good /\ EndJob(FailedOutcome(TRUE)) /\ UNCHANGED txid
      BY <3>1 DEF OpAnswered
    <3> HIDE DEF good
    <3>4. CASE good /\ at < Len(Script[job])
      <4>1. at' = at + 1 /\ UNCHANGED <<job, report, isOpen, sess, txid, clean>>
        BY <1>5, <3>2, <3>4, <3>8
      <4>2. ControlOK'
        <5>1. at' \in 1..7 /\ at' <= Len(Script[job])
          <6>1. \A n \in 1..7, l \in 1..7 : n < l => n + 1 \in 1..7 /\ n + 1 <= l
            OBVIOUS
          <6> QED
            BY <1>5, <3>2, <3>4, <4>1, <6>1
        <5>2. /\ sess' \in BOOLEAN /\ isOpen' \in BOOLEAN /\ clean' \in BOOLEAN /\ txid' \in 0..MaxId
              /\ job' \in Jobs \cup {"none"} /\ report' \in Reports
          BY <1>0, <4>1 DEF TypeOK
        <5> QED
          BY <4>1, <5>1, <5>2 DEF ControlOK
      <4>3. InStep' /\ RunsInSession' /\ FailedMeansUnchanged' /\ OkMeansActed' /\ AnswersAreOwn'
        BY <1>0, <1>1, <1>2, <1>3, <4>1
           DEF SafetyParts, InStep, RunsInSession, NoReport, FailedMeansUnchanged, OkMeansActed, AnswersAreOwn
      <4>4. Pending' <=> PendingIn(wire')
        BY DEF Pending, PendingIn
      <4>5. WriteInOrder'
        BY <1>2, <1>4, <1>5, <2>3, <3>3, <3>4, <4>1, <4>4 DEF WriteInOrder
      <4> QED
        BY <4>2, <4>3, <4>5 DEF SafetyParts
    <3>5. CASE good /\ at = Len(Script[job])
      <4>1. EndJob("ok") /\ UNCHANGED txid
        BY <1>5, <3>2, <3>5, <3>8
      <4>2. clean /\ job # "get" => acted
        BY <1>5, <3>2, <3>3, <3>5
      <4> QED
        BY <1>0, <1>1, <1>2, <1>3, <4>1, <4>2, Ending DEF SafetyParts
    <3>6. CASE ~good
      <4>1. EndJob(FailedOutcome(TRUE)) /\ UNCHANGED txid
        BY <3>6, <3>8
      <4>2. /\ FailedOutcome(TRUE) \in {"ok", "failed", "unsure"}
            /\ clean /\ FailedOutcome(TRUE) = "failed" => ~acted
            /\ clean /\ FailedOutcome(TRUE) = "ok" => acted
        BY <1>5, <3>3, <3>6 DEF FailedOutcome
      <4> QED
        BY <1>0, <1>1, <1>2, <1>3, <1>4, <4>1, <4>2, Ending DEF SafetyParts
    <3>7. at <= Len(Script[job])
      BY <1>0, <1>1 DEF TypeOK
    <3> QED
      BY <1>5, <3>2, <3>4, <3>5, <3>6, <3>7
  <2> QED
    BY <1>2, <2>1, <2>2, <2>3
<1>7. RestOK'
  BY <1>0, <1>1, <1>2, <1>3 DEF TypeOK, RestOK, bounds
<1> QED
  BY <1>6, <1>7, PartsNext

\* The answer to a command: what the body appends.
LEMMA AnswerOf ==
    ASSUME NEW p \in Seq(Containers), NEW c \in Commands, NEW code \in {"ok", "already", "refused"}
    PROVE  /\ Response(c, code) \in Containers /\ DataOf(c) \in Containers
           /\ Response(c, code).kind = "response" /\ Response(c, code).age = c.age /\ Response(c, code).code = code
           /\ DataOf(c).kind = "data" /\ DataOf(c).age = c.age
           /\ Append(p, Response(c, code)) \in Seq(Containers)
           /\ Append(Append(p, DataOf(c)), Response(c, code)) \in Seq(Containers)
           /\ Append(p, Response(c, code)) # <<>>
           /\ Append(Append(p, DataOf(c)), Response(c, code)) # <<>>
           /\ p = <<>> => /\ Len(Append(p, Response(c, code))) = 1
                          /\ Append(p, Response(c, code))[1] = Response(c, code)
                          /\ Len(Append(Append(p, DataOf(c)), Response(c, code))) = 2
                          /\ Append(Append(p, DataOf(c)), Response(c, code))[1] = DataOf(c)
                          /\ Append(Append(p, DataOf(c)), Response(c, code))[2] = Response(c, code)
<1>1. /\ Response(c, code) \in Containers /\ DataOf(c) \in Containers
      /\ Response(c, code).kind = "response" /\ Response(c, code).age = c.age /\ Response(c, code).code = code
      /\ DataOf(c).kind = "data" /\ DataOf(c).age = c.age
  BY DEF Response, DataOf, Containers, Commands
<1> DEFINE r == Response(c, code)
           d == DataOf(c)
<1>2. r \in Containers /\ d \in Containers
  BY <1>1
<1> HIDE DEF r, d
<1>3. /\ Append(p, r) \in Seq(Containers) /\ Append(p, r) # <<>>
      /\ Append(p, d) \in Seq(Containers)
      /\ Len(Append(p, d)) = Len(p) + 1 /\ Append(p, d)[Len(p) + 1] = d
      /\ Len(Append(p, r)) = Len(p) + 1 /\ Append(p, r)[Len(p) + 1] = r
  BY <1>2, AppendProperties
<1>4. /\ Append(Append(p, d), r) \in Seq(Containers) /\ Append(Append(p, d), r) # <<>>
      /\ Len(Append(Append(p, d), r)) = Len(p) + 1 + 1 /\ Append(Append(p, d), r)[Len(p) + 1 + 1] = r
      /\ \A i \in 1..(Len(p) + 1) : Append(Append(p, d), r)[i] = Append(p, d)[i]
  BY <1>2, <1>3, AppendProperties
<1>5. p = <<>> => Len(p) = 0
  BY EmptySeq
<1> QED
  BY <1>1, <1>3, <1>4, <1>5 DEF r, d

LEMMA BodyActsStep == IInv /\ BodyActs => IInv'
<1> SUFFICES ASSUME IInv, BodyActs PROVE IInv'
  OBVIOUS
<1>0. /\ TypeOK /\ SafetyParts /\ wire \in Seq(Commands) /\ pipe \in Seq(Containers) /\ wire # <<>>
  BY Parts DEF BodyActs, TypeOK
<1> DEFINE c == Head(wire)
<1>1. /\ c \in Commands /\ c = wire[1] /\ Tail(wire) \in Seq(Commands)
      /\ Len(wire) \in Nat \ {0} /\ (Len(wire) = 1 => Tail(wire) = <<>>)
  <2>1. Len(wire) = 1 => Len(Tail(wire)) = 0
    BY <1>0, HeadTailProperties
  <2>2. c \in Commands /\ c = wire[1] /\ Tail(wire) \in Seq(Commands) /\ Len(wire) \in Nat \ {0}
    BY <1>0, HeadTailProperties, EmptySeq
  <2> QED
    BY <2>1, <2>2, EmptySeq
<1>2. /\ c.whole /\ wire' = Tail(wire)
      /\ UNCHANGED <<sess, isOpen, poisoned, txid, cur, clean, fresh, job, at, report, foreign, matched, txnVars, bounds>>
  BY DEF BodyActs
<1>3. \/ /\ c.step \in {"open", "close"}
         /\ bodyOpen' \in BOOLEAN /\ UNCHANGED <<acted, trouble>>
         /\ \E code \in {"ok", "already", "refused"} : pipe' = Append(pipe, Response(c, code))
      \/ /\ NeedsData(c.step)
         /\ UNCHANGED <<bodyOpen, acted, trouble>>
         /\ \/ pipe' = Append(Append(pipe, DataOf(c)), Response(c, "ok"))
            \/ pipe' = Append(pipe, Response(c, "ok"))
      \/ /\ Changes(c.step) \/ c.step = "ftp_setup"
         /\ UNCHANGED <<bodyOpen, trouble>>
         /\ pipe' = Append(pipe, Response(c, "ok"))
         /\ acted' = (acted \/ (Changes(c.step) /\ c.age # "past"))
      \/ /\ trouble' = TRUE /\ UNCHANGED <<bodyOpen, acted>>
         /\ pipe' = Append(pipe, Response(c, "refused"))
  BY DEF BodyActs
<1> HIDE DEF c
<1>4. PendingIn(Tail(wire)) => PendingIn(wire)
  BY <1>0, <1>1, PendingMoves
<1>5. ~PendingIn(wire) => acted' = acted
  <2>1. ~PendingIn(wire) => ~(Changes(c.step) /\ c.age # "past")
    BY <1>1, <1>2 DEF PendingIn
  <2> QED
    BY <1>0, <1>3, <2>1 DEF TypeOK
<1>6. acted => acted'
  BY <1>0, <1>3
<1> DEFINE One(code) == Append(pipe, Response(c, code))
           Two == Append(Append(pipe, DataOf(c)), Response(c, "ok"))
<1>15. \A code \in {"ok", "already", "refused"} :
         /\ One(code) \in Seq(Containers) /\ One(code) # <<>>
         /\ pipe = <<>> => /\ Len(One(code)) = 1 /\ One(code)[1].kind = "response"
                           /\ One(code)[1].age = c.age /\ One(code)[1].code = code
  BY <1>0, <1>1, AnswerOf
<1>16. /\ Two \in Seq(Containers) /\ Two # <<>>
       /\ pipe = <<>> => /\ Len(Two) = 2 /\ Two[1].kind = "data" /\ Two[1].age = c.age
                         /\ Two[2].kind = "response" /\ Two[2].age = c.age
  <2>1. "ok" \in {"ok", "already", "refused"}
    OBVIOUS
  <2> QED
    BY <1>0, <1>1, <2>1, AnswerOf
<1>17. (\E code \in {"ok", "already", "refused"} : pipe' = One(code)) \/ pipe' = Two
  BY <1>3
<1> HIDE DEF One, Two
<1>7. pipe' \in Seq(Containers) /\ pipe' # <<>>
  BY <1>15, <1>16, <1>17
<1>8. (Pending' <=> PendingIn(wire')) /\ (Pending <=> PendingIn(wire))
  BY DEF Pending, PendingIn
<1>9. ControlOK'
  BY <1>0, <1>2 DEF TypeOK, ControlOK
<1>10. RestOK'
  <2>1. acted' \in BOOLEAN /\ trouble' \in BOOLEAN /\ bodyOpen' \in BOOLEAN
    BY <1>0, <1>3 DEF TypeOK
  <2> QED
    BY <1>0, <1>1, <1>2, <1>7, <2>1 DEF TypeOK, RestOK, txnVars, bounds
<1>11. InStep'
  <2> SUFFICES ASSUME clean, sess, ~poisoned PROVE phase = "reply" /\ Answered'
    BY <1>2 DEF InStep, txnVars
  <2>1. phase = "reply" /\ Asked
    BY <1>0, <1>1, <1>2 DEF SafetyParts, InStep, AtRest, InData, Answered, TypeOK
  <2>2. job # "none"
    BY <1>0, <2>1 DEF SafetyParts, RunsInSession
  <2>3. wire' = <<>> /\ pipe = <<>> /\ c.age = "txn" /\ c.step = Step /\ Step' = Step
    BY <1>1, <1>2, <2>1 DEF Asked, Step
  <2>4. Changes(Step) => ~acted /\ ~NeedsData(Step)
    BY <1>0, <2>1, <2>2, <2>3, ScriptFacts DEF SafetyParts, WriteInOrder
  <2>5. Step \in {"open", "close", "ftp_setup"} => ~Changes(Step)
    BY DEF Changes
  <2>6. CASE \E code \in {"ok", "already", "refused"} :
                /\ pipe' = Append(pipe, Response(c, code))
                /\ Changes(Step) => (code = "ok") = acted'
    <3>1. PICK code \in {"ok", "already", "refused"} :
             pipe' = Append(pipe, Response(c, code)) /\ (Changes(Step) => (code = "ok") = acted')
      BY <2>6
    <3>2. Len(pipe') = 1 /\ pipe'[1].kind = "response" /\ pipe'[1].age = "txn" /\ pipe'[1].code = code
      BY <1>15, <2>3, <3>1 DEF One
    <3> QED
      BY <2>1, <2>3, <3>1, <3>2 DEF Answered
  <2>7. CASE pipe' = Append(Append(pipe, DataOf(c)), Response(c, "ok")) /\ ~Changes(Step)
    <3>1. /\ Len(pipe') = 2 /\ pipe'[1].kind = "data" /\ pipe'[1].age = "txn"
          /\ pipe'[2].kind = "response" /\ pipe'[2].age = "txn"
      BY <1>16, <2>3, <2>7 DEF Two
    <3> QED
      BY <2>1, <2>3, <2>7, <3>1 DEF Answered
  <2>8. Changes(Step) => (acted' = TRUE /\ pipe' = Append(pipe, Response(c, "ok"))) \/ (~acted' /\ pipe' = Append(pipe, Response(c, "refused")))
    BY <1>3, <2>3, <2>4, <2>5
  <2>9. CASE Changes(Step)
    <3>1. CASE acted' = TRUE /\ pipe' = Append(pipe, Response(c, "ok"))
      <4>1. ("ok" = "ok") = acted'
        BY <3>1
      <4> QED
        BY <2>6, <3>1, <4>1
    <3>2. CASE ~acted' /\ pipe' = Append(pipe, Response(c, "refused"))
      <4>1. ("refused" = "ok") = acted'
        BY <1>0, <3>2, <1>3 DEF TypeOK
      <4> QED
        BY <2>6, <3>2, <4>1
    <3> QED
      BY <2>8, <2>9, <3>1, <3>2
  <2>10. CASE ~Changes(Step)
    BY <1>3, <2>3, <2>6, <2>7, <2>10
  <2> QED
    BY <2>9, <2>10
<1>12. RunsInSession'
  BY <1>0, <1>2 DEF SafetyParts, RunsInSession, Step, txnVars
<1>13. WriteInOrder'
  BY <1>0, <1>2, <1>4, <1>5, <1>6, <1>7, <1>8 DEF SafetyParts, WriteInOrder, txnVars
<1>14. FailedMeansUnchanged' /\ OkMeansActed' /\ AnswersAreOwn'
  BY <1>0, <1>2, <1>4, <1>5, <1>6, <1>8 DEF SafetyParts, FailedMeansUnchanged, OkMeansActed, AnswersAreOwn
<1> QED
  BY <1>9, <1>10, <1>11, <1>12, <1>13, <1>14, PartsNext DEF SafetyParts

LEMMA BodyForgetsStep == IInv /\ BodyForgets => IInv'
<1> SUFFICES ASSUME IInv, BodyForgets PROVE IInv'
  OBVIOUS
<1> USE DEF BodyForgets
<1>0. /\ TypeOK /\ SafetyParts /\ wire \in Seq(Commands) /\ wire # <<>>
  BY Parts DEF TypeOK
<1>1. Head(wire) = wire[1] /\ Tail(wire) \in Seq(Commands) /\ (PendingIn(Tail(wire)) => PendingIn(wire)) /\ Len(wire) # 0
  <2>1. Head(wire) \in Commands /\ Tail(wire) \in Seq(Commands) /\ Len(wire) # 0
    BY <1>0, HeadTailProperties, EmptySeq
  <2> QED
    BY <1>0, <2>1, PendingMoves
<1>2. ControlOK' /\ RestOK'
  BY <1>0, <1>1 DEF TypeOK, ControlOK, RestOK, sessionVars, jobVars, txnVars, bounds
<1>3. (Pending' <=> PendingIn(wire')) /\ (Pending <=> PendingIn(wire)) /\ (Pending' => Pending)
  BY <1>1 DEF Pending, PendingIn
<1>4. ~(clean /\ sess /\ ~poisoned)
  BY <1>0, <1>1 DEF SafetyParts, InStep, AtRest, InData, Asked, Answered, TypeOK
<1>5. InStep' /\ RunsInSession'
  BY <1>0, <1>4 DEF SafetyParts, InStep, RunsInSession, Step, sessionVars, jobVars, txnVars
<1>6. WriteInOrder'
  BY <1>0, <1>3 DEF SafetyParts, WriteInOrder, sessionVars, jobVars, txnVars
<1>7. FailedMeansUnchanged' /\ OkMeansActed' /\ AnswersAreOwn'
  BY <1>0, <1>3 DEF SafetyParts, FailedMeansUnchanged, OkMeansActed, AnswersAreOwn, sessionVars, jobVars
<1> QED
  BY <1>2, <1>5, <1>6, <1>7, PartsNext DEF SafetyParts

---------------------------------------------------------------------------
(* The theorems.                                                           *)

LEMMA StutterStep == IInv /\ UNCHANGED vars => IInv'
<1> SUFFICES ASSUME IInv, UNCHANGED vars PROVE IInv'
  OBVIOUS
<1> USE DEF vars, sessionVars, jobVars, txnVars, bounds
<1>1. TypeOK'
  BY DEF IInv, TypeOK
<1>2. Step' = Step /\ (Pending' <=> Pending)
  BY DEF Step, Pending
<1>3. InStep' /\ RunsInSession' /\ WriteInOrder'
  BY <1>2 DEF IInv, InStep, RunsInSession, WriteInOrder, AtRest, InData, Asked, Answered
<1>4. AnswersAreOwn' /\ FailedMeansUnchanged' /\ OkMeansActed'
  BY <1>2 DEF IInv, AnswersAreOwn, FailedMeansUnchanged, OkMeansActed
<1> QED
  BY <1>1, <1>3, <1>4 DEF IInv

LEMMA StepHolds == IInv /\ [Next]_vars => IInv'
<1> SUFFICES ASSUME IInv, [Next]_vars PROVE IInv'
  OBVIOUS
<1>1. CASE \E o \in Operations : StartOp(o)
  BY <1>1, StartStep
<1> QED
  BY <1>1, StutterStep, BeginSessionStep, DropStep, DiesStep, RefusePoisonedStep, SendCommandStep, SendDataStep,
     CommandFailsStep, DataFailsStep, TimesOutStep, MismatchStep, TakeDataStep, TakeResponseStep,
     TakeMalformedStep, BodyActsStep, BodyForgetsStep DEF Next

LEMMA Invariance == Spec => []IInv
<1> QED
  BY InitHolds, StepHolds, PTL DEF Spec

---------------------------------------------------------------------------
(* Opening a session.                                                      *)

LEMMA OpenInit == Init => OpenInv
BY DEF Init, OpenInv, OpenInOrder, OpenFailsForCause, NoReport

\* Where something went wrong, nothing is claimed of the opening.
LEMMA OpenTroubled ==
    ASSUME trouble'
    PROVE  OpenInv'
BY DEF OpenInv, OpenInOrder, OpenFailsForCause

\* Nor is it of another job.
LEMMA OpenElsewhere ==
    ASSUME OpenInv, job' # "open", report'.of = "open" => report' = report,
           fresh' = fresh, trouble' = trouble, poisoned' => poisoned
    PROVE  OpenInv'
BY DEF OpenInv, OpenInOrder, OpenFailsForCause

\* What the invariants say of a session that opens in order.
LEMMA WhileOpening ==
    ASSUME IInv, OpenInv, job = "open", fresh, ~trouble
    PROVE  /\ clean /\ sess /\ ~poisoned /\ report = NoReport
           /\ at \in {1, 2, 3}
           /\ Step = IF at = 2 THEN "close" ELSE "open"
           /\ phase \in {"rest", "reply"}
           /\ phase = "rest" => AtRest
           /\ phase = "reply" => Asked \/ Answered
           /\ pipe \in Seq(Containers) /\ wire \in Seq(Commands)
<1>0. TypeOK /\ SafetyParts
  BY Parts
<1>1. clean /\ sess /\ ~poisoned /\ report = NoReport
  BY <1>0 DEF OpenInv, OpenInOrder, SafetyParts, RunsInSession
<1>2. at \in 1..7 /\ at <= 3
  BY <1>0 DEF TypeOK, Script, OpenScript
<1>3. at \in {1, 2, 3}
  BY <1>2
<1>4. Step = IF at = 2 THEN "close" ELSE "open"
  BY <1>3 DEF Step, Script, OpenScript
<1>5. phase # "data"
  BY <1>0, <1>4 DEF SafetyParts, RunsInSession, HasData
<1>6. phase \in {"rest", "data", "reply"} /\ pipe \in Seq(Containers) /\ wire \in Seq(Commands)
  BY <1>0 DEF TypeOK
<1> QED
  BY <1>0, <1>1, <1>3, <1>4, <1>5, <1>6 DEF SafetyParts, InStep

LEMMA OpenBegins == IInv /\ OpenInv /\ BeginSession => OpenInv'
<1> SUFFICES ASSUME IInv, OpenInv, BeginSession PROVE OpenInv'
  OBVIOUS
<1>1. phase = "rest"
  BY Parts DEF BeginSession, TypeOK, SafetyParts, RunsInSession
<1> QED
  BY <1>1 DEF BeginSession, OpenInv, OpenInOrder, OpenFailsForCause, NoReport, txnVars

\* The command is on its way; what is known of the body stays so.
LEMMA OpenSends == IInv /\ OpenInv /\ (SendCommand \/ SendData) => OpenInv'
<1> SUFFICES ASSUME IInv, OpenInv, SendCommand \/ SendData PROVE OpenInv'
  OBVIOUS
<1>1. /\ UNCHANGED <<job, at, report, fresh, trouble, poisoned, clean, bodyOpen, pipe>>
      /\ phase \in {"rest", "data"}
  BY DEF SendCommand, SendData, Running, jobVars, sessionVars
<1>2. CASE job # "open"
  BY <1>1, <1>2, OpenElsewhere
<1>3. CASE ~fresh \/ trouble
  BY <1>1, <1>3 DEF OpenInv, OpenInOrder, OpenFailsForCause
<1>4. CASE job = "open" /\ fresh /\ ~trouble
  <2>1. pipe = <<>> /\ report = NoReport
    BY <1>1, <1>4, WhileOpening DEF AtRest
  <2> QED
    BY <1>1, <1>4, <2>1 DEF OpenInv, OpenInOrder, OpenFailsForCause, NoReport
<1> QED
  BY <1>2, <1>3, <1>4

LEMMA OpenTakesData == IInv /\ OpenInv /\ TakeData => OpenInv'
<1> SUFFICES ASSUME IInv, OpenInv, TakeData PROVE OpenInv'
  OBVIOUS
<1>1. /\ UNCHANGED <<job, at, report, fresh, trouble, poisoned, clean, bodyOpen>>
      /\ phase = "reply" /\ pipe # <<>> /\ Head(pipe).kind = "data" /\ phase' = phase
  BY DEF TakeData, sessionVars
<1>2. CASE job # "open"
  BY <1>1, <1>2, OpenElsewhere
<1>3. CASE ~fresh \/ trouble
  BY <1>1, <1>3 DEF OpenInv, OpenInOrder, OpenFailsForCause
<1>4. CASE job = "open" /\ fresh /\ ~trouble
  <2>1. pipe \in Seq(Containers) /\ at \in {1, 2, 3} /\ report = NoReport
    BY <1>4, WhileOpening
  <2>2. Head(pipe) = pipe[1]
    BY <2>1, <1>1, HeadTailProperties
  <2>3. at = 2 /\ ~bodyOpen
    BY <1>1, <1>4, <2>1, <2>2 DEF OpenInv, OpenInOrder
  <2> QED
    BY <1>1, <1>4, <2>1, <2>3 DEF OpenInv, OpenInOrder, OpenFailsForCause, NoReport
<1> QED
  BY <1>2, <1>3, <1>4

\* The answer to each of the three transactions, as the body gave it.
LEMMA OpenTakesResponse == IInv /\ OpenInv /\ TakeResponse => OpenInv'
<1> SUFFICES ASSUME IInv, OpenInv, TakeResponse PROVE OpenInv'
  OBVIOUS
<1> DEFINE code == Head(pipe).code
<1>1. /\ phase = "reply" /\ pipe # <<>> /\ Head(pipe).kind = "response" /\ phase' = "rest"
      /\ wire' = OlderCommands(wire) /\ pipe' = PastContainers(Tail(pipe))
      /\ \/ job = "open" /\ OpenAnswered(code)
         \/ job = "drop" /\ EndJob("ok")
         \/ job \in Operations /\ \E useful \in BOOLEAN : OpAnswered(code, useful)
      /\ poisoned' = (poisoned /\ ~(job = "open" /\ at = 2))
      /\ fresh' = fresh /\ trouble' = trouble /\ bodyOpen' = bodyOpen
  BY DEF TakeResponse
<1>2. CASE job # "open"
  <2>0. ASSUME NEW what, EndJob(what) PROVE report'.of = job
    BY <2>0 DEF EndJob
  <2>1. report' = report \/ report'.of = job
    <3>1. ASSUME NEW useful \in BOOLEAN, OpAnswered(code, useful)
          PROVE  report' = report \/ report'.of = job
      BY <3>1, <2>0 DEF OpAnswered
    <3> QED
      BY <1>1, <1>2, <2>0, <3>1
  <2>2. job' = job \/ job' = "none"
    BY <1>1, <1>2 DEF EndJob, OpAnswered
  <2> QED
    BY <1>1, <1>2, <2>1, <2>2, OpenElsewhere
<1>3. CASE trouble
  BY <1>1, <1>3, OpenTroubled
<1>4. CASE ~trouble /\ ~fresh
  BY <1>1, <1>4 DEF OpenInv, OpenInOrder, OpenFailsForCause
<1>5. CASE job = "open" /\ fresh /\ ~trouble
  <2>1. /\ clean /\ ~poisoned /\ at \in {1, 2, 3} /\ report = NoReport
        /\ pipe \in Seq(Containers) /\ wire \in Seq(Commands)
    BY <1>5, WhileOpening
  <2>2. Head(pipe) = pipe[1]
    BY <2>1, <1>1, HeadTailProperties
  <2>3. wire' = <<>> /\ pipe' = <<>>
    <3>1. wire = <<>> /\ Tail(pipe) = <<>> /\ Tail(pipe) \in Seq(Containers)
      BY <1>1, <2>1, Parts, TakenFacts DEF TakeResponse
    <3> QED
      BY <3>1, <1>1, <2>1, Ageing, AgeingContainers
  <2>4. OpenAnswered(code)
    BY <1>1, <1>5 DEF Operations
  <2>5. CASE at = 1
    <3>1. code \in {"ok", "already"}
      BY <1>1, <1>5, <2>2, <2>5 DEF OpenInv, OpenInOrder
    <3>2. EndJob("ok") \/ (Reopen(2) /\ UNCHANGED clean)
      BY <2>4, <2>5, <3>1 DEF OpenAnswered
    <3>3. CASE EndJob("ok")
      BY <1>1, <1>5, <2>1, <3>3 DEF EndJob, OpenInv, OpenInOrder, OpenFailsForCause
    <3>4. CASE Reopen(2) /\ UNCHANGED clean
      <4>1. at' = 2 /\ report' = NoReport /\ clean' /\ ~poisoned' /\ phase' = "rest"
        BY <1>1, <2>1, <3>4 DEF Reopen
      <4>2. OpenInOrder'
        BY <4>1 DEF OpenInOrder
      <4>3. OpenFailsForCause'
        BY <4>1 DEF OpenFailsForCause, NoReport
      <4> QED
        BY <4>2, <4>3 DEF OpenInv
    <3> QED
      BY <3>2, <3>3, <3>4
  <2>6. CASE at = 2
    <3>1. ~bodyOpen
      BY <1>1, <1>5, <2>6 DEF OpenInv, OpenInOrder
    <3>2. Reopen(3) /\ clean' = (clean /\ wire' = <<>> /\ pipe' = <<>>)
      BY <2>4, <2>6 DEF OpenAnswered
    <3> QED
      BY <1>1, <1>5, <2>1, <2>3, <3>1, <3>2 DEF Reopen, OpenInv, OpenInOrder, OpenFailsForCause, NoReport
  <2>7. CASE at = 3
    <3>1. code = "ok"
      BY <1>1, <1>5, <2>2, <2>7 DEF OpenInv, OpenInOrder
    <3>2. EndJob("ok")
      BY <2>4, <2>7, <3>1 DEF OpenAnswered
    <3> QED
      BY <1>1, <1>5, <2>1, <3>2 DEF EndJob, OpenInv, OpenInOrder, OpenFailsForCause
  <2> QED
    BY <2>1, <2>5, <2>6, <2>7
<1> QED
  BY <1>2, <1>3, <1>4, <1>5

\* The body acts on the command of the opening, the only one there is.
LEMMA OpenBodyActs == IInv /\ OpenInv /\ BodyActs => OpenInv'
<1> SUFFICES ASSUME IInv, OpenInv, BodyActs PROVE OpenInv'
  OBVIOUS
<1>1. /\ UNCHANGED <<poisoned, clean, fresh, job, at, report, phase>>
      /\ wire # <<>> /\ (trouble' = trouble \/ trouble')
  BY DEF BodyActs, txnVars
<1>2. CASE trouble'
  BY <1>2, OpenTroubled
<1>3. CASE ~trouble' /\ (job # "open" \/ ~fresh)
  BY <1>1, <1>3 DEF OpenInv, OpenInOrder, OpenFailsForCause
<1>4. CASE ~trouble' /\ job = "open" /\ fresh
  <2>1. /\ ~trouble /\ clean /\ ~poisoned /\ at \in {1, 2, 3} /\ report = NoReport
        /\ pipe \in Seq(Containers) /\ wire \in Seq(Commands)
        /\ Step = IF at = 2 THEN "close" ELSE "open"
    BY <1>1, <1>4, WhileOpening
  <2>2. phase = "reply" /\ Asked
    BY <1>1, <1>4, <2>1, WhileOpening DEF AtRest, Answered
  <2> DEFINE c == Head(wire)
  <2>3. c \in Commands /\ c.step = Step /\ pipe = <<>>
    BY <1>1, <2>1, <2>2, HeadTailProperties DEF Asked
  <2>4. \/ /\ c.step = "open" /\ bodyOpen' = TRUE
           /\ pipe' = Append(pipe, Response(c, IF bodyOpen THEN "already" ELSE "ok"))
        \/ /\ c.step = "close" /\ bodyOpen' = FALSE
           /\ pipe' = Append(pipe, Response(c, IF bodyOpen THEN "ok" ELSE "refused"))
        \/ NeedsData(c.step) \/ Changes(c.step) \/ c.step = "ftp_setup" \/ trouble'
    BY DEF BodyActs
  <2> HIDE DEF c
  <2>5. ASSUME NEW code \in {"ok", "already", "refused"}, pipe' = Append(pipe, Response(c, code))
        PROVE  pipe' # <<>> /\ pipe'[1].kind = "response" /\ pipe'[1].code = code
    <3>1. c \in Commands /\ pipe \in Seq(Containers) /\ code \in {"ok", "already", "refused"} /\ pipe = <<>>
      BY <2>1, <2>3, <2>5
    <3>2. /\ Append(pipe, Response(c, code)) # <<>>
          /\ Append(pipe, Response(c, code))[1] = Response(c, code)
      BY <3>1, AnswerOf
    <3>3. Response(c, code).kind = "response" /\ Response(c, code).code = code
      BY DEF Response
    <3> QED
      BY <3>2, <3>3, <2>5
  <2>6. ~NeedsData(Step) /\ ~Changes(Step) /\ Step # "ftp_setup"
    BY <2>1 DEF NeedsData, Changes
  <2>7. CASE at = 2
    BY <1>1, <1>4, <2>1, <2>3, <2>4, <2>6, <2>7 DEF OpenInv, OpenInOrder, OpenFailsForCause, NoReport
  <2>8. CASE at # 2
    <3>1. PICK code \in {"ok", "already"} :
             pipe' = Append(pipe, Response(c, code)) /\ (at = 3 => code = "ok")
      BY <1>1, <1>4, <2>1, <2>3, <2>4, <2>6, <2>8 DEF OpenInv, OpenInOrder
    <3>2. pipe' # <<>> /\ pipe'[1].kind = "response" /\ pipe'[1].code = code
      BY <3>1, <2>5
    <3> QED
      BY <1>1, <1>4, <2>1, <2>8, <3>1, <3>2 DEF OpenInv, OpenInOrder, OpenFailsForCause, NoReport
  <2> QED
    BY <2>7, <2>8
<1> QED
  BY <1>2, <1>3, <1>4

LEMMA OpenBodyForgets == IInv /\ OpenInv /\ BodyForgets => OpenInv'
<1> SUFFICES ASSUME IInv, OpenInv, BodyForgets PROVE OpenInv'
  OBVIOUS
<1>1. /\ UNCHANGED <<sessionVars, jobVars, txnVars, pipe, bodyOpen>>
      /\ wire # <<>> /\ Head(wire).age # "txn"
  BY DEF BodyForgets
<1> QED
  BY <1>1 DEF OpenInv, OpenInOrder, OpenFailsForCause, sessionVars, jobVars, txnVars

LEMMA OpenStep == IInv /\ OpenInv /\ [Next]_vars => OpenInv'
<1> SUFFICES ASSUME IInv, OpenInv, [Next]_vars PROVE OpenInv'
  OBVIOUS
<1>1. CASE UNCHANGED vars
  BY <1>1 DEF vars, sessionVars, jobVars, txnVars, bounds, OpenInv, OpenInOrder, OpenFailsForCause
<1>2. CASE CommandFails \/ DataFails \/ TimesOut \/ Mismatch \/ TakeMalformed
  BY <1>2, OpenTroubled DEF CommandFails, DataFails, TimesOut, Mismatch, TakeMalformed, Trouble
<1>3. CASE RefusePoisoned
  BY <1>3, OpenTroubled DEF RefusePoisoned, OpenInv, OpenInOrder
<1>4. CASE Drop \/ Dies \/ \E o \in Operations : StartOp(o)
  BY <1>4, OpenElsewhere DEF Drop, Dies, StartOp, NoReport, sessionVars, Operations
<1> QED
  BY <1>1, <1>2, <1>3, <1>4, OpenBegins, OpenSends, OpenTakesData, OpenTakesResponse, OpenBodyActs,
     OpenBodyForgets DEF Next

---------------------------------------------------------------------------
(* A session that lags by one answer.                                      *)

\* s[a] to s[b] are one answer: its response, and the data before it.
AnswerAt(s, a, b) ==
    /\ b \in a..Len(s) /\ s[b].kind = "response"
    /\ \A i \in a..(b - 1) : s[i].kind = "data"

\* What the running transaction sent or is answered, and what an earlier one left, whose id is another
\* but for the two OpenSessions and the CloseSession.
Own(c, id) == c.age = "txn" /\ c.id = id
Left(c, id, j) == c.age # "txn" /\ (j # "open" => c.id # id)
Sent(c, id, step, ph) == Own(c, id) /\ c.step = step /\ (c.whole <=> ph # "data")
Outstanding(c, id) == c.age # "txn" /\ c.id = id

\* Between two transactions the answer of the last one is outstanding.
LagsAtRest ==
    \/ pipe = <<>> /\ Len(wire) = 1 /\ wire[1].whole /\ Outstanding(wire[1], cur)
    \/ wire = <<>> /\ AnswerAt(pipe, 1, Len(pipe)) /\ \A i \in 1..Len(pipe) : Outstanding(pipe[i], cur)

\* In a transaction that answer is first.
LagsUnanswered ==
    /\ pipe = <<>> /\ Len(wire) = 2
    /\ wire[1].whole /\ Left(wire[1], cur, job) /\ Sent(wire[2], cur, Step, phase)
LagsAnswered ==
    /\ Len(wire) = 1 /\ Sent(wire[1], cur, Step, phase)
    /\ AnswerAt(pipe, 1, Len(pipe)) /\ \A i \in 1..Len(pipe) : Left(pipe[i], cur, job)
LagsTwice ==
    /\ phase = "reply" /\ wire = <<>>
    /\ \E k \in 1..Len(pipe) :
         /\ AnswerAt(pipe, 1, k) /\ \A i \in 1..k : Left(pipe[i], cur, job)
         /\ AnswerAt(pipe, k + 1, Len(pipe)) /\ \A i \in (k + 1)..Len(pipe) : Own(pipe[i], cur)
LagsBusy == LagsUnanswered \/ LagsAnswered \/ LagsTwice

\* The ids of a session follow one another from an OpenSession on.
IdsFollow ==
    sess =>
        /\ job = "open" /\ phase = "rest" => txid = 0
        /\ job = "open" /\ phase # "rest" => cur = 0
        /\ job # "open" => cur < MaxId
        /\ job # "open" \/ phase # "rest" => txid = NextId(cur)

\* In a session that is in step there is no other id, and a command that is to be answered is whole.
OwnIds ==
    clean /\ sess /\ ~poisoned /\ phase # "rest" =>
        /\ \A i \in 1..Len(wire) : wire[i].id = cur /\ (phase = "reply" => wire[i].whole)
        /\ \A i \in 1..Len(pipe) : pipe[i].id = cur

Lags ==
    /\ job = "open" => at = 3
    /\ sess /\ ~poisoned => IF phase = "rest" THEN LagsAtRest ELSE LagsBusy
Lagging == fresh /\ ~clean => Lags

\* An operation that lags has had no reply yet, or one that did not match.
NothingUnnoticed ==
    fresh /\ ~clean =>
        /\ foreign => ~matched
        /\ job # "none" /\ (job \in Operations => matched) => ~acted /\ ~PendingIn(wire)
        /\ job \in Operations /\ matched => at = 1
        /\ report.what = "failed" /\ matched => ~acted /\ ~PendingIn(wire)
        /\ report.what = "ok" /\ report.of \in Operations \ {"get"} /\ matched => acted

LagInv == IdsFollow /\ OwnIds /\ Lagging /\ NothingUnnoticed

---------------------------------------------------------------------------
(* Answers in a pipe.                                                      *)

\* An answer begins with its response or goes on behind its data.
LEMMA AnswerFirst ==
    ASSUME NEW s \in Seq(Containers), s # <<>>, NEW b, AnswerAt(s, 1, b)
    PROVE  /\ Head(s) = s[1] /\ Tail(s) \in Seq(Containers) /\ Len(Tail(s)) = Len(s) - 1
           /\ \A i \in 1..Len(Tail(s)) : Tail(s)[i] = s[i + 1]
           /\ b \in 1..Len(s)
           /\ s[1].kind = "response" => b = 1
           /\ s[1].kind = "data" => b > 1 /\ AnswerAt(Tail(s), 1, b - 1)
<1>1. /\ Head(s) = s[1] /\ Tail(s) \in Seq(Containers) /\ Len(Tail(s)) = Len(s) - 1 /\ Len(s) \in Nat \ {0}
      /\ \A i \in 1..Len(Tail(s)) : Tail(s)[i] = s[i + 1]
  BY HeadTailProperties, EmptySeq, LenProperties
<1>2. b \in 1..Len(s) /\ s[b].kind = "response" /\ \A i \in 1..(b - 1) : s[i].kind = "data"
  BY DEF AnswerAt
<1>3. s[1].kind = "response" => b = 1
  BY <1>1, <1>2
<1>4. ASSUME s[1].kind = "data" PROVE b > 1 /\ AnswerAt(Tail(s), 1, b - 1)
  <2>1. b > 1
    BY <1>2, <1>4
  <2>2. b - 1 \in 1..Len(Tail(s)) /\ Tail(s)[b - 1] = s[b]
    BY <1>1, <1>2, <2>1
  <2>3. \A i \in 1..((b - 1) - 1) : Tail(s)[i] = s[i + 1] /\ i + 1 \in 1..(b - 1)
    BY <1>1, <1>2
  <2> QED
    BY <1>2, <2>1, <2>2, <2>3 DEF AnswerAt
<1> QED
  BY <1>1, <1>2, <1>3, <1>4

\* An answer further back moves up.
LEMMA AnswerMovesUp ==
    ASSUME NEW s \in Seq(Containers), s # <<>>, NEW a \in Nat, a > 1, NEW b, AnswerAt(s, a, b)
    PROVE  AnswerAt(Tail(s), a - 1, b - 1)
<1>1. /\ Len(Tail(s)) = Len(s) - 1 /\ Len(s) \in Nat \ {0}
      /\ \A i \in 1..Len(Tail(s)) : Tail(s)[i] = s[i + 1]
  BY HeadTailProperties, EmptySeq, LenProperties
<1>2. b \in a..Len(s) /\ s[b].kind = "response" /\ \A i \in a..(b - 1) : s[i].kind = "data"
  BY DEF AnswerAt
<1>3. b - 1 \in (a - 1)..Len(Tail(s)) /\ Tail(s)[b - 1] = s[b]
  BY <1>1, <1>2
<1>4. \A i \in (a - 1)..((b - 1) - 1) : Tail(s)[i] = s[i + 1] /\ i + 1 \in a..(b - 1)
  BY <1>1, <1>2
<1> QED
  BY <1>2, <1>3, <1>4 DEF AnswerAt

\* Ageing changes no answer, only whose it is.
LEMMA PastAnswers ==
    ASSUME NEW s \in Seq(Containers)
    PROVE  /\ PastContainers(s) \in Seq(Containers) /\ Len(PastContainers(s)) = Len(s)
           /\ \A i \in 1..Len(s) : /\ PastContainers(s)[i].id = s[i].id
                                   /\ PastContainers(s)[i].kind = s[i].kind
                                   /\ PastContainers(s)[i].age = "past"
           /\ \A a, b : a \in Nat \ {0} /\ AnswerAt(s, a, b) => AnswerAt(PastContainers(s), a, b)
           /\ s = <<>> => PastContainers(s) = <<>>
<1>1. Len(s) \in Nat /\ PastContainers(s) \in Seq(Containers) /\ (s = <<>> => PastContainers(s) = <<>>)
  BY LenProperties, AgeingContainers
<1>2. PastContainers(s) = [i \in 1..Len(s) |-> Container(s[i], "past")]
  BY DEF PastContainers
<1>3. Len(PastContainers(s)) = Len(s)
  BY <1>1, <1>2, LenProperties
<1>4. \A i \in 1..Len(s) : /\ PastContainers(s)[i].id = s[i].id
                           /\ PastContainers(s)[i].kind = s[i].kind
                           /\ PastContainers(s)[i].age = "past"
  BY <1>2 DEF Container
<1>5. ASSUME NEW a \in Nat \ {0}, NEW b, AnswerAt(s, a, b) PROVE AnswerAt(PastContainers(s), a, b)
  <2>1. b \in a..Len(s) /\ s[b].kind = "response" /\ \A i \in a..(b - 1) : s[i].kind = "data"
    BY <1>5 DEF AnswerAt
  <2>2. b \in 1..Len(s) /\ \A i \in a..(b - 1) : i \in 1..Len(s)
    BY <1>1, <2>1
  <2> QED
    BY <1>3, <1>4, <2>1, <2>2 DEF AnswerAt
<1> QED
  BY <1>1, <1>3, <1>4, <1>5

\* ... and of commands.
LEMMA AgedCommands ==
    ASSUME NEW s \in Seq(Commands)
    PROVE  /\ Len(OlderCommands(s)) = Len(s) /\ Len(PastCommands(s)) = Len(s)
           /\ \A i \in 1..Len(s) :
                /\ OlderCommands(s)[i].id = s[i].id /\ OlderCommands(s)[i].whole = s[i].whole
                /\ OlderCommands(s)[i].age # "txn"
                /\ PastCommands(s)[i].id = s[i].id /\ PastCommands(s)[i].whole = s[i].whole
                /\ PastCommands(s)[i].age = "past"
           /\ s = <<>> => OlderCommands(s) = <<>> /\ PastCommands(s) = <<>>
<1>1. Len(s) \in Nat /\ OlderCommands(s) \in Seq(Commands) /\ PastCommands(s) \in Seq(Commands)
  BY LenProperties, Ageing
<1>2. /\ OlderCommands(s) = [i \in 1..Len(s) |-> Aged(s[i], Older(s[i].age))]
      /\ PastCommands(s) = [i \in 1..Len(s) |-> Aged(s[i], "past")]
  BY DEF OlderCommands, PastCommands
<1>3. Len(OlderCommands(s)) = Len(s) /\ Len(PastCommands(s)) = Len(s)
  BY <1>1, <1>2, LenProperties
<1>4. \A i \in 1..Len(s) :
        /\ OlderCommands(s)[i].id = s[i].id /\ OlderCommands(s)[i].whole = s[i].whole
        /\ OlderCommands(s)[i].age # "txn"
        /\ PastCommands(s)[i].id = s[i].id /\ PastCommands(s)[i].whole = s[i].whole
        /\ PastCommands(s)[i].age = "past"
  BY <1>2 DEF Aged, Older
<1>5. s = <<>> => OlderCommands(s) = <<>> /\ PastCommands(s) = <<>>
  BY <1>1, <1>3, EmptySeq
<1> QED
  BY <1>3, <1>4, <1>5

\* What the body answers: a response, or its data and then the response, behind what is in the pipe.
Answers(c, s, t) ==
    \E code \in {"ok", "already", "refused"} :
        t = Append(s, Response(c, code)) \/ t = Append(Append(s, DataOf(c)), Response(c, code))

\* The body's answer comes behind the others.
LEMMA AnswerAdded ==
    ASSUME NEW s \in Seq(Containers), NEW c \in Commands, NEW t, Answers(c, s, t)
    PROVE  /\ t \in Seq(Containers) /\ Len(t) > Len(s)
           /\ \A i \in 1..Len(s) : t[i] = s[i]
           /\ \A i \in (Len(s) + 1)..Len(t) : t[i].id = c.id /\ t[i].age = c.age
           /\ AnswerAt(t, Len(s) + 1, Len(t))
           /\ \A b : AnswerAt(s, 1, b) => AnswerAt(t, 1, b)
<1>1. PICK code \in {"ok", "already", "refused"} :
         t = Append(s, Response(c, code)) \/ t = Append(Append(s, DataOf(c)), Response(c, code))
  BY DEF Answers
<1>2. /\ Response(c, code) \in Containers /\ Response(c, code).kind = "response"
      /\ Response(c, code).id = c.id /\ Response(c, code).age = c.age
      /\ DataOf(c) \in Containers /\ DataOf(c).kind = "data" /\ DataOf(c).id = c.id /\ DataOf(c).age = c.age
  BY DEF Response, DataOf, Containers, Commands
<1> HIDE DEF Response, DataOf
<1>3. Len(s) \in Nat
  BY LenProperties
<1>4. /\ t \in Seq(Containers) /\ Len(t) > Len(s) /\ Len(t) \in Nat
      /\ \A i \in 1..Len(s) : t[i] = s[i]
      /\ \A i \in (Len(s) + 1)..Len(t) : t[i].id = c.id /\ t[i].age = c.age
      /\ t[Len(t)].kind = "response"
      /\ \A i \in (Len(s) + 1)..(Len(t) - 1) : t[i].kind = "data"
  <2>1. CASE t = Append(s, Response(c, code))
    <3>1. /\ t \in Seq(Containers) /\ Len(t) = Len(s) + 1 /\ t[Len(s) + 1] = Response(c, code)
          /\ \A i \in 1..Len(s) : t[i] = s[i]
      BY <1>2, <2>1, AppendProperties
    <3>2. \A i \in (Len(s) + 1)..Len(t) : i = Len(s) + 1
      BY <1>3, <3>1
    <3> QED
      BY <1>2, <1>3, <3>1, <3>2
  <2>2. CASE t = Append(Append(s, DataOf(c)), Response(c, code))
    <3> DEFINE u == Append(s, DataOf(c))
    <3>1. /\ u \in Seq(Containers) /\ Len(u) = Len(s) + 1 /\ u[Len(s) + 1] = DataOf(c)
          /\ \A i \in 1..Len(s) : u[i] = s[i]
      BY <1>2, AppendProperties
    <3> HIDE DEF u
    <3>2. /\ t \in Seq(Containers) /\ Len(t) = Len(u) + 1 /\ t[Len(u) + 1] = Response(c, code)
          /\ \A i \in 1..Len(u) : t[i] = u[i]
      BY <1>2, <2>2, <3>1, AppendProperties DEF u
    <3>3. \A i \in (Len(s) + 1)..Len(t) : i = Len(s) + 1 \/ i = Len(s) + 2
      BY <1>3, <3>1, <3>2
    <3>4. t[Len(s) + 1] = DataOf(c) /\ t[Len(s) + 2] = Response(c, code) /\ Len(t) = Len(s) + 2
      BY <1>3, <3>1, <3>2
    <3> QED
      BY <1>2, <1>3, <3>1, <3>2, <3>3, <3>4
  <2> QED
    BY <1>1, <2>1, <2>2
<1>5. AnswerAt(t, Len(s) + 1, Len(t))
  BY <1>3, <1>4 DEF AnswerAt
<1>6. ASSUME NEW b, AnswerAt(s, 1, b) PROVE AnswerAt(t, 1, b)
  BY <1>3, <1>4, <1>6 DEF AnswerAt
<1> QED
  BY <1>4, <1>5, <1>6

---------------------------------------------------------------------------
(* Ends of transactions, and ids.                                          *)

\* The next id is another id, below the reserved one.
LEMMA NextIdFacts ==
    ASSUME NEW id \in 0..MaxId
    PROVE  NextId(id) < MaxId /\ (id < MaxId => NextId(id) # id)
BY SessionAssumption DEF NextId

\* A step that fails tries OpenSession again or ends its job, and with it the session but for an operation's.
LEMMA FailedEnds ==
    ASSUME TypeOK, job # "none", NEW sure, NEW next, StepFails(sure, next)
    PROVE  \/ /\ job = "open" /\ at = 2
              /\ job' = job /\ at' = 3 /\ sess' = sess /\ report' = report /\ txid' = 0
              /\ clean' = (clean /\ wire' = <<>> /\ pipe' = <<>>)
           \/ /\ ~(job = "open" /\ at = 2)
              /\ job' = "none" /\ txid' = next /\ clean' = clean /\ sess' = (job \in Operations)
              /\ report' = [of |-> job, what |-> IF job = "open" THEN "failed"
                                                 ELSE IF job = "drop" THEN "ok" ELSE FailedOutcome(sure)]
<1> USE DEF StepFails, Reopen, EndJob
<1>1. job \in Operations \/ job = "open" \/ job = "drop"
  BY DEF TypeOK, Jobs
<1>2. CASE job \in Operations
  BY <1>2 DEF Operations
<1>3. CASE job = "open"
  BY <1>3 DEF Operations
<1>4. CASE job = "drop"
  BY <1>4 DEF Operations
<1> QED
  BY <1>1, <1>2, <1>3, <1>4

\* A response goes on with its job or ends it.
LEMMA AnsweredEnds ==
    ASSUME TypeOK, job # "none", TakeResponse
    PROVE  \/ /\ job = "open" /\ at = 1
              /\ job' = job /\ at' = 2 /\ sess' = sess /\ report' = report /\ txid' = 0 /\ clean' = clean
           \/ /\ job = "open" /\ at = 2
              /\ job' = job /\ at' = 3 /\ sess' = sess /\ report' = report /\ txid' = 0
              /\ clean' = (clean /\ wire' = <<>> /\ pipe' = <<>>)
           \/ /\ job \in Operations
              /\ job' = job /\ sess' = sess /\ report' = report /\ txid' = txid /\ clean' = clean
           \/ /\ ~(job = "open" /\ at = 2)
              /\ job' = "none" /\ txid' = txid /\ clean' = clean /\ report'.of = job
              /\ job = "drop" => report'.what = "ok" /\ ~sess'
<1> DEFINE code == Head(pipe).code
<1>1. job \in Operations \/ job = "open" \/ job = "drop"
  BY DEF TypeOK, Jobs
<1>2. CASE job \in Operations
  <2>1. PICK useful \in BOOLEAN : OpAnswered(code, useful)
    BY <1>2 DEF TakeResponse, Operations
  <2>2. ASSUME NEW what, EndJob(what) PROVE job' = "none" /\ clean' = clean /\ report'.of = job
    BY <2>2 DEF EndJob
  <2>3. job # "drop" /\ job # "open"
    BY <1>2 DEF Operations
  <2>4. \/ UNCHANGED <<job, report, sess, txid, clean>>
        \/ EndJob("ok") /\ UNCHANGED txid
        \/ EndJob(FailedOutcome(TRUE)) /\ UNCHANGED txid
    BY <2>1 DEF OpAnswered
  <2> QED
    BY <1>2, <2>2, <2>3, <2>4
<1>3. CASE job = "open"
  <2>1. OpenAnswered(code)
    BY <1>3 DEF TakeResponse, Operations
  <2> QED
    BY <1>3, <2>1 DEF OpenAnswered, Reopen, EndJob
<1>4. CASE job = "drop"
  <2>1. EndJob("ok") /\ UNCHANGED txid
    BY <1>4 DEF TakeResponse, Operations
  <2> QED
    BY <1>4, <2>1 DEF EndJob
<1> QED
  BY <1>1, <1>2, <1>3, <1>4

\* After a failed step the ids go on, or start again.
LEMMA IdsAfterFailure ==
    ASSUME TypeOK, job # "none", NEW sure, NEW next, StepFails(sure, next), phase' = "rest",
           job # "open" => cur' < MaxId /\ next = NextId(cur')
    PROVE  IdsFollow'
BY FailedEnds DEF IdsFollow, Operations

\* The ids follow one another.
LEMMA IdsStep == IInv /\ IdsFollow /\ [Next]_vars => IdsFollow'
<1> SUFFICES ASSUME IInv, IdsFollow, [Next]_vars PROVE IdsFollow'
  OBVIOUS
<1>0. TypeOK /\ cur \in 0..MaxId /\ txid \in 0..MaxId /\ (job # "none" => sess) /\ (phase # "rest" => job # "none" /\ sess)
  BY Parts DEF TypeOK, SafetyParts, RunsInSession
<1>1. ASSUME UNCHANGED <<sess, job, phase, txid, cur>> PROVE IdsFollow'
  BY <1>1 DEF IdsFollow
<1>2. CASE UNCHANGED vars \/ TakeData \/ BodyActs \/ BodyForgets
  BY <1>1, <1>2 DEF vars, sessionVars, jobVars, txnVars, TakeData, BodyActs, BodyForgets
<1>3. CASE BeginSession
  <2>1. phase = "rest"
    BY <1>0, <1>3 DEF BeginSession
  <2> QED
    BY <1>3, <2>1 DEF BeginSession, IdsFollow, txnVars
<1>4. CASE Drop \/ Dies \/ \E o \in Operations : StartOp(o)
  <2>1. phase = "rest" \/ phase' = "rest"
    BY <1>0, <1>4 DEF Drop, Dies, StartOp
  <2> QED
    BY <1>4, <2>1 DEF Drop, Dies, StartOp, IdsFollow, sessionVars, txnVars, Operations
<1>5. CASE RefusePoisoned
  <2>1. StepFails(TRUE, txid) /\ job # "none" /\ phase' = "rest" /\ cur' = cur
    BY <1>5 DEF RefusePoisoned, Running
  <2> QED
    BY <1>0, <2>1, IdsAfterFailure DEF IdsFollow
<1>6. CASE SendCommand
  <2>1. txid < MaxId
    BY <1>0, <1>6, NextIdFacts, SessionAssumption DEF SendCommand, Running, IdsFollow
  <2> QED
    BY <1>0, <1>6, <2>1 DEF SendCommand, Running, IdsFollow, jobVars, HasData
<1>7. CASE SendData
  BY <1>7 DEF SendData, IdsFollow, sessionVars, jobVars
<1>8. CASE CommandFails
  <2>1. StepFails(HasData(Step), NextId(txid)) /\ job # "none" /\ phase' = "rest" /\ cur' = txid
    BY <1>8 DEF CommandFails, Running
  <2>2. job # "open" => txid < MaxId
    BY <1>0, <2>1, NextIdFacts DEF IdsFollow
  <2> QED
    BY <1>0, <2>1, <2>2, IdsAfterFailure
<1>9. CASE DataFails \/ TimesOut \/ Mismatch \/ TakeMalformed
  <2>1. StepFails(FALSE, txid) /\ phase # "rest" /\ phase' = "rest" /\ cur' = cur
    BY <1>9 DEF DataFails, TimesOut, Mismatch, TakeMalformed
  <2> QED
    BY <1>0, <2>1, IdsAfterFailure DEF IdsFollow
<1>10. CASE TakeResponse
  <2>1. phase # "rest" /\ phase' = "rest" /\ cur' = cur /\ job # "none"
    BY <1>0, <1>10 DEF TakeResponse
  <2>2. job = "open" => cur = 0 /\ txid = NextId(cur)
    BY <1>0, <2>1 DEF IdsFollow
  <2> QED
    BY <1>0, <1>10, <2>1, <2>2, AnsweredEnds, SessionAssumption DEF IdsFollow, Operations
<1> QED
  BY <1>2, <1>3, <1>4, <1>5, <1>6, <1>7, <1>8, <1>9, <1>10 DEF Next

\* In step there is one id.
LEMMA OwnIdsStep == IInv /\ OwnIds /\ [Next]_vars => OwnIds'
<1> SUFFICES ASSUME IInv, OwnIds, [Next]_vars, clean', sess', ~poisoned', phase' # "rest" PROVE OwnIds'
  BY DEF OwnIds
<1>0. /\ TypeOK /\ SafetyParts /\ (job # "none" => sess) /\ (phase # "rest" => job # "none" /\ sess /\ ~poisoned)
      /\ wire \in Seq(Commands) /\ pipe \in Seq(Containers) /\ phase \in {"rest", "data", "reply"}
  BY Parts DEF TypeOK, SafetyParts, RunsInSession
<1>1. CASE UNCHANGED vars
  BY <1>1 DEF OwnIds, vars, sessionVars, jobVars, txnVars
<1>2. CASE SendCommand
  <2>1. job # "none" /\ clean /\ ~poisoned /\ phase = "rest" /\ pipe' = pipe /\ wire' = Append(wire, Command) /\ cur' = txid
        /\ phase' = IF HasData(Step) THEN "data" ELSE "reply"
    BY <1>2 DEF SendCommand, Running
  <2>2. wire = <<>> /\ pipe = <<>>
    BY <1>0, <2>1 DEF SafetyParts, InStep, AtRest
  <2>3. Command \in Commands /\ Command.id = txid /\ Command.whole = ~HasData(Step)
    BY <1>0, <2>1, CommandType DEF Command
  <2>4. Len(wire') = 1 /\ wire'[1] = Command /\ Len(pipe') = 0
    BY <1>0, <2>1, <2>2, <2>3, AppendProperties
  <2>5. (\A i \in 1..Len(wire') : i = 1) /\ ~(\E i \in 1..Len(pipe') : TRUE)
    BY <2>4
  <2>6. phase' = "reply" => wire'[1].whole
    BY <2>1, <2>3, <2>4
  <2> QED
    BY <2>1, <2>3, <2>4, <2>5, <2>6 DEF OwnIds
<1>3. CASE SendData
  <2>1. clean /\ phase = "data" /\ pipe' = pipe /\ wire' = Completed(wire) /\ cur' = cur /\ phase' = "reply"
    BY <1>3 DEF SendData, sessionVars
  <2>2. Len(wire) = 1 /\ \A i \in 1..Len(wire) : wire[i].id = cur
    BY <1>0, <2>1 DEF SafetyParts, InStep, InData, OwnIds
  <2>3. wire = [i \in 1..Len(wire) |-> wire[i]]
    BY <1>0, LenProperties
  <2>4. Len(wire') = 1 /\ wire'[1].id = cur /\ wire'[1].whole
    <3>1. Len(wire') = Len(wire)
      BY <1>0, <2>1, <2>2, PendingMoves, EmptySeq
    <3>2. Completed(wire)[1] = [step |-> wire[1].step, id |-> wire[1].id, whole |-> TRUE, age |-> "txn"]
      BY <2>2, <2>3 DEF Completed
    <3> QED
      BY <2>1, <2>2, <3>1, <3>2
  <2> QED
    BY <1>0, <2>1, <2>4 DEF OwnIds
<1>4. CASE TakeData
  <2>1. clean /\ phase # "rest" /\ pipe # <<>> /\ pipe' = Tail(pipe) /\ UNCHANGED <<wire, cur, phase>>
    BY <1>4 DEF TakeData, sessionVars
  <2>2. Len(Tail(pipe)) = Len(pipe) - 1 /\ (\A i \in 1..Len(Tail(pipe)) : Tail(pipe)[i] = pipe[i + 1]) /\ Len(pipe) \in Nat
    BY <1>0, <2>1, HeadTailProperties, LenProperties
  <2>3. \A i \in 1..Len(pipe') : i + 1 \in 1..Len(pipe)
    BY <2>1, <2>2
  <2> QED
    BY <1>0, <2>1, <2>2, <2>3 DEF OwnIds
<1>5. CASE BodyActs
  <2>1. /\ clean /\ phase # "rest" /\ wire # <<>> /\ wire' = Tail(wire)
        /\ Answers(Head(wire), pipe, pipe') /\ UNCHANGED <<cur, phase>>
    BY <1>5 DEF BodyActs, txnVars, Answers
  <2>2. /\ Len(Tail(wire)) = Len(wire) - 1 /\ Len(wire) \in Nat \ {0}
        /\ \A i \in 1..Len(Tail(wire)) : Tail(wire)[i] = wire[i + 1]
        /\ Head(wire) = wire[1] /\ Head(wire) \in Commands
    BY <1>0, <2>1, HeadTailProperties, LenProperties, EmptySeq
  <2>3. /\ \A i \in 1..Len(pipe) : pipe'[i] = pipe[i]
        /\ \A i \in (Len(pipe) + 1)..Len(pipe') : pipe'[i].id = Head(wire).id
        /\ Len(pipe) \in Nat /\ Len(pipe') \in Nat
    BY <1>0, <2>1, <2>2, AnswerAdded, LenProperties
  <2>4. \A i \in 1..Len(wire') : i + 1 \in 1..Len(wire)
    BY <2>1, <2>2
  <2>5. \A i \in 1..Len(pipe') : i \in 1..Len(pipe) \/ i \in (Len(pipe) + 1)..Len(pipe')
    BY <2>3
  <2>6. Head(wire).id = cur
    BY <1>0, <2>1, <2>2 DEF OwnIds
  <2> QED
    BY <1>0, <2>1, <2>2, <2>3, <2>4, <2>5, <2>6 DEF OwnIds
<1>6. CASE BodyForgets
  <2>1. clean /\ phase # "rest" /\ wire # <<>> /\ wire' = Tail(wire) /\ UNCHANGED <<cur, phase, pipe>>
    BY <1>6 DEF BodyForgets, sessionVars, txnVars
  <2>2. Len(Tail(wire)) = Len(wire) - 1 /\ (\A i \in 1..Len(Tail(wire)) : Tail(wire)[i] = wire[i + 1]) /\ Len(wire) \in Nat
    BY <1>0, <2>1, HeadTailProperties, LenProperties
  <2>3. \A i \in 1..Len(wire') : i + 1 \in 1..Len(wire)
    BY <2>1, <2>2
  <2> QED
    BY <1>0, <2>1, <2>2, <2>3 DEF OwnIds
<1>7. CASE BeginSession \/ Drop \/ Dies \/ \E o \in Operations : StartOp(o)
  BY <1>0, <1>7 DEF BeginSession, Drop, Dies, StartOp, txnVars
<1>8. CASE RefusePoisoned \/ CommandFails \/ DataFails \/ TimesOut \/ Mismatch \/ TakeResponse \/ TakeMalformed
  BY <1>8 DEF RefusePoisoned, CommandFails, DataFails, TimesOut, Mismatch, TakeResponse, TakeMalformed, Running
<1> QED
  BY <1>1, <1>2, <1>3, <1>4, <1>5, <1>6, <1>7, <1>8 DEF Next

---------------------------------------------------------------------------
(* How the lag goes on.                                                    *)

\* What is outstanding between two transactions ages.
LEMMA RestAges ==
    ASSUME TypeOK, LagsAtRest, cur' = cur, wire' = PastCommands(wire), pipe' = PastContainers(pipe)
    PROVE  LagsAtRest'
<1>1. wire \in Seq(Commands) /\ pipe \in Seq(Containers)
  BY DEF TypeOK
<1>2. /\ Len(wire') = Len(wire) /\ (wire = <<>> => wire' = <<>>)
      /\ \A i \in 1..Len(wire) : wire'[i].id = wire[i].id /\ wire'[i].whole = wire[i].whole /\ wire'[i].age = "past"
  BY <1>1, AgedCommands
<1>3. /\ Len(pipe') = Len(pipe) /\ (pipe = <<>> => pipe' = <<>>)
      /\ \A i \in 1..Len(pipe) : pipe'[i].id = pipe[i].id /\ pipe'[i].age = "past"
      /\ \A b : AnswerAt(pipe, 1, b) => AnswerAt(pipe', 1, b)
  BY <1>1, PastAnswers
<1>4. CASE pipe = <<>> /\ Len(wire) = 1 /\ wire[1].whole /\ Outstanding(wire[1], cur)
  BY <1>2, <1>3, <1>4 DEF LagsAtRest, Outstanding
<1>5. CASE wire = <<>> /\ AnswerAt(pipe, 1, Len(pipe)) /\ \A i \in 1..Len(pipe) : Outstanding(pipe[i], cur)
  BY <1>2, <1>3, <1>5 DEF LagsAtRest, Outstanding
<1> QED
  BY <1>4, <1>5 DEF LagsAtRest

\* A command is sent behind it.
LEMMA LagSends ==
    ASSUME TypeOK, IdsFollow, sess, LagsAtRest, SendCommand
    PROVE  LagsBusy'
<1>1. /\ job # "none" /\ phase = "rest" /\ wire' = Append(wire, Command) /\ cur' = txid /\ pipe' = pipe
      /\ phase' = IF HasData(Step) THEN "data" ELSE "reply"
      /\ job' = job /\ Step' = Step
      /\ wire \in Seq(Commands) /\ pipe \in Seq(Containers) /\ cur \in 0..MaxId
  BY DEF SendCommand, Running, jobVars, Step, TypeOK
<1>2. job # "open" => txid # cur
  BY <1>1, NextIdFacts DEF IdsFollow
<1>3. /\ Command \in Commands /\ Command.step = Step /\ Command.age = "txn" /\ Command.whole = ~HasData(Step)
      /\ Command.id = txid
  BY <1>1, CommandType DEF Command
<1>4. /\ Len(wire') = Len(wire) + 1 /\ wire'[Len(wire) + 1] = Command /\ \A i \in 1..Len(wire) : wire'[i] = wire[i]
  BY <1>1, <1>3, AppendProperties
<1>5. Sent(wire'[Len(wire) + 1], cur', Step', phase')
  BY <1>1, <1>3, <1>4 DEF Sent, Own
<1>6. ASSUME NEW c, Outstanding(c, cur) PROVE Left(c, cur', job')
  BY <1>1, <1>2, <1>6 DEF Outstanding, Left
<1>7. CASE pipe = <<>> /\ Len(wire) = 1 /\ wire[1].whole /\ Outstanding(wire[1], cur)
  <2>1. Left(wire[1], cur', job')
    BY <1>6, <1>7
  <2> QED
    BY <1>1, <1>4, <1>5, <1>7, <2>1 DEF LagsBusy, LagsUnanswered
<1>8. CASE wire = <<>> /\ AnswerAt(pipe, 1, Len(pipe)) /\ \A i \in 1..Len(pipe) : Outstanding(pipe[i], cur)
  <2>1. \A i \in 1..Len(pipe) : Left(pipe[i], cur', job')
    BY <1>6, <1>8
  <2>2. Len(wire') = 1 /\ Sent(wire'[1], cur', Step', phase')
    BY <1>4, <1>5, <1>8
  <2> QED
    BY <1>1, <1>8, <2>1, <2>2 DEF LagsBusy, LagsAnswered
<1> QED
  BY <1>7, <1>8 DEF LagsAtRest

\* Its data follow.
LEMMA LagSendsData ==
    ASSUME TypeOK, LagsBusy, SendData
    PROVE  LagsBusy'
<1>1. /\ phase = "data" /\ phase' = "reply" /\ wire' = Completed(wire) /\ pipe' = pipe
      /\ cur' = cur /\ job' = job /\ Step' = Step
      /\ wire \in Seq(Commands)
  BY DEF SendData, jobVars, sessionVars, Step, TypeOK
<1>2. wire = [i \in 1..Len(wire) |-> wire[i]] /\ Len(wire) \in Nat
  BY <1>1, LenProperties
<1>3. ASSUME wire # <<>>
      PROVE  /\ Len(wire') = Len(wire) /\ (\A i \in 1..(Len(wire) - 1) : wire'[i] = wire[i])
             /\ wire'[Len(wire)].step = wire[Len(wire)].step /\ wire'[Len(wire)].id = wire[Len(wire)].id
             /\ wire'[Len(wire)].whole = TRUE /\ wire'[Len(wire)].age = "txn"
  <2>1. Len(wire') = Len(wire) /\ Len(wire) \in 1..Len(wire)
    BY <1>1, <1>2, <1>3, PendingMoves, EmptySeq
  <2>2. Completed(wire)[Len(wire)] =
            [step |-> wire[Len(wire)].step, id |-> wire[Len(wire)].id, whole |-> TRUE, age |-> "txn"]
    BY <1>2, <2>1 DEF Completed
  <2>3. \A i \in 1..(Len(wire) - 1) : Completed(wire)[i] = wire[i]
    BY <1>2, <2>1 DEF Completed
  <2> QED
    BY <1>1, <2>1, <2>2, <2>3
<1>4. wire = <<>> => Len(wire) = 0
  BY EmptySeq
<1>5. CASE LagsUnanswered
  <2>1. /\ Len(wire) = 2 /\ wire # <<>> /\ pipe = <<>>
        /\ wire[1].whole /\ Left(wire[1], cur, job) /\ Sent(wire[2], cur, Step, phase)
    BY <1>4, <1>5 DEF LagsUnanswered
  <2>0. /\ Len(wire') = Len(wire) /\ (\A i \in 1..(Len(wire) - 1) : wire'[i] = wire[i])
        /\ wire'[Len(wire)].step = wire[Len(wire)].step /\ wire'[Len(wire)].id = wire[Len(wire)].id
        /\ wire'[Len(wire)].whole = TRUE /\ wire'[Len(wire)].age = "txn"
    BY <1>3, <2>1
  <2>2. Len(wire') = 2 /\ wire'[1] = wire[1] /\ wire'[2].step = wire[2].step /\ wire'[2].id = wire[2].id
        /\ wire'[2].whole = TRUE /\ wire'[2].age = "txn"
    <3>1. Len(wire) = 2 /\ 1 \in 1..(Len(wire) - 1)
      BY <2>1
    <3> QED
      BY <2>0, <3>1
  <2>3. Sent(wire'[2], cur', Step', phase')
    BY <1>1, <2>1, <2>2 DEF Sent, Own
  <2> QED
    BY <1>1, <2>1, <2>2, <2>3 DEF LagsBusy, LagsUnanswered
<1>6. CASE LagsAnswered
  <2>1. Len(wire) = 1 /\ wire # <<>> /\ Sent(wire[1], cur, Step, phase)
    BY <1>4, <1>6 DEF LagsAnswered
  <2>2. Len(wire') = 1 /\ Sent(wire'[1], cur', Step', phase')
    BY <1>1, <1>3, <2>1 DEF Sent, Own
  <2> QED
    BY <1>1, <1>6, <2>2 DEF LagsBusy, LagsAnswered
<1> QED
  BY <1>1, <1>5, <1>6 DEF LagsBusy, LagsTwice

\* What a transaction reads first is not its own.
LEMMA LagReads ==
    ASSUME TypeOK, LagsBusy, pipe # <<>>
    PROVE  Left(Head(pipe), cur, job)
<1>1. pipe \in Seq(Containers) /\ Len(pipe) \in Nat \ {0} /\ Head(pipe) = pipe[1]
  BY HeadTailProperties, LenProperties, EmptySeq DEF TypeOK
<1> QED
  BY <1>1 DEF LagsBusy, LagsUnanswered, LagsAnswered, LagsTwice, AnswerAt

\* Data that are read are of the answer before.
LEMMA LagTakesData ==
    ASSUME TypeOK, LagsBusy, TakeData
    PROVE  LagsBusy'
<1>1. /\ phase = "reply" /\ phase' = "reply" /\ pipe # <<>> /\ Head(pipe).kind = "data" /\ pipe' = Tail(pipe)
      /\ wire' = wire /\ cur' = cur /\ job' = job /\ Step' = Step
      /\ pipe \in Seq(Containers) /\ Len(pipe) \in Nat
  BY LenProperties DEF TakeData, sessionVars, Step, TypeOK
<1>2. CASE LagsAnswered
  <2>1. AnswerAt(pipe, 1, Len(pipe))
    BY <1>2 DEF LagsAnswered
  <2>2. /\ AnswerAt(pipe', 1, Len(pipe')) /\ Len(pipe') = Len(pipe) - 1
        /\ \A i \in 1..Len(pipe') : pipe'[i] = pipe[i + 1] /\ i + 1 \in 1..Len(pipe)
    BY <1>1, <2>1, AnswerFirst
  <2>3. \A i \in 1..Len(pipe') : Left(pipe'[i], cur', job')
    BY <1>1, <1>2, <2>2 DEF LagsAnswered
  <2> QED
    BY <1>1, <1>2, <2>2, <2>3 DEF LagsBusy, LagsAnswered
<1>3. CASE LagsTwice
  <2>1. PICK k \in 1..Len(pipe) :
           /\ AnswerAt(pipe, 1, k) /\ \A i \in 1..k : Left(pipe[i], cur, job)
           /\ AnswerAt(pipe, k + 1, Len(pipe)) /\ \A i \in (k + 1)..Len(pipe) : Own(pipe[i], cur)
    BY <1>3 DEF LagsTwice
  <2>2. /\ Len(pipe') = Len(pipe) - 1 /\ (\A i \in 1..Len(pipe') : pipe'[i] = pipe[i + 1])
        /\ k > 1 /\ AnswerAt(pipe', 1, k - 1)
    BY <1>1, <2>1, AnswerFirst
  <2>3. AnswerAt(pipe', (k - 1) + 1, Len(pipe'))
    <3>1. k + 1 \in Nat /\ k + 1 > 1
      BY <1>1
    <3>2. AnswerAt(Tail(pipe), (k + 1) - 1, Len(pipe) - 1)
      BY <1>1, <2>1, <3>1, AnswerMovesUp
    <3> QED
      BY <1>1, <2>2, <3>2
  <2>4. k - 1 \in 1..Len(pipe')
    BY <1>1, <2>2
  <2>5. \A i \in 1..(k - 1) : Left(pipe'[i], cur', job')
    <3>1. \A i \in 1..(k - 1) : pipe'[i] = pipe[i + 1] /\ i + 1 \in 1..k
      BY <1>1, <2>2
    <3> QED
      BY <1>1, <2>1, <3>1
  <2>6. \A i \in ((k - 1) + 1)..Len(pipe') : Own(pipe'[i], cur')
    <3>1. \A i \in ((k - 1) + 1)..Len(pipe') : pipe'[i] = pipe[i + 1] /\ i + 1 \in (k + 1)..Len(pipe)
      BY <1>1, <2>2
    <3> QED
      BY <1>1, <2>1, <3>1
  <2>7. wire' = <<>>
    BY <1>1, <1>3 DEF LagsTwice
  <2> QED
    BY <1>1, <2>2, <2>3, <2>4, <2>5, <2>6, <2>7 DEF LagsBusy, LagsTwice
<1> QED
  BY <1>1, <1>2, <1>3 DEF LagsBusy, LagsUnanswered

\* The response that is read ends the answer before, and the own one is outstanding.
LEMMA LagTakesResponse ==
    ASSUME TypeOK, LagsBusy, phase = "reply", pipe # <<>>, Head(pipe).kind = "response",
           wire' = OlderCommands(wire), pipe' = PastContainers(Tail(pipe)), cur' = cur
    PROVE  LagsAtRest'
<1>1. /\ wire \in Seq(Commands) /\ pipe \in Seq(Containers) /\ Len(pipe) \in Nat \ {0} /\ Head(pipe) = pipe[1]
      /\ Tail(pipe) \in Seq(Containers) /\ Len(Tail(pipe)) = Len(pipe) - 1
      /\ \A i \in 1..Len(Tail(pipe)) : Tail(pipe)[i] = pipe[i + 1]
  BY HeadTailProperties, LenProperties, EmptySeq DEF TypeOK
<1>2. CASE LagsAnswered
  <2>1. AnswerAt(pipe, 1, Len(pipe))
    BY <1>2 DEF LagsAnswered
  <2>2. Len(pipe) = 1
    BY <1>1, <2>1, AnswerFirst
  <2>3. Tail(pipe) = <<>>
    <3>1. Len(Tail(pipe)) = 0
      BY <1>1, <2>2
    <3> QED
      BY <1>1, <3>1, EmptySeq
  <2>4. pipe' = <<>>
    BY <1>1, <2>3, PastAnswers
  <2>5. Len(wire) = 1 /\ wire[1].id = cur /\ wire[1].whole
    BY <1>2 DEF LagsAnswered, Sent, Own
  <2>6. Len(wire') = 1 /\ wire'[1].id = cur /\ wire'[1].whole /\ wire'[1].age # "txn"
    BY <1>1, <2>5, AgedCommands
  <2> QED
    BY <2>4, <2>6 DEF LagsAtRest, Outstanding
<1>3. CASE LagsTwice
  <2>1. PICK k \in 1..Len(pipe) :
           /\ AnswerAt(pipe, 1, k)
           /\ AnswerAt(pipe, k + 1, Len(pipe)) /\ \A i \in (k + 1)..Len(pipe) : Own(pipe[i], cur)
    BY <1>3 DEF LagsTwice
  <2>2. k = 1
    BY <1>1, <2>1, AnswerFirst
  <2>3. AnswerAt(Tail(pipe), 1, Len(Tail(pipe)))
    <3>1. AnswerAt(pipe, 2, Len(pipe)) /\ 2 \in Nat /\ 2 > 1
      BY <2>1, <2>2
    <3>2. AnswerAt(Tail(pipe), 2 - 1, Len(pipe) - 1)
      BY <1>1, <3>1, AnswerMovesUp
    <3> QED
      BY <1>1, <3>2
  <2>4. \A i \in 1..Len(Tail(pipe)) : Tail(pipe)[i].id = cur
    <3>1. \A i \in 1..Len(Tail(pipe)) : i + 1 \in (k + 1)..Len(pipe)
      BY <1>1, <2>2
    <3> QED
      BY <1>1, <2>1, <3>1 DEF Own
  <2>5. /\ Len(pipe') = Len(Tail(pipe)) /\ AnswerAt(pipe', 1, Len(pipe'))
        /\ \A i \in 1..Len(pipe') : pipe'[i].id = cur /\ pipe'[i].age = "past"
    <3>1. /\ Len(pipe') = Len(Tail(pipe))
          /\ \A i \in 1..Len(Tail(pipe)) : pipe'[i].id = Tail(pipe)[i].id /\ pipe'[i].age = "past"
      BY <1>1, PastAnswers
    <3>2. \A a, b : a \in Nat \ {0} /\ AnswerAt(Tail(pipe), a, b) => AnswerAt(PastContainers(Tail(pipe)), a, b)
      BY <1>1, PastAnswers
    <3>3. AnswerAt(pipe', 1, Len(Tail(pipe)))
      BY <2>3, <3>2
    <3> QED
      BY <2>4, <3>1, <3>3
  <2>6. wire' = <<>>
    BY <1>1, <1>3, AgedCommands DEF LagsTwice
  <2> QED
    BY <2>5, <2>6 DEF LagsAtRest, Outstanding
<1> QED
  BY <1>2, <1>3 DEF LagsBusy, LagsUnanswered

\* The body answers what it has first; a command of which it has no data it may not forget.
LEMMA LagBody ==
    ASSUME TypeOK, BodyActs,
           NEW c, c = Head(wire)
    PROVE  /\ wire # <<>> /\ wire' = Tail(wire) /\ c = wire[1] /\ c.whole
           /\ Len(wire) \in Nat \ {0} /\ Len(wire') = Len(wire) - 1 /\ (Len(wire) = 1 => wire' = <<>>)
           /\ \A i \in 1..Len(wire') : wire'[i] = wire[i + 1]
           /\ Len(pipe) \in Nat /\ Len(pipe') \in Nat /\ Len(pipe') > Len(pipe)
           /\ \A i \in 1..Len(pipe) : pipe'[i] = pipe[i]
           /\ \A i \in (Len(pipe) + 1)..Len(pipe') : pipe'[i].id = c.id /\ pipe'[i].age = c.age
           /\ AnswerAt(pipe', Len(pipe) + 1, Len(pipe'))
           /\ \A b : AnswerAt(pipe, 1, b) => AnswerAt(pipe', 1, b)
           /\ cur' = cur /\ phase' = phase /\ job' = job /\ Step' = Step
<1>1. /\ wire # <<>> /\ wire' = Tail(wire) /\ c.whole /\ Answers(c, pipe, pipe')
      /\ wire \in Seq(Commands) /\ pipe \in Seq(Containers)
      /\ cur' = cur /\ phase' = phase /\ job' = job /\ Step' = Step
  BY DEF BodyActs, txnVars, Answers, TypeOK, Step
<1>2. /\ Len(wire') = Len(wire) - 1 /\ Len(wire) \in Nat \ {0} /\ c = wire[1] /\ c \in Commands
      /\ \A i \in 1..Len(wire') : wire'[i] = wire[i + 1]
      /\ wire' \in Seq(Commands)
  BY <1>1, HeadTailProperties, LenProperties, EmptySeq
<1>3. Len(wire) = 1 => wire' = <<>>
  <2>1. Len(wire) = 1 => Len(wire') = 0
    BY <1>2
  <2> QED
    BY <1>2, <2>1, EmptySeq
<1>4. /\ pipe' \in Seq(Containers) /\ Len(pipe') > Len(pipe)
      /\ \A i \in 1..Len(pipe) : pipe'[i] = pipe[i]
      /\ \A i \in (Len(pipe) + 1)..Len(pipe') : pipe'[i].id = c.id /\ pipe'[i].age = c.age
      /\ AnswerAt(pipe', Len(pipe) + 1, Len(pipe'))
      /\ \A b : AnswerAt(pipe, 1, b) => AnswerAt(pipe', 1, b)
  BY <1>1, <1>2, AnswerAdded
<1> QED
  BY <1>1, <1>2, <1>3, <1>4, LenProperties

\* The body answers first what was first.
LEMMA LagBodyActs ==
    ASSUME TypeOK, BodyActs
    PROVE  /\ LagsAtRest => LagsAtRest'
           /\ LagsBusy /\ phase # "rest" => LagsBusy'
<1> DEFINE c == Head(wire)
<1>1. /\ wire # <<>> /\ c = wire[1] /\ c.whole
      /\ Len(wire) \in Nat \ {0} /\ Len(wire') = Len(wire) - 1 /\ (Len(wire) = 1 => wire' = <<>>)
      /\ \A i \in 1..Len(wire') : wire'[i] = wire[i + 1]
      /\ Len(pipe) \in Nat /\ Len(pipe') \in Nat /\ Len(pipe') > Len(pipe)
      /\ \A i \in 1..Len(pipe) : pipe'[i] = pipe[i]
      /\ \A i \in (Len(pipe) + 1)..Len(pipe') : pipe'[i].id = c.id /\ pipe'[i].age = c.age
      /\ AnswerAt(pipe', Len(pipe) + 1, Len(pipe'))
      /\ \A b : AnswerAt(pipe, 1, b) => AnswerAt(pipe', 1, b)
      /\ cur' = cur /\ phase' = phase /\ job' = job /\ Step' = Step
  BY LagBody
<1> HIDE DEF c
<1>2. pipe = <<>> => Len(pipe) = 0
  BY EmptySeq
<1>3. wire = <<>> => Len(wire) = 0
  BY EmptySeq
<1>4. ASSUME LagsAtRest PROVE LagsAtRest'
  <2>1. pipe = <<>> /\ Len(wire) = 1 /\ c.age # "txn" /\ c.id = cur
    BY <1>1, <1>3, <1>4 DEF LagsAtRest, Outstanding
  <2>2. AnswerAt(pipe', 1, Len(pipe')) /\ \A i \in 1..Len(pipe') : pipe'[i].id = c.id /\ pipe'[i].age = c.age
    BY <1>1, <1>2, <2>1
  <2> QED
    BY <1>1, <2>1, <2>2 DEF LagsAtRest, Outstanding
<1>5. ASSUME LagsUnanswered PROVE LagsBusy'
  <2>1. pipe = <<>> /\ Len(wire) = 2 /\ Left(c, cur, job) /\ Sent(wire[2], cur, Step, phase)
    BY <1>1, <1>5 DEF LagsUnanswered
  <2>2. AnswerAt(pipe', 1, Len(pipe')) /\ \A i \in 1..Len(pipe') : pipe'[i].id = c.id /\ pipe'[i].age = c.age
    BY <1>1, <1>2, <2>1
  <2>3. Len(wire') = 1 /\ wire'[1] = wire[2]
    BY <1>1, <2>1
  <2>4. \A i \in 1..Len(pipe') : Left(pipe'[i], cur', job')
    BY <1>1, <2>1, <2>2 DEF Left
  <2>5. Sent(wire'[1], cur', Step', phase')
    BY <1>1, <2>1, <2>3 DEF Sent, Own
  <2> QED
    BY <1>1, <2>2, <2>3, <2>4, <2>5 DEF LagsBusy, LagsAnswered
<1>6. ASSUME LagsAnswered, phase # "rest" PROVE LagsBusy'
  <2>1. /\ Len(wire) = 1 /\ Sent(wire[1], cur, Step, phase) /\ AnswerAt(pipe, 1, Len(pipe))
        /\ \A i \in 1..Len(pipe) : Left(pipe[i], cur, job)
    BY <1>6 DEF LagsAnswered
  <2>2. phase = "reply" /\ wire' = <<>> /\ c.id = cur /\ c.age = "txn"
    BY <1>1, <1>6, <2>1 DEF Sent, Own, TypeOK
  <2>3. Len(pipe) \in 1..Len(pipe')
    BY <1>1, <2>1 DEF AnswerAt
  <2>4. \A i \in 1..Len(pipe) : Left(pipe'[i], cur', job')
    BY <1>1, <2>1
  <2>5. \A i \in (Len(pipe) + 1)..Len(pipe') : Own(pipe'[i], cur')
    BY <1>1, <2>2 DEF Own
  <2>6. AnswerAt(pipe', 1, Len(pipe))
    BY <1>1, <2>1
  <2> QED
    BY <1>1, <2>2, <2>3, <2>4, <2>5, <2>6 DEF LagsBusy, LagsTwice
<1>7. ~LagsTwice
  BY <1>1 DEF LagsTwice
<1> QED
  BY <1>4, <1>5, <1>6, <1>7 DEF LagsBusy

\* There is nothing it may forget.
LEMMA LagForgets ==
    ASSUME TypeOK, BodyForgets
    PROVE  ~LagsAtRest /\ ~LagsBusy
<1>1. wire # <<>> /\ ~wire[1].whole /\ wire[1].age # "txn"
  <2>1. wire # <<>> /\ ~Head(wire).whole /\ Head(wire).age # "txn" /\ wire \in Seq(Commands)
    BY DEF BodyForgets, TypeOK
  <2> QED
    BY <2>1, HeadTailProperties
<1> QED
  BY <1>1 DEF LagsAtRest, LagsBusy, LagsUnanswered, LagsAnswered, LagsTwice, Sent, Own

---------------------------------------------------------------------------
(* How the lag begins.                                                     *)

\* What the one command of a session in step leaves when its transaction fails.
LEMMA PoisonLeaves ==
    ASSUME NEW w \in Seq(Commands), NEW p \in Seq(Containers), NEW id, cur' = id, Poisons(w, p),
           \/ p = <<>> /\ (w = <<>> \/ (Len(w) = 1 /\ w[1].whole /\ w[1].id = id))
           \/ w = <<>> /\ (p = <<>> \/ AnswerAt(p, 1, Len(p))) /\ \A i \in 1..Len(p) : p[i].id = id
    PROVE  (wire' = <<>> /\ pipe' = <<>>) \/ LagsAtRest'
<1>1. wire' \in {OlderCommands(w), <<>>} /\ pipe' \in {PastContainers(p), <<>>}
  BY DEF Poisons
<1>2. /\ Len(OlderCommands(w)) = Len(w) /\ (w = <<>> => OlderCommands(w) = <<>>)
      /\ \A i \in 1..Len(w) : /\ OlderCommands(w)[i].id = w[i].id /\ OlderCommands(w)[i].whole = w[i].whole
                              /\ OlderCommands(w)[i].age # "txn"
  BY AgedCommands
<1>3. /\ Len(PastContainers(p)) = Len(p) /\ (p = <<>> => PastContainers(p) = <<>>)
      /\ \A i \in 1..Len(p) : PastContainers(p)[i].id = p[i].id /\ PastContainers(p)[i].age = "past"
  BY PastAnswers
<1>4. AnswerAt(p, 1, Len(p)) => AnswerAt(PastContainers(p), 1, Len(p))
  <2>1. \A a, b : a \in Nat \ {0} /\ AnswerAt(p, a, b) => AnswerAt(PastContainers(p), a, b)
    BY PastAnswers
  <2> QED
    BY <2>1
<1>5. CASE p = <<>> /\ (w = <<>> \/ (Len(w) = 1 /\ w[1].whole /\ w[1].id = id))
  <2>1. pipe' = <<>>
    BY <1>1, <1>3, <1>5
  <2>2. CASE wire' = <<>>
    BY <2>1, <2>2
  <2>3. CASE wire' # <<>>
    <3>1. wire' = OlderCommands(w) /\ Len(w) = 1 /\ w[1].whole /\ w[1].id = id /\ 1 \in 1..Len(w)
      BY <1>1, <1>2, <1>5, <2>3
    <3>2. Len(wire') = 1 /\ wire'[1].whole /\ wire'[1].id = id /\ wire'[1].age # "txn"
      BY <1>2, <3>1
    <3> QED
      BY <2>1, <3>2 DEF LagsAtRest, Outstanding
  <2> QED
    BY <2>2, <2>3
<1>6. CASE w = <<>> /\ (p = <<>> \/ AnswerAt(p, 1, Len(p))) /\ \A i \in 1..Len(p) : p[i].id = id
  <2>1. wire' = <<>>
    BY <1>1, <1>2, <1>6
  <2>2. pipe' = <<>> \/ (pipe' = PastContainers(p) /\ AnswerAt(p, 1, Len(p)))
    BY <1>1, <1>3, <1>6
  <2> QED
    BY <1>3, <1>4, <1>6, <2>1, <2>2 DEF LagsAtRest, Outstanding
<1> QED
  BY <1>5, <1>6

\* The CloseSession of a session in step fails: what it leaves is one answer, or the command for it.
LEMMA CloseFails ==
    ASSUME IInv, OwnIds, clean, job = "open", at = 2, CommandFails \/ TimesOut \/ Mismatch
    PROVE  (wire' = <<>> /\ pipe' = <<>>) \/ LagsAtRest'
<1>0. /\ TypeOK /\ SafetyParts /\ sess /\ (phase # "rest" => ~poisoned)
      /\ wire \in Seq(Commands) /\ pipe \in Seq(Containers)
  BY Parts DEF SafetyParts, RunsInSession, TypeOK
<1>1. Step = "close" /\ ~HasData(Step)
  BY DEF Step, Script, OpenScript, HasData
<1>2. CASE CommandFails
  <2>1. PICK w \in {Append(wire, Command), wire} : Poisons(w, pipe)
    BY <1>2 DEF CommandFails
  <2>2. wire = <<>> /\ pipe = <<>> /\ cur' = txid
    BY <1>0, <1>2 DEF CommandFails, Running, SafetyParts, InStep, AtRest
  <2>3. Command \in Commands /\ Command.whole /\ Command.id = txid
    BY <1>0, <1>1, CommandType DEF Command
  <2>4. Append(wire, Command) \in Seq(Commands) /\ Len(Append(wire, Command)) = 1 /\ Append(wire, Command)[1] = Command
    BY <1>0, <2>2, <2>3, AppendProperties
  <2>5. w \in Seq(Commands) /\ (w = <<>> \/ (Len(w) = 1 /\ w[1].whole /\ w[1].id = txid))
    BY <1>0, <2>1, <2>2, <2>3, <2>4
  <2> QED
    BY <1>0, <2>1, <2>2, <2>5, PoisonLeaves
<1>3. CASE TimesOut \/ Mismatch
  <2>1. phase = "reply" /\ cur' = cur
    BY <1>3 DEF TimesOut, Mismatch
  <2>2. Asked \/ Answered
    BY <1>0, <2>1 DEF SafetyParts, InStep
  <2>3. /\ \A i \in 1..Len(wire) : wire[i].id = cur /\ wire[i].whole
        /\ \A i \in 1..Len(pipe) : pipe[i].id = cur
    BY <1>0, <2>1 DEF OwnIds
  <2>4. PICK p \in {pipe} \cup (IF pipe = <<>> THEN {} ELSE {Tail(pipe)}) : Poisons(wire, p)
    BY <1>3 DEF TimesOut, Mismatch
  <2>5. CASE Asked
    <3>1. p = <<>> /\ p \in Seq(Containers) /\ Len(wire) = 1 /\ wire[1].whole /\ wire[1].id = cur
      BY <1>0, <2>3, <2>4, <2>5 DEF Asked
    <3> QED
      BY <1>0, <2>1, <2>4, <3>1, PoisonLeaves
  <2>6. CASE Answered
    <3>1. wire = <<>> /\ pipe # <<>> /\ Len(pipe) \in {1, 2} /\ AnswerAt(pipe, 1, Len(pipe))
      <4>1. pipe = <<>> => Len(pipe) = 0
        BY EmptySeq
      <4>2. CASE Len(pipe) = 2 /\ pipe[1].kind = "data" /\ pipe[2].kind = "response"
        <5>1. \A i \in 1..(Len(pipe) - 1) : i = 1
          BY <4>2
        <5> QED
          BY <2>6, <4>1, <4>2, <5>1 DEF Answered, AnswerAt
      <4>3. CASE Len(pipe) = 1 /\ pipe[1].kind = "response"
        <5>1. ~\E i \in 1..(Len(pipe) - 1) : TRUE
          BY <4>3
        <5> QED
          BY <2>6, <4>1, <4>3, <5>1 DEF Answered, AnswerAt
      <4> QED
        BY <2>6, <4>2, <4>3 DEF Answered
    <3>2. /\ Tail(pipe) \in Seq(Containers) /\ Len(Tail(pipe)) = Len(pipe) - 1
          /\ \A i \in 1..Len(Tail(pipe)) : Tail(pipe)[i] = pipe[i + 1] /\ i + 1 \in 1..Len(pipe)
      BY <1>0, <3>1, HeadTailProperties
    <3>3. Tail(pipe) = <<>> \/ AnswerAt(Tail(pipe), 1, Len(Tail(pipe)))
      <4>1. CASE Len(pipe) = 1
        <5>1. Len(Tail(pipe)) = 0
          BY <3>2, <4>1
        <5> QED
          BY <3>2, <5>1, EmptySeq
      <4>2. CASE Len(pipe) = 2
        <5>1. Len(Tail(pipe)) = 1 /\ Tail(pipe)[1] = pipe[2]
          BY <3>2, <4>2
        <5>2. pipe[2].kind = "response"
          BY <3>1, <4>2 DEF AnswerAt
        <5>3. \A s, n : n = 1 /\ s[n].kind = "response" /\ n = Len(s) => AnswerAt(s, 1, n)
          BY DEF AnswerAt
        <5> QED
          BY <5>1, <5>2, <5>3
      <4> QED
        BY <3>1, <4>1, <4>2
    <3>4. /\ p \in Seq(Containers) /\ (p = <<>> \/ AnswerAt(p, 1, Len(p)))
          /\ \A i \in 1..Len(p) : p[i].id = cur
      <4>1. CASE p = pipe
        BY <1>0, <2>3, <3>1, <4>1
      <4>2. CASE p = Tail(pipe)
        BY <2>3, <3>2, <3>3, <4>2
      <4> QED
        BY <2>4, <4>1, <4>2
    <3> QED
      BY <1>0, <2>1, <2>4, <3>1, <3>4, PoisonLeaves
  <2> QED
    BY <2>2, <2>5, <2>6
<1> QED
  BY <1>2, <1>3

\* An answer to it leaves a session in step.
LEMMA CloseAnswered ==
    ASSUME IInv, clean, phase = "reply", TakeResponse \/ TakeMalformed
    PROVE  wire' = <<>> /\ pipe' = <<>>
<1>1. /\ TypeOK /\ SafetyParts /\ pipe # <<>> /\ Head(pipe).kind = "response" /\ Taken(Head(pipe))
      /\ wire' = OlderCommands(wire) /\ pipe' = PastContainers(Tail(pipe))
  BY Parts DEF TakeResponse, TakeMalformed
<1>2. wire = <<>> /\ Tail(pipe) = <<>> /\ Tail(pipe) \in Seq(Containers) /\ wire \in Seq(Commands)
  BY <1>1, TakenFacts DEF TypeOK
<1> QED
  BY <1>1, <1>2, AgedCommands, PastAnswers

---------------------------------------------------------------------------
(* Nothing goes unnoticed.                                                 *)

\* Only a failed or answered CloseSession of the opening puts a session out of step.
LEMMA LagBegins ==
    ASSUME IInv, [Next]_vars, clean, fresh', ~clean'
    PROVE  /\ job = "open" /\ at = 2
           /\ CommandFails \/ DataFails \/ TimesOut \/ Mismatch \/ TakeResponse \/ TakeMalformed \/ RefusePoisoned
<1>0. TypeOK /\ (phase # "rest" => job # "none")
  BY Parts DEF TypeOK, SafetyParts, RunsInSession
<1>1. CASE TakeResponse
  BY <1>0, <1>1, AnsweredEnds DEF TakeResponse
<1>2. CASE CommandFails \/ RefusePoisoned
  BY <1>0, <1>2, FailedEnds DEF CommandFails, RefusePoisoned, Running
<1>3. CASE DataFails \/ TimesOut \/ Mismatch \/ TakeMalformed
  BY <1>0, <1>3, FailedEnds DEF DataFails, TimesOut, Mismatch, TakeMalformed
<1>4. CASE BeginSession
  BY <1>4 DEF BeginSession
<1>5. CASE Drop \/ Dies \/ (\E o \in Operations : StartOp(o)) \/ SendCommand \/ SendData \/ TakeData \/ BodyActs
           \/ BodyForgets \/ UNCHANGED vars
  BY <1>5 DEF Drop, Dies, StartOp, SendCommand, SendData, TakeData, BodyActs, BodyForgets, vars, sessionVars
<1> QED
  BY <1>1, <1>2, <1>3, <1>4, <1>5 DEF Next

\* Whether a session began in order is settled as it begins.
LEMMA FreshStays ==
    ASSUME [Next]_vars, fresh'
    PROVE  BeginSession \/ fresh
BY DEF Next, Drop, Dies, StartOp, RefusePoisoned, SendCommand, SendData, CommandFails, DataFails, TimesOut, Mismatch,
   TakeData, TakeResponse, TakeMalformed, BodyActs, BodyForgets, vars, sessionVars

\* In a data phase the command that waits for it is the last.
LEMMA LagLast ==
    ASSUME TypeOK, SafetyParts, Lags, phase = "data"
    PROVE  wire # <<>> /\ wire[Len(wire)].step = Step
<1>1. sess /\ ~poisoned
  BY DEF SafetyParts, RunsInSession
<1>2. LagsUnanswered \/ LagsAnswered
  BY <1>1 DEF Lags, LagsBusy, LagsTwice
<1>3. wire = <<>> => Len(wire) = 0
  BY EmptySeq
<1> QED
  BY <1>2, <1>3 DEF LagsUnanswered, LagsAnswered, Sent

\* A session that lags goes on lagging by one answer until it ends or is poisoned.
LEMMA LagStep == IInv /\ IdsFollow /\ OwnIds /\ Lagging /\ [Next]_vars => Lagging'
<1> SUFFICES ASSUME IInv, IdsFollow, OwnIds, Lagging, [Next]_vars, fresh', ~clean' PROVE Lags'
  BY DEF Lagging
<1>0. /\ TypeOK /\ SafetyParts /\ (job # "none" => sess) /\ (phase # "rest" => job # "none" /\ sess /\ ~poisoned)
      /\ wire \in Seq(Commands) /\ pipe \in Seq(Containers) /\ phase \in {"rest", "data", "reply"}
      /\ (phase = "data" => HasData(Step))
  BY Parts DEF TypeOK, SafetyParts, RunsInSession
<1>1. ASSUME clean PROVE Lags'
  <2>1. /\ job = "open" /\ at = 2
        /\ CommandFails \/ DataFails \/ TimesOut \/ Mismatch \/ TakeResponse \/ TakeMalformed \/ RefusePoisoned
    BY <1>1, LagBegins
  <2>2. ~HasData(Step)
    BY <2>1 DEF Step, Script, OpenScript, HasData
  <2>3. ~DataFails
    BY <1>0, <2>2 DEF DataFails
  <2>4. CASE CommandFails \/ TimesOut \/ Mismatch
    <3>1. job' = "open" /\ at' = 3 /\ clean' = (clean /\ wire' = <<>> /\ pipe' = <<>>) /\ phase' = "rest"
      BY <1>0, <2>1, <2>4, FailedEnds DEF CommandFails, Running, TimesOut, Mismatch
    <3>2. LagsAtRest'
      BY <1>1, <2>1, <2>4, <3>1, CloseFails
    <3> QED
      BY <3>1, <3>2 DEF Lags
  <2>5. CASE TakeResponse \/ TakeMalformed
    <3>1. wire' = <<>> /\ pipe' = <<>>
      BY <1>1, <2>5, CloseAnswered DEF TakeResponse, TakeMalformed
    <3>2. clean' = (clean /\ wire' = <<>> /\ pipe' = <<>>)
      <4>1. CASE TakeResponse
        BY <1>0, <2>1, <4>1, AnsweredEnds DEF Operations
      <4>2. CASE TakeMalformed
        BY <1>0, <2>1, <4>2, FailedEnds DEF TakeMalformed
      <4> QED
        BY <2>5, <4>1, <4>2
    <3> QED
      BY <1>1, <3>1, <3>2
  <2>6. CASE RefusePoisoned
    BY <1>0, <2>1, <2>6, FailedEnds DEF RefusePoisoned, Running, Lags
  <2> QED
    BY <2>1, <2>3, <2>4, <2>5, <2>6
<1>2. ASSUME ~clean, fresh PROVE Lags'
  <2>0. Lags /\ ~(job = "open" /\ at = 2)
    BY <1>2 DEF Lagging, Lags
  <2>1. CASE UNCHANGED vars
    BY <2>0, <2>1 DEF vars, sessionVars, jobVars, txnVars, Lags, LagsAtRest, LagsBusy, LagsUnanswered, LagsAnswered,
       LagsTwice, Step
  <2>2. CASE BeginSession
    BY <2>2 DEF BeginSession
  <2>3. CASE Drop \/ \E o \in Operations : StartOp(o)
    <3>1. /\ sess /\ job = "none" /\ job' # "open" /\ wire' = PastCommands(wire) /\ pipe' = PastContainers(pipe)
          /\ cur' = cur /\ phase' = phase /\ poisoned' = poisoned
      BY <2>3 DEF Drop, StartOp, sessionVars, txnVars, Operations
    <3>2. phase = "rest"
      BY <1>0, <3>1
    <3>3. ~poisoned => LagsAtRest'
      BY <1>0, <2>0, <3>1, <3>2, RestAges DEF Lags
    <3> QED
      BY <3>1, <3>2, <3>3 DEF Lags
  <2>4. CASE Dies
    BY <2>4 DEF Dies, Lags
  <2>5. CASE RefusePoisoned
    BY <1>0, <2>0, <2>5, FailedEnds DEF RefusePoisoned, Running, Lags
  <2>6. CASE CommandFails
    BY <1>0, <2>0, <2>6, FailedEnds DEF CommandFails, Running, Poisons, Lags
  <2>7. CASE DataFails \/ TimesOut \/ Mismatch
    BY <1>0, <2>0, <2>7, FailedEnds DEF DataFails, TimesOut, Mismatch, Poisons, Lags
  <2>8. CASE SendCommand
    <3>1. job # "none" /\ phase = "rest" /\ ~poisoned /\ phase' # "rest" /\ job' = job /\ at' = at
      BY <2>8 DEF SendCommand, Running, jobVars
    <3>2. LagsBusy'
      BY <1>0, <2>0, <2>8, <3>1, LagSends DEF Lags
    <3> QED
      BY <2>0, <3>1, <3>2 DEF Lags
  <2>9. CASE SendData
    <3>1. phase = "data" /\ phase' # "rest" /\ job' = job /\ at' = at
      BY <2>9 DEF SendData, jobVars
    <3>2. LagsBusy'
      BY <1>0, <2>0, <2>9, <3>1, LagSendsData DEF Lags
    <3> QED
      BY <2>0, <3>1, <3>2 DEF Lags
  <2>10. CASE TakeData
    <3>1. phase = "reply" /\ phase' # "rest" /\ job' = job /\ at' = at
      BY <2>10 DEF TakeData
    <3>2. LagsBusy'
      BY <1>0, <2>0, <2>10, <3>1, LagTakesData DEF Lags
    <3> QED
      BY <2>0, <3>1, <3>2 DEF Lags
  <2>11. CASE TakeResponse \/ TakeMalformed
    <3>1. /\ phase = "reply" /\ phase' = "rest" /\ pipe # <<>> /\ Head(pipe).kind = "response"
          /\ wire' = OlderCommands(wire) /\ pipe' = PastContainers(Tail(pipe)) /\ cur' = cur
      BY <2>11 DEF TakeResponse, TakeMalformed
    <3>2. LagsAtRest'
      BY <1>0, <2>0, <3>1, LagTakesResponse DEF Lags
    <3>3. job' # "open"
      <4>1. CASE TakeResponse
        <5>1. job = "open" => at = 3
          BY <2>0 DEF Lags
        <5>2. job # "none"
          BY <1>0, <3>1
        <5>3. \/ job = "open" /\ (at = 1 \/ at = 2)
              \/ job \in Operations /\ job' = job
              \/ job' = "none"
          BY <1>0, <4>1, <5>2, AnsweredEnds
        <5> QED
          BY <5>1, <5>3 DEF Operations
      <4>2. CASE TakeMalformed
        BY <1>0, <2>0, <3>1, <4>2, FailedEnds DEF TakeMalformed
      <4> QED
        BY <2>11, <4>1, <4>2
    <3> QED
      BY <3>1, <3>2, <3>3 DEF Lags
  <2>12. CASE BodyActs
    <3>1. UNCHANGED <<sess, poisoned, job, at, phase>>
      BY <2>12 DEF BodyActs, txnVars
    <3>2. /\ LagsAtRest => LagsAtRest'
          /\ LagsBusy /\ phase # "rest" => LagsBusy'
      BY <1>0, <2>12, LagBodyActs
    <3> QED
      BY <2>0, <3>1, <3>2 DEF Lags
  <2>13. CASE BodyForgets
    <3>1. UNCHANGED <<sess, poisoned, job, at, phase>>
      BY <2>13 DEF BodyForgets, txnVars, sessionVars, jobVars
    <3>2. ~LagsAtRest /\ ~LagsBusy
      BY <1>0, <2>13, LagForgets
    <3> QED
      BY <2>0, <3>1, <3>2 DEF Lags
  <2> QED
    BY <2>1, <2>2, <2>3, <2>4, <2>5, <2>6, <2>7, <2>8, <2>9, <2>10, <2>11, <2>12, <2>13 DEF Next
<1>3. BeginSession \/ fresh
  BY FreshStays
<1>4. ~BeginSession
  BY DEF BeginSession
<1> QED
  BY <1>1, <1>2, <1>3, <1>4

\* While nothing was noticed, an operation is before its write.
LEMMA BeforeItsWrite ==
    ASSUME TypeOK, NothingUnnoticed, fresh, ~clean, job # "none", job \in Operations => matched
    PROVE  /\ ~acted /\ ~PendingIn(wire) /\ ~Changes(Step)
           /\ job \in Operations => at = 1 /\ at < WriteAt[job]
<1>1. ~acted /\ ~PendingIn(wire) /\ (job \in Operations => at = 1)
  BY DEF NothingUnnoticed
<1>2. job \in Operations => WriteAt[job] > 1
  BY DEF WriteAt, Operations
<1> QED
  BY <1>1, <1>2, ScriptFacts

\* A step that fails then is reported as failed, and has changed nothing.
LEMMA FailsUnnoticed ==
    ASSUME TypeOK, NothingUnnoticed, fresh, ~clean, job # "none", ~(job = "open" /\ at = 2),
           NEW sure, NEW next, StepFails(sure, next), acted' = acted,
           PendingIn(wire') => PendingIn(wire) \/ Changes(Step),
           foreign' => ~matched', matched' => matched
    PROVE  NothingUnnoticed'
<1>1. /\ job' = "none"
      /\ report' = [of |-> job, what |-> IF job = "open" THEN "failed"
                                         ELSE IF job = "drop" THEN "ok" ELSE FailedOutcome(sure)]
  BY FailedEnds
<1>2. job \in Operations \/ job = "open" \/ job = "drop"
  BY DEF TypeOK, Jobs
<1>3. CASE job \in Operations
  <2>1. matched' => at < WriteAt[job] /\ ~acted /\ ~PendingIn(wire')
    BY <1>3, BeforeItsWrite
  <2>2. matched' => report'.what = "failed"
    BY <1>1, <1>3, <2>1 DEF FailedOutcome, Operations
  <2> QED
    BY <1>1, <2>1, <2>2 DEF NothingUnnoticed, PendingIn, Operations
<1>4. CASE job \notin Operations
  <2>1. ~acted /\ ~PendingIn(wire')
    BY <1>4, BeforeItsWrite
  <2>2. report'.of \notin Operations
    BY <1>1, <1>4
  <2> QED
    BY <1>1, <2>1, <2>2 DEF NothingUnnoticed, PendingIn, Operations
<1> QED
  BY <1>3, <1>4

\* What an operation takes in a session that lags it notices.
LEMMA TakesNoticed ==
    ASSUME TypeOK, SafetyParts, Lagging, NothingUnnoticed, fresh, ~clean, phase = "reply", pipe # <<>>, Taken(Head(pipe))
    PROVE  /\ job # "open" => ~matched'
           /\ foreign' => ~matched'
           /\ matched' => matched
<1>0. job # "none" /\ sess /\ ~poisoned
  BY DEF SafetyParts, RunsInSession
<1>1. Left(Head(pipe), cur, job)
  BY <1>0, LagReads DEF Lagging, Lags
<1>2. job # "open" => ~matched'
  BY <1>1 DEF Left, Taken, Deviates
<1>3. matched' => matched
  BY DEF Taken
<1>4. foreign' => ~matched'
  BY <1>2, <1>3 DEF Taken, NothingUnnoticed
<1> QED
  BY <1>2, <1>3, <1>4

\* An operation of a session that lags has taken nothing that it did not note.
LEMMA UnnoticedStep == IInv /\ OwnIds /\ Lagging /\ NothingUnnoticed /\ [Next]_vars => NothingUnnoticed'
<1> SUFFICES ASSUME IInv, OwnIds, Lagging, NothingUnnoticed, [Next]_vars, fresh', ~clean' PROVE NothingUnnoticed'
  BY DEF NothingUnnoticed
<1>0. /\ TypeOK /\ SafetyParts /\ (job # "none" => sess) /\ (phase # "rest" => job # "none" /\ sess /\ ~poisoned)
      /\ wire \in Seq(Commands) /\ pipe \in Seq(Containers) /\ phase \in {"rest", "data", "reply"}
      /\ (phase = "data" => HasData(Step)) /\ (job # "none" => report = NoReport)
  BY Parts DEF TypeOK, SafetyParts, RunsInSession
<1>1. ASSUME clean, job = "open", at = 2,
             CommandFails \/ DataFails \/ TimesOut \/ Mismatch \/ TakeResponse \/ TakeMalformed \/ RefusePoisoned
      PROVE  NothingUnnoticed'
  <2>1. ~HasData(Step) /\ ~Changes(Step)
    BY <1>1 DEF Step, Script, OpenScript, HasData, Changes
  <2>2. ~DataFails
    BY <1>0, <2>1 DEF DataFails
  <2>3. ~TakeResponse /\ ~TakeMalformed
    <3>1. ASSUME TakeResponse \/ TakeMalformed PROVE wire' = <<>> /\ pipe' = <<>>
      BY <1>1, <3>1, CloseAnswered DEF TakeResponse, TakeMalformed
    <3>2. ASSUME TakeResponse \/ TakeMalformed PROVE clean' = (clean /\ wire' = <<>> /\ pipe' = <<>>)
      BY <1>0, <1>1, <3>2, FailedEnds, AnsweredEnds DEF TakeMalformed, Operations
    <3> QED
      BY <1>1, <3>1, <3>2
  <2>4. ~acted /\ ~PendingIn(wire) /\ ~foreign
    BY <1>0, <1>1 DEF SafetyParts, WriteInOrder, AnswersAreOwn, Operations, Pending, PendingIn
  <2>5. /\ job' = "open" /\ report' = NoReport /\ acted' = acted /\ foreign' = foreign
    BY <1>0, <1>1, <2>2, <2>3, FailedEnds DEF CommandFails, TimesOut, Mismatch, RefusePoisoned, Running
  <2>6. ~PendingIn(wire')
    <3>1. CASE RefusePoisoned
      BY <2>4, <3>1 DEF RefusePoisoned
    <3>2. CASE CommandFails
      <4>1. PICK w \in {Append(wire, Command), wire} : Poisons(w, pipe)
        BY <3>2 DEF CommandFails
      <4>2. Command \in Commands /\ Command.step = Step
        BY <1>0, <1>1, CommandType
      <4>3. w \in Seq(Commands) /\ ~PendingIn(w)
        <5>1. /\ Append(wire, Command) \in Seq(Commands)
              /\ PendingIn(Append(wire, Command)) => PendingIn(wire) \/ (Changes(Command.step) /\ Command.whole)
          BY <1>0, <4>2, PendingMoves, AppendProperties
        <5> QED
          BY <1>0, <2>1, <2>4, <4>1, <4>2, <5>1
      <4> QED
        BY <1>0, <4>1, <4>3, Poisoning
    <3>3. CASE TimesOut \/ Mismatch
      <4>1. PICK p \in {pipe} \cup (IF pipe = <<>> THEN {} ELSE {Tail(pipe)}) : Poisons(wire, p)
        BY <3>3 DEF TimesOut, Mismatch
      <4>2. p \in Seq(Containers)
        BY <1>0, <4>1, HeadTailProperties
      <4> QED
        BY <1>0, <2>4, <4>1, <4>2, Poisoning
    <3> QED
      BY <1>1, <2>2, <2>3, <3>1, <3>2, <3>3
  <2> QED
    BY <2>4, <2>5, <2>6 DEF NothingUnnoticed, PendingIn, Operations, NoReport
<1>2. ASSUME clean
      PROVE  /\ job = "open" /\ at = 2
             /\ CommandFails \/ DataFails \/ TimesOut \/ Mismatch \/ TakeResponse \/ TakeMalformed \/ RefusePoisoned
  BY <1>2, LagBegins
<1>3. ASSUME ~clean, fresh PROVE NothingUnnoticed'
  <2>0. Lags /\ ~(job = "open" /\ at = 2)
    BY <1>3 DEF Lagging, Lags
  <2>1. CASE UNCHANGED vars
    BY <1>3, <2>1 DEF vars, sessionVars, jobVars, NothingUnnoticed, PendingIn
  <2>2. CASE Drop \/ \E o \in Operations : StartOp(o)
    <3>1. foreign' = FALSE /\ acted' = FALSE /\ at' = 1 /\ report' = NoReport /\ wire' = PastCommands(wire)
      BY <2>2 DEF Drop, StartOp
    <3>2. ~PendingIn(wire')
      BY <1>0, <3>1, AgedCommands DEF PendingIn
    <3> QED
      BY <3>1, <3>2 DEF NothingUnnoticed, PendingIn, NoReport
  <2>3. CASE Dies
    BY <1>3, <2>3 DEF Dies, NothingUnnoticed, NoReport, Operations
  <2>4. CASE RefusePoisoned
    <3>1. /\ StepFails(TRUE, txid) /\ job # "none" /\ acted' = acted /\ foreign' = foreign /\ matched' = matched
          /\ wire' = wire
      BY <2>4 DEF RefusePoisoned, Running
    <3>2. foreign' => ~matched'
      BY <1>3, <3>1 DEF NothingUnnoticed
    <3> QED
      BY <1>0, <1>3, <2>0, <3>1, <3>2, FailsUnnoticed
  <2>5. CASE CommandFails
    <3>1. /\ StepFails(HasData(Step), NextId(txid)) /\ job # "none"
          /\ acted' = acted /\ foreign' = foreign /\ matched' = matched
      BY <2>5 DEF CommandFails, Running
    <3>2. foreign' => ~matched'
      BY <1>3, <3>1 DEF NothingUnnoticed
    <3>3. PICK w \in {Append(wire, Command), wire} : Poisons(w, pipe)
      BY <2>5 DEF CommandFails
    <3>4. Command \in Commands /\ Command.step = Step
      BY <1>0, <3>1, CommandType
    <3>5. w \in Seq(Commands) /\ (PendingIn(w) => PendingIn(wire) \/ Changes(Step))
      <4>1. /\ Append(wire, Command) \in Seq(Commands)
            /\ PendingIn(Append(wire, Command)) => PendingIn(wire) \/ (Changes(Command.step) /\ Command.whole)
        BY <1>0, <3>4, PendingMoves, AppendProperties
      <4> QED
        BY <1>0, <3>3, <3>4, <4>1
    <3>6. PendingIn(wire') => PendingIn(wire) \/ Changes(Step)
      BY <1>0, <3>3, <3>5, Poisoning
    <3> QED
      BY <1>0, <1>3, <2>0, <3>1, <3>2, <3>6, FailsUnnoticed
  <2>6. CASE DataFails
    <3>1. /\ StepFails(TRUE, txid) \/ StepFails(FALSE, txid)
          /\ phase = "data" /\ job # "none" /\ acted' = acted /\ foreign' = foreign /\ matched' = matched
      BY <1>0, <2>6 DEF DataFails
    <3>2. foreign' => ~matched'
      BY <1>3, <3>1 DEF NothingUnnoticed
    <3>3. PICK w \in {Completed(wire), wire} : Poisons(w, pipe)
      BY <2>6 DEF DataFails
    <3>4. w \in Seq(Commands) /\ (PendingIn(w) => PendingIn(wire) \/ Changes(Step))
      <4>1. wire # <<>> /\ wire[Len(wire)].step = Step
        BY <1>0, <2>0, <3>1, LagLast
      <4>2. \E x \in Commands : TRUE
        BY <1>0, <3>1, CommandType
      <4> QED
        BY <1>0, <3>3, <4>1, <4>2, PendingMoves
    <3>5. PendingIn(wire') => PendingIn(wire) \/ Changes(Step)
      BY <1>0, <3>3, <3>4, Poisoning
    <3> QED
      BY <1>0, <1>3, <2>0, <3>1, <3>2, <3>5, FailsUnnoticed
  <2>7. CASE TimesOut \/ Mismatch
    <3>1. /\ StepFails(FALSE, txid) /\ phase = "reply" /\ job # "none"
          /\ acted' = acted /\ foreign' = foreign /\ matched' = matched
      BY <1>0, <2>7 DEF TimesOut, Mismatch
    <3>2. foreign' => ~matched'
      BY <1>3, <3>1 DEF NothingUnnoticed
    <3>3. PICK p \in {pipe} \cup (IF pipe = <<>> THEN {} ELSE {Tail(pipe)}) : Poisons(wire, p)
      BY <2>7 DEF TimesOut, Mismatch
    <3>4. p \in Seq(Containers)
      BY <1>0, <3>3, HeadTailProperties
    <3>5. PendingIn(wire') => PendingIn(wire)
      BY <1>0, <3>3, <3>4, Poisoning
    <3> QED
      BY <1>0, <1>3, <2>0, <3>1, <3>2, <3>5, FailsUnnoticed
  <2>8. CASE TakeMalformed
    <3>1. /\ StepFails(FALSE, txid) /\ phase = "reply" /\ job # "none" /\ acted' = acted
          /\ pipe # <<>> /\ Taken(Head(pipe)) /\ wire' = OlderCommands(wire)
      BY <1>0, <2>8 DEF TakeMalformed
    <3>2. (foreign' => ~matched') /\ (matched' => matched)
      BY <1>0, <1>3, <3>1, TakesNoticed
    <3>3. PendingIn(wire') => PendingIn(wire)
      BY <1>0, <3>1, Ageing
    <3> QED
      BY <1>0, <1>3, <2>0, <3>1, <3>2, <3>3, FailsUnnoticed
  <2>9. CASE TakeResponse
    <3>1. /\ phase = "reply" /\ job # "none" /\ acted' = acted
          /\ pipe # <<>> /\ Taken(Head(pipe)) /\ wire' = OlderCommands(wire)
      BY <1>0, <2>9 DEF TakeResponse
    <3>2. (foreign' => ~matched') /\ (matched' => matched) /\ (job # "open" => ~matched')
      BY <1>0, <1>3, <3>1, TakesNoticed
    <3>3. CASE job # "open"
      <4>1. ~matched'
        BY <3>2, <3>3
      <4>2. job' # "none" => job' \in Operations
        BY <1>0, <2>0, <2>9, <3>1, <3>3, AnsweredEnds
      <4> QED
        BY <4>1, <4>2 DEF NothingUnnoticed
    <3>4. CASE job = "open"
      <4>1. ~acted /\ ~PendingIn(wire)
        BY <1>3, <3>1, <3>4 DEF NothingUnnoticed, Operations
      <4>2. PendingIn(wire') => PendingIn(wire)
        BY <1>0, <3>1, Ageing
      <4>3. job' = "none" /\ report'.of = "open"
        BY <1>0, <2>0, <2>9, <3>1, <3>4, AnsweredEnds DEF Operations, Lags
      <4> QED
        BY <3>1, <3>2, <4>1, <4>2, <4>3 DEF NothingUnnoticed, PendingIn, Operations
    <3> QED
      BY <3>3, <3>4
  <2>10. CASE TakeData
    <3>1. /\ phase = "reply" /\ job # "none" /\ pipe # <<>> /\ Taken(Head(pipe))
          /\ UNCHANGED <<acted, wire, job, at, report>>
      BY <1>0, <2>10 DEF TakeData
    <3>2. (foreign' => ~matched') /\ (matched' => matched)
      BY <1>0, <1>3, <3>1, TakesNoticed
    <3> QED
      BY <1>3, <3>1, <3>2 DEF NothingUnnoticed, PendingIn
  <2>11. CASE SendCommand
    <3>1. /\ phase = "rest" /\ job # "none" /\ wire' = Append(wire, Command)
          /\ UNCHANGED <<acted, foreign, matched, job, at, report>>
      BY <2>11 DEF SendCommand, Running, jobVars
    <3>2. Command \in Commands /\ Command.step = Step
      BY <1>0, <3>1, CommandType
    <3>3. PendingIn(wire') => PendingIn(wire) \/ Changes(Step)
      BY <1>0, <3>1, <3>2, PendingMoves
    <3>4. (job \in Operations => matched) => ~PendingIn(wire')
      BY <1>0, <1>3, <3>1, <3>3, BeforeItsWrite
    <3> QED
      BY <1>0, <1>3, <3>1, <3>4 DEF NothingUnnoticed, PendingIn, NoReport
  <2>12. CASE SendData
    <3>1. /\ phase = "data" /\ job # "none" /\ wire' = Completed(wire)
          /\ UNCHANGED <<acted, foreign, matched, job, at, report>>
      BY <1>0, <2>12 DEF SendData, jobVars
    <3>2. wire # <<>> /\ wire[Len(wire)].step = Step
      BY <1>0, <2>0, <3>1, LagLast
    <3>3. \E x \in Commands : TRUE
      BY <1>0, <3>1, CommandType
    <3>4. PendingIn(wire') => PendingIn(wire) \/ Changes(Step)
      BY <1>0, <3>1, <3>2, <3>3, PendingMoves
    <3>5. (job \in Operations => matched) => ~PendingIn(wire')
      BY <1>0, <1>3, <3>1, <3>4, BeforeItsWrite
    <3> QED
      BY <1>0, <1>3, <3>1, <3>5 DEF NothingUnnoticed, PendingIn, NoReport
  <2>13. CASE BodyActs
    <3>1. /\ wire # <<>> /\ Head(wire).whole /\ wire' = Tail(wire)
          /\ UNCHANGED <<foreign, matched, job, at, report>>
          /\ acted' = acted \/ acted' = (acted \/ (Changes(Head(wire).step) /\ Head(wire).age # "past"))
      BY <2>13 DEF BodyActs
    <3>2. Head(wire) = wire[1] /\ Len(wire) \in Nat \ {0}
      BY <1>0, <3>1, HeadTailProperties, EmptySeq
    <3>3. ~acted /\ ~PendingIn(wire) => ~acted'
      <4>1. 1 \in 1..Len(wire) /\ wire[1].whole
        BY <3>1, <3>2
      <4>2. ~PendingIn(wire) => ~(Changes(Head(wire).step) /\ Head(wire).age # "past")
        BY <3>2, <4>1 DEF PendingIn
      <4> QED
        BY <3>1, <4>2
    <3>4. acted => acted'
      BY <1>0, <3>1 DEF TypeOK
    <3>5. \E x \in Commands : TRUE
      BY <1>0, <3>1, HeadTailProperties
    <3>6. PendingIn(wire') => PendingIn(wire)
      BY <1>0, <3>1, <3>5, PendingMoves
    <3> QED
      BY <1>3, <3>1, <3>3, <3>4, <3>6 DEF NothingUnnoticed, PendingIn
  <2>14. CASE BodyForgets
    <3>1. wire # <<>> /\ wire' = Tail(wire) /\ UNCHANGED <<acted, foreign, matched, job, at, report>>
      BY <2>14 DEF BodyForgets, jobVars
    <3>2. \E x \in Commands : TRUE
      BY <1>0, <3>1, HeadTailProperties
    <3>3. PendingIn(wire') => PendingIn(wire)
      BY <1>0, <3>1, <3>2, PendingMoves
    <3> QED
      BY <1>3, <3>1, <3>3 DEF NothingUnnoticed, PendingIn
  <2>15. ~BeginSession
    BY DEF BeginSession
  <2> QED
    BY <2>1, <2>2, <2>3, <2>4, <2>5, <2>6, <2>7, <2>8, <2>9, <2>10, <2>11, <2>12, <2>13, <2>14, <2>15 DEF Next
<1>4. BeginSession \/ fresh
  BY FreshStays
<1>5. ~BeginSession
  BY DEF BeginSession
<1> QED
  BY <1>1, <1>2, <1>3, <1>4, <1>5

LEMMA LagHolds == IInv /\ LagInv /\ [Next]_vars => LagInv'
BY IdsStep, OwnIdsStep, LagStep, UnnoticedStep DEF LagInv

---------------------------------------------------------------------------
(* The theorems.                                                         *)

\* The types.
THEOREM SessionTypes == Spec => []TypeOK
<1>1. IInv => TypeOK
  BY DEF IInv
<1> QED
  BY <1>1, Invariance, PTL

\* A transaction of a session that started in order takes only answers to its own command: the reply
\* loop, the ids and poisoning together keep a late answer from being taken for another's.
THEOREM SessionAnswersAreOwn == Spec => []AnswersAreOwn
<1>1. IInv => AnswersAreOwn
  BY DEF IInv
<1> QED
  BY <1>1, Invariance, PTL

\* What an operation reports of its write is so: one reported as failed has changed nothing and
\* will not, one reported as done has been done.
THEOREM SessionReportIsTrue == Spec => []ReportIsTrue
<1>1. IInv => ReportIsTrue
  BY DEF IInv, ReportIsTrue
<1> QED
  BY <1>1, Invariance, PTL

\* OpenSession of a session that began with nothing outstanding fails only if something went wrong
\* in that session, whatever an earlier one left the body in.
THEOREM SessionOpens == Spec => []OpenFailsForCause
<1>1. Init => OpenInv
  BY OpenInit
<1>2. IInv /\ OpenInv /\ [Next]_vars => OpenInv'
  BY OpenStep
<1>3. OpenInv => OpenFailsForCause
  BY DEF OpenInv
<1> QED
  BY <1>1, <1>2, <1>3, Invariance, PTL DEF Spec

\* In a session that lags after a failed CloseSession, no reply of another command is taken unnoticed,
\* and what an operation reports is so where its replies matched.
THEOREM SessionLagIsNoticed == Spec => []LagIsNoticed
<1>1. Init => LagInv
  BY DEF Init, LagInv, IdsFollow, OwnIds, Lagging, NothingUnnoticed
<1>2. IInv /\ LagInv /\ [Next]_vars => LagInv'
  BY LagHolds
<1>3. LagInv => LagIsNoticed
  BY DEF LagInv, NothingUnnoticed, LagIsNoticed, Pending, PendingIn
<1> QED
  BY <1>1, <1>2, <1>3, Invariance, PTL DEF Spec
=============================================================================
