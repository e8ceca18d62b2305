----------------------------- MODULE PtpSession -----------------------------
(***************************************************************************)
(* Raw PTP over USB (src/ptp_usb.rs): sessions with one body over a pair of *)
(* bulk pipes, the transactions of a session, and the operations made of   *)
(* them.                                                                   *)
(*                                                                         *)
(* The body is slow, and answers when it answers: what a transaction that  *)
(* failed left on its way may still be acted on, and its answer may still  *)
(* come.  A container says which command it answers only by the id the     *)
(* session gave that command.  `age' says whose a command or a container   *)
(* really is, which no code can see: the running transaction's ("txn"),    *)
(* an earlier one's of the running operation ("op"), or older ("past").    *)
(***************************************************************************)
EXTENDS Integers, Sequences

CONSTANTS
    MaxId,        \* the reserved id 0xFFFFFFFF: ids are below it
    MaxSessions,  \* bound: sessions of a behaviour
    MaxOps,       \* bound: operations of a behaviour
    MaxFaults     \* bound: things that go wrong

ASSUME SessionAssumption ==
    /\ MaxId \in Nat /\ MaxId > 3
    /\ MaxSessions \in Nat /\ MaxOps \in Nat /\ MaxFaults \in Nat

VARIABLES
    sess,      \* a session exists: its process has the interface
    isOpen,    \* session_open
    poisoned,  \* poisoned is set
    txid,      \* transaction_id: the id of the next command
    cur,       \* the id of the last command of this session
    job,       \* what the session is at: "none", "open", "drop" or an operation
    at,        \* the step of the job
    phase,     \* of the transaction: "rest", "data" (command sent) or "reply"
    started,   \* data_phase_started
    data,      \* a data container was taken
    matched,   \* no deviation was noted in this operation
    wire,      \* commands the body has not acted on
    pipe,      \* containers the session has not read
    bodyOpen,  \* the body has a PTP session open
    report,    \* how the last job ended
    acted,     \* the write of this operation took effect
    foreign,   \* a container of another transaction was taken in this operation
    clean,     \* nothing was outstanding when the session, or its second OpenSession, began
    fresh,     \* nothing was outstanding when the session began
    trouble,   \* something went wrong in this session
    sessions, ops, faults

sessionVars == <<sess, isOpen, poisoned, txid, cur, clean, fresh, trouble>>
jobVars == <<job, at, report, acted, foreign, matched>>
txnVars == <<phase, started, data>>
bounds == <<sessions, ops, faults>>
vars == <<sessionVars, jobVars, txnVars, wire, pipe, bodyOpen, bounds>>

---------------------------------------------------------------------------
(* The operations: their transactions in order.                             *)

Operations == {"get", "set", "iptc", "ftp", "ftp_plain", "delete"}
Jobs == Operations \cup {"open", "drop"}

OpenScript == <<"open", "close", "open">>   \* the last two only if the body had a session open
DropScript == <<"close">>
GetScript == <<"value">>
SetScript == <<"desc", "value", "set", "value">>
IptcScript == <<"iptc_read", "iptc_write", "iptc_read">>
PlanScript == <<"ftp_setup", "ftp_info">>
SendScript == <<"ftp_setup", "ftp_write">>
VerifyScript == <<"ftp_setup", "ftp_info", "ftp_read">>
DeleteScript == <<"ftp_setup", "ftp_info", "ftp_delete", "ftp_setup", "ftp_info">>

Script == [open |-> OpenScript, drop |-> DropScript, get |-> GetScript, set |-> SetScript,
           iptc |-> IptcScript, ftp |-> PlanScript \o SendScript \o VerifyScript,
           ftp_plain |-> SendScript, delete |-> DeleteScript]

\* The step of an operation that changes the camera (past the end: none does).
WriteAt == [get |-> 9, set |-> 3, iptc |-> 2, ftp |-> 4, ftp_plain |-> 2, delete |-> 3, open |-> 9, drop |-> 9]

Steps == {"open", "close", "value", "desc", "set", "iptc_read", "iptc_write",
          "ftp_setup", "ftp_info", "ftp_read", "ftp_write", "ftp_delete"}
Changes(s) == s \in {"set", "iptc_write", "ftp_write", "ftp_delete"}
HasData(s) == s \in {"set", "iptc_write", "ftp_write", "ftp_setup"}
NeedsData(s) == s \in {"value", "desc", "iptc_read", "ftp_info", "ftp_read"}

\* TxidCheck::Enforce; the other steps note a deviation and go on.
Enforces(s) == s \in {"open", "close", "value", "desc", "set"}

Step == Script[job][at]

NextId(id) == IF id >= MaxId - 1 THEN 1 ELSE id + 1

---------------------------------------------------------------------------
(* Commands and containers.                                                *)

Ages == {"txn", "op", "past"}
Commands == [step : Steps, id : 0..MaxId, whole : BOOLEAN, age : Ages]
Containers == [kind : {"data", "response"}, step : Steps, id : 0..MaxId,
               code : {"ok", "already", "refused"}, age : Ages]

Aged(c, age) == [step |-> c.step, id |-> c.id, whole |-> c.whole, age |-> age]
Older(age) == IF age = "txn" THEN "op" ELSE age
OlderCommands(s) == [i \in 1..Len(s) |-> Aged(s[i], Older(s[i].age))]
PastCommands(s) == [i \in 1..Len(s) |-> Aged(s[i], "past")]
Container(c, age) == [kind |-> c.kind, step |-> c.step, id |-> c.id, code |-> c.code, age |-> age]
PastContainers(s) == [i \in 1..Len(s) |-> Container(s[i], "past")]

NoReport == [of |-> "none", what |-> "none"]
Reports == [of : Jobs \cup {"none"}, what : {"none", "ok", "failed", "unsure"}]

TypeOK ==
    /\ sess \in BOOLEAN /\ isOpen \in BOOLEAN /\ poisoned \in BOOLEAN
    /\ txid \in 0..MaxId /\ cur \in 0..MaxId
    /\ job \in Jobs \cup {"none"} /\ at \in 1..7
    /\ job # "none" => at <= Len(Script[job])
    /\ phase \in {"rest", "data", "reply"}
    /\ phase # "rest" => job # "none"
    /\ started \in BOOLEAN /\ data \in BOOLEAN /\ matched \in BOOLEAN
    /\ wire \in Seq(Commands) /\ pipe \in Seq(Containers)
    /\ bodyOpen \in BOOLEAN
    /\ report \in Reports
    /\ acted \in BOOLEAN /\ foreign \in BOOLEAN
    /\ clean \in BOOLEAN /\ fresh \in BOOLEAN /\ trouble \in BOOLEAN
    /\ sessions \in 0..MaxSessions /\ ops \in 0..MaxOps /\ faults \in 0..MaxFaults

\* The first session finds the body as another program left it.
Init ==
    /\ sess = FALSE /\ isOpen = FALSE /\ poisoned = FALSE
    /\ txid = 0 /\ cur = MaxId
    /\ job = "none" /\ at = 1 /\ phase = "rest"
    /\ started = FALSE /\ data = FALSE /\ matched = TRUE
    /\ wire = <<>> /\ pipe = <<>>
    /\ bodyOpen \in BOOLEAN
    /\ report = NoReport
    /\ acted = FALSE /\ foreign = FALSE
    /\ clean = TRUE /\ fresh = TRUE /\ trouble = FALSE
    /\ sessions = 0 /\ ops = 0 /\ faults = 0

---------------------------------------------------------------------------
(* How a job goes on.                                                      *)

\* The job ends with `what'.  An OpenSession that failed, and a drop, end the session.
EndJob(what) ==
    /\ report' = [of |-> job, what |-> what]
    /\ job' = "none" /\ at' = 1
    /\ isOpen' = (job # "drop" /\ (isOpen \/ (job = "open" /\ what = "ok")))
    /\ sess' = ~(job = "drop" \/ (job = "open" /\ what # "ok"))
    /\ UNCHANGED clean

\* To step n of open_ptp_session: the transaction id starts again.
Reopen(n) ==
    /\ at' = n
    /\ txid' = 0
    /\ UNCHANGED <<job, report, isOpen, sess>>

\* What an operation reports when its step fails; `sure': nothing that changes was handed over.
FailedOutcome(sure) ==
    IF at < WriteAt[job] \/ (at = WriteAt[job] /\ sure) THEN "failed"
    ELSE IF at = WriteAt[job] \/ job = "delete" THEN "unsure" ELSE "ok"

\* The transaction of this step ended with an error; the next would have the id `next'.
StepFails(sure, next) ==
    \/ /\ job = "open" /\ at = 2
       /\ Reopen(3)
       /\ clean' = (clean /\ wire' = <<>> /\ pipe' = <<>>)
    \/ /\ job = "open" /\ at # 2
       /\ EndJob("failed") /\ txid' = next
    \/ /\ job = "drop"
       /\ EndJob("ok") /\ txid' = next
    \/ /\ job \in Operations
       /\ EndJob(FailedOutcome(sure)) /\ txid' = next

\* Plausible bug: a session that the body still has open is not closed and opened again.
OpenAnsweredOnce(code) ==
    \/ /\ at # 2 /\ code = "ok"
       /\ EndJob("ok") /\ UNCHANGED txid
    \/ /\ at = 2
       /\ Reopen(3)
       /\ clean' = (clean /\ wire' = <<>> /\ pipe' = <<>>)
    \/ /\ at # 2 /\ code # "ok"
       /\ EndJob("failed") /\ UNCHANGED txid

\* open_ptp_session with the answer to its transaction.
OpenAnswered(code) ==
    \/ /\ at # 2 /\ code = "ok"
       /\ EndJob("ok") /\ UNCHANGED txid
    \/ /\ at = 1 /\ code = "already"
       /\ Reopen(2)
       /\ UNCHANGED clean
    \/ /\ at = 2
       /\ Reopen(3)
       /\ clean' = (clean /\ wire' = <<>> /\ pipe' = <<>>)
    \/ /\ \/ at = 1 /\ code = "refused"
          \/ at = 3 /\ code # "ok"
       /\ EndJob("failed") /\ UNCHANGED txid

\* An operation with the answer to its transaction.  `useful': its contents pass the checks made of
\* them (a descriptor that allows the write, a slot that exists, a value that decodes).
OpAnswered(code, useful) ==
    LET good == code = "ok" /\ (NeedsData(Step) => data /\ useful) IN
    \/ /\ good /\ at < Len(Script[job])
       /\ at' = at + 1
       /\ UNCHANGED <<job, report, isOpen, sess, txid, clean>>
    \/ /\ good /\ at = Len(Script[job])
       /\ EndJob("ok") /\ UNCHANGED txid
    \/ /\ ~good
       /\ EndJob(FailedOutcome(TRUE)) /\ UNCHANGED txid

---------------------------------------------------------------------------
(* A session begins and ends.                                              *)

\* PtpUsbSession::open: the interface is claimed.  Setting the configuration may or may not drop
\* what an earlier session left.
BeginSession ==
    /\ ~sess /\ sessions < MaxSessions
    /\ sess' = TRUE /\ isOpen' = FALSE /\ poisoned' = FALSE
    /\ txid' = 0 /\ cur' = MaxId
    /\ job' = "open" /\ at' = 1
    /\ wire' \in {PastCommands(wire), <<>>} /\ pipe' \in {PastContainers(pipe), <<>>}
    /\ clean' = (wire' = <<>> /\ pipe' = <<>>) /\ fresh' = clean'
    /\ trouble' = FALSE
    /\ report' = NoReport /\ acted' = FALSE /\ foreign' = FALSE /\ matched' = TRUE
    /\ sessions' = sessions + 1
    /\ UNCHANGED <<txnVars, bodyOpen, ops, faults>>

\* A caller starts an operation.
StartOp(o) ==
    /\ sess /\ isOpen /\ job = "none" /\ ops < MaxOps
    /\ ops' = ops + 1
    /\ acted' = FALSE /\ foreign' = FALSE /\ matched' = TRUE
    /\ wire' = PastCommands(wire) /\ pipe' = PastContainers(pipe)
    /\ job' = o /\ at' = 1 /\ report' = NoReport
    /\ UNCHANGED <<sessionVars, txnVars, bodyOpen, sessions, faults>>

\* Drop: a session that is open is closed, unless it is poisoned.
Drop ==
    /\ sess /\ isOpen /\ job = "none"
    /\ wire' = PastCommands(wire) /\ pipe' = PastContainers(pipe)
    /\ acted' = FALSE /\ foreign' = FALSE /\ matched' = TRUE
    /\ job' = "drop" /\ at' = 1 /\ report' = NoReport
    /\ UNCHANGED <<sessionVars, txnVars, bodyOpen, bounds>>

\* The process dies, in an operation or not.
Dies ==
    /\ sess /\ faults < MaxFaults
    /\ faults' = faults + 1
    /\ sess' = FALSE /\ isOpen' = FALSE
    /\ job' = "none" /\ at' = 1 /\ phase' = "rest"
    /\ report' = NoReport
    /\ UNCHANGED <<poisoned, txid, cur, clean, fresh, trouble, acted, foreign, matched, started, data,
                   wire, pipe, bodyOpen, sessions, ops>>

---------------------------------------------------------------------------
(* One transaction.                                                        *)

Running == job # "none" /\ phase = "rest"

\* transact_within on a poisoned session: nothing is sent.
RefusePoisoned ==
    /\ Running /\ poisoned
    /\ StepFails(TRUE, txid)
    /\ started' = FALSE
    /\ UNCHANGED <<poisoned, cur, fresh, trouble, acted, foreign, matched, phase, data, wire, pipe, bodyOpen, bounds>>

\* The command as it is handed to the pipe; what has a data phase is whole only with its data.
Command == [step |-> Step, id |-> txid, whole |-> ~HasData(Step), age |-> "txn"]

\* run_transaction: the id is consumed as the command is sent.
SendCommand ==
    /\ Running /\ ~poisoned
    /\ wire' = Append(wire, Command)
    /\ cur' = txid /\ txid' = NextId(txid)
    /\ started' = FALSE /\ data' = FALSE
    /\ phase' = IF HasData(Step) THEN "data" ELSE "reply"
    /\ UNCHANGED <<sess, isOpen, poisoned, clean, fresh, trouble, jobVars, pipe, bodyOpen, bounds>>

\* The last command with its data.
Completed(s) == [s EXCEPT ![Len(s)] = [step |-> s[Len(s)].step, id |-> s[Len(s)].id, whole |-> TRUE, age |-> "txn"]]

\* The data container follows.
SendData ==
    /\ phase = "data"
    /\ started' = TRUE /\ phase' = "reply"
    /\ wire' = Completed(wire)
    /\ UNCHANGED <<sessionVars, jobVars, data, pipe, bodyOpen, bounds>>

\* Plausible bug: poison does not stop the session.
PoisonsNothing(w, p) ==
    /\ poisoned' = FALSE
    /\ wire' \in {OlderCommands(w), <<>>}
    /\ pipe' \in {PastContainers(p), <<>>}

\* poison: both halts are cleared, which may or may not drop what is under way.  The second
\* OpenSession lifts the poisoning that a failed CloseSession left.
Poisons(w, p) ==
    /\ poisoned' = ~(job = "open" /\ at = 2)
    /\ wire' \in {OlderCommands(w), <<>>}
    /\ pipe' \in {PastContainers(p), <<>>}

\* Something goes wrong on the bus.
Trouble == faults < MaxFaults /\ faults' = faults + 1 /\ trouble' = TRUE

\* The pipe does not take the command, or the program cannot tell that it did.
CommandFails ==
    /\ Running /\ ~poisoned
    /\ Trouble
    /\ cur' = txid
    /\ started' = FALSE /\ data' = FALSE
    /\ \E delivered \in BOOLEAN : Poisons(IF delivered THEN Append(wire, Command) ELSE wire, pipe)
    /\ StepFails(HasData(Step), NextId(txid))
    /\ UNCHANGED <<fresh, acted, foreign, matched, phase, bodyOpen, sessions, ops>>

\* Plausible bug: the data phase has started only once its container is out.
DataFailsUnstarted ==
    /\ phase = "data"
    /\ Trouble
    /\ started' = FALSE /\ phase' = "rest"
    /\ \E delivered \in BOOLEAN : Poisons(IF delivered THEN Completed(wire) ELSE wire, pipe)
    /\ StepFails(TRUE, txid)
    /\ UNCHANGED <<cur, fresh, acted, foreign, matched, data, bodyOpen, sessions, ops>>

\* The pipe does not take the data, or the program cannot tell that it did.
DataFails ==
    /\ phase = "data"
    /\ Trouble
    /\ started' = TRUE /\ phase' = "rest"
    /\ \E delivered \in BOOLEAN : Poisons(IF delivered THEN Completed(wire) ELSE wire, pipe)
    /\ StepFails(FALSE, txid)
    /\ UNCHANGED <<cur, fresh, acted, foreign, matched, data, bodyOpen, sessions, ops>>

\* The deadline passes, or what is read is cut short, garbled or too large.
TimesOut ==
    /\ phase = "reply"
    /\ Trouble
    /\ phase' = "rest"
    /\ \E rest \in {pipe} \cup (IF pipe = <<>> THEN {} ELSE {Tail(pipe)}) : Poisons(wire, rest)
    /\ StepFails(FALSE, txid)
    /\ UNCHANGED <<cur, fresh, acted, foreign, matched, started, data, bodyOpen, sessions, ops>>

\* Plausible bug: a reply is only told from another by the operation of its data.
DeviatesInData(c) == c.kind = "data" /\ c.step # Step

\* What a container shows of another command: its id, or the operation of its data.
Deviates(c) == c.id # cur \/ (c.kind = "data" /\ c.step # Step)

\* A container that is not this command's, where that is checked.
Mismatch ==
    /\ phase = "reply" /\ pipe # <<>>
    /\ Deviates(Head(pipe)) /\ Enforces(Step)
    /\ phase' = "rest"
    /\ trouble' = TRUE
    /\ Poisons(wire, Tail(pipe))
    /\ StepFails(FALSE, txid)
    /\ UNCHANGED <<cur, fresh, acted, foreign, matched, started, data, bodyOpen, bounds>>

\* A container is taken into the reply.
Taken(c) ==
    /\ ~(Deviates(c) /\ Enforces(Step))
    /\ matched' = (matched /\ ~Deviates(c))
    /\ foreign' = (foreign \/ (c.age # "txn" /\ job # "open"))

TakeData ==
    /\ phase = "reply" /\ pipe # <<>>
    /\ Head(pipe).kind = "data"
    /\ Taken(Head(pipe))
    /\ data' = TRUE
    /\ pipe' = Tail(pipe)
    /\ UNCHANGED <<sessionVars, job, at, report, acted, phase, started, wire, bodyOpen, bounds>>

\* The response ends the transaction; a code that is not OK fails the step.
TakeResponse ==
    /\ phase = "reply" /\ pipe # <<>>
    /\ Head(pipe).kind = "response"
    /\ Taken(Head(pipe))
    /\ phase' = "rest"
    /\ wire' = OlderCommands(wire) /\ pipe' = PastContainers(Tail(pipe))
    /\ \/ job = "open" /\ OpenAnswered(Head(pipe).code)
       \/ job = "drop" /\ EndJob("ok") /\ UNCHANGED txid
       \/ job \in Operations /\ \E useful \in BOOLEAN : OpAnswered(Head(pipe).code, useful)
    /\ poisoned' = (poisoned /\ ~(job = "open" /\ at = 2))
    /\ UNCHANGED <<cur, fresh, trouble, acted, started, data, bodyOpen, bounds>>

\* The response is read whole, but its parameters are not: the one failure that leaves the pipes in order.
TakeMalformed ==
    /\ phase = "reply" /\ pipe # <<>>
    /\ Head(pipe).kind = "response"
    /\ Taken(Head(pipe))
    /\ Trouble
    /\ phase' = "rest"
    /\ wire' = OlderCommands(wire) /\ pipe' = PastContainers(Tail(pipe))
    /\ StepFails(FALSE, txid)
    /\ UNCHANGED <<poisoned, cur, fresh, acted, started, data, bodyOpen, sessions, ops>>

---------------------------------------------------------------------------
(* The body.                                                               *)

Response(c, code) == [kind |-> "response", step |-> c.step, id |-> c.id, code |-> code, age |-> c.age]
DataOf(c) == [kind |-> "data", step |-> c.step, id |-> c.id, code |-> "ok", age |-> c.age]

\* The body acts on a command it has whole: it may refuse it, and then changes nothing.
BodyActs ==
    /\ wire # <<>>
    /\ LET c == Head(wire) IN
       /\ c.whole
       /\ wire' = Tail(wire)
       /\ \/ /\ c.step = "open"
             /\ pipe' = Append(pipe, Response(c, IF bodyOpen THEN "already" ELSE "ok"))
             /\ bodyOpen' = TRUE
             /\ UNCHANGED <<acted, trouble>>
          \/ /\ c.step = "close"
             /\ pipe' = Append(pipe, Response(c, IF bodyOpen THEN "ok" ELSE "refused"))
             /\ bodyOpen' = FALSE
             /\ UNCHANGED <<acted, trouble>>
          \/ /\ NeedsData(c.step)
             /\ pipe' = Append(Append(pipe, DataOf(c)), Response(c, "ok"))
             /\ UNCHANGED <<bodyOpen, acted, trouble>>
          \/ /\ NeedsData(c.step)
             /\ pipe' = Append(pipe, Response(c, "ok"))
             /\ UNCHANGED <<bodyOpen, acted, trouble>>
          \/ /\ Changes(c.step) \/ c.step = "ftp_setup"
             /\ pipe' = Append(pipe, Response(c, "ok"))
             /\ acted' = (acted \/ (Changes(c.step) /\ c.age # "past"))
             /\ UNCHANGED <<bodyOpen, trouble>>
          \/ /\ pipe' = Append(pipe, Response(c, "refused"))
             /\ trouble' = TRUE
             /\ UNCHANGED <<bodyOpen, acted>>
    /\ UNCHANGED <<sess, isOpen, poisoned, txid, cur, clean, fresh, job, at, report, foreign, matched, txnVars, bounds>>

\* A command whose data never came is forgotten.
BodyForgets ==
    /\ wire # <<>> /\ ~Head(wire).whole /\ Head(wire).age # "txn"
    /\ wire' = Tail(wire)
    /\ UNCHANGED <<sessionVars, jobVars, txnVars, pipe, bodyOpen, bounds>>

---------------------------------------------------------------------------

Next ==
    \/ BeginSession \/ Drop \/ Dies
    \/ \E o \in Operations : StartOp(o)
    \/ RefusePoisoned \/ SendCommand \/ SendData
    \/ CommandFails \/ DataFails \/ TimesOut \/ Mismatch
    \/ TakeData \/ TakeResponse \/ TakeMalformed
    \/ BodyActs \/ BodyForgets

Spec == Init /\ [][Next]_vars

---------------------------------------------------------------------------
(* Properties.                                                             *)

\* In a session that nothing was outstanding for, every container a transaction takes answers its
\* own command, whatever was late, lost or refused before: a session is poisoned or in step.
AnswersAreOwn == clean => ~foreign

\* A write of this operation that the body has not acted on yet.
Pending == \E i \in 1..Len(wire) : wire[i].age # "past" /\ Changes(wire[i].step) /\ wire[i].whole

\* An operation that is reported as failed (refused, not sent) has changed nothing, and what it
\* left on its way will change nothing either.  All else is reported as done or as unknown.
FailedMeansUnchanged ==
    clean /\ report.what = "failed" => ~acted /\ ~Pending

\* A write that is reported as done has been done: no answer of another command, and no answer that
\* came late, is taken for the body's word that it took the data.
OkMeansActed ==
    clean /\ report.what = "ok" /\ report.of \in Operations \ {"get"} => acted

\* What an operation reports of its write is so, for good, whatever is still in the pipes
\* (transact_write, PropWriteReceipt).
ReportIsTrue == FailedMeansUnchanged /\ OkMeansActed

\* open_ptp_session tries OpenSession again although its CloseSession failed, and clears the poisoning.
\* The answer to that CloseSession may still come, and from then on a transaction finds the answer of
\* the one before it.  In a session that was in order until then, no reply of another command is taken
\* unnoticed, and what an operation reports is so where its replies matched (reply_matched_command).
LagIsNoticed ==
    fresh /\ ~clean /\ matched =>
        /\ ~foreign
        /\ report.what = "failed" => ~acted /\ ~Pending
        /\ report.what = "ok" /\ report.of \in Operations \ {"get"} => acted

\* A body that an earlier session (of a process that died, or was poisoned) left open does not lock
\* anybody out: OpenSession fails only if something went wrong in this very session.
OpenFailsForCause ==
    fresh /\ report.of = "open" /\ report.what = "failed" => trouble
=============================================================================
