----------------------------- MODULE WorkerCall -----------------------------
(***************************************************************************)
(* The camera calls of the MCP server: mcp/src/supervisor.rs (run_inner,   *)
(* one call at a time, each in a worker process of its own),               *)
(* mcp/src/server.rs (what the client is told), mcp/src/main.rs (how the   *)
(* server exits with a call in flight) and src/worker_cmd.rs               *)
(* (the worker: its protocol lines and its camera writes).                 *)
(*                                                                         *)
(* The supervisor and the worker run concurrently and share only the       *)
(* result pipe, the process (SIGKILL, exit) and, through the kernel, the   *)
(* camera lock.  A pipe is a sequence of lines; end of input is a dead     *)
(* worker and an empty pipe.  Time is abstracted: a timer may fire         *)
(* whenever the code is waiting for it.                                    *)
(***************************************************************************)
EXTENDS Naturals, Sequences

CONSTANTS
    Calls,       \* camera calls a client can make
    ApplyCalls,  \* the ones of CallKind::Apply; the others only read
    MaxWrites,   \* writes an apply sends to the camera
    Outside,     \* whether the CLI or the GUI also take the camera lock
    NoCall       \* no call

ASSUME CallsAssumption == ApplyCalls \subseteq Calls /\ NoCall \notin Calls
ASSUME BoundsAssumption == MaxWrites \in Nat \ {0} /\ Outside \in BOOLEAN

\* Progress phases; "connected" stands for every phase before the plan is verified.
EarlyPhases == {"connected", "plan_verified", "restore_point_written"}
WritePhases == {"writing", "read_back"}
Phases == EarlyPhases \cup WritePhases

\* What a `result` line says: a report, a typed error, or camera_busy.
Outcomes == {"ok", "err", "busy"}
Lines == Phases \cup Outcomes

Causes == {"deadline", "cancelled", "worker_died", "channel_error"}
Reports == Outcomes \cup
    {"not_applied", "indeterminate", "read_no_result", "cancelled", "spawn_failed"}

VARIABLES
    server,        \* "up", "client_gone", "signalled", "leaving" or "gone"
    queue,         \* calls waiting for the queue lock, in arrival order
    pc,            \* pc[c]: where run_inner of call c is
    lastPhase,     \* lastPhase[c]: the local of run_inner, or "none"
    writingSeen,   \* writingSeen[c]: the local of run_inner
    answer,        \* answer[c]: the result line read, or "none"
    stop,          \* stop[c]: the cause the loop was left for, or "none"
    cancelIgnored, \* cancelIgnored[c]: the local of run_inner
    cancelled,     \* cancelled[c]: the call's cancellation token
    inFlight,      \* the in_flight slot: [call, writing]; call is NoCall when empty
    report,        \* report[c]: what the client was told, or "none"
    marker         \* the call recorded in in-flight-apply.json, or NoCall

VARIABLES
    wpc,           \* wpc[c]: where the worker process of call c is
    killed,        \* killed[c]: SIGKILL was sent to it
    blocked,       \* blocked[c]: it is in a transfer the kernel will not interrupt
    pipe,          \* pipe[c]: protocol lines flushed and not yet read
    sent,          \* sent[c]: the result line it flushed, or "none"
    issued,        \* issued[c]: camera writes it has sent
    lock           \* holder of the camera lock: a call, "outside" or "free"

supervisorVars == <<queue, pc, lastPhase, writingSeen, answer, stop,
                    cancelIgnored, cancelled, inFlight, report>>
serverVars == <<server, marker>>
workerVars == <<wpc, killed, blocked, pipe, sent, issued, lock>>
vars == <<server, queue, pc, lastPhase, writingSeen, answer, stop, cancelIgnored,
          cancelled, inFlight, report, marker,
          wpc, killed, blocked, pipe, sent, issued, lock>>

NoFlight == [call |-> NoCall, writing |-> FALSE]

\* The program counters of run_inner that hold the queue lock.
Running == {"reading", "drain_ready", "grace", "killing", "reaping", "draining"}

\* A worker with a camera session, hence with the camera lock.
InSession == {"open", "verified", "saved", "writing", "read_back"}

TypeOK ==
    /\ server \in {"up", "client_gone", "signalled", "leaving", "gone"}
    /\ queue \in Seq(Calls)
    /\ pc \in [Calls -> {"idle", "queued", "done"} \cup Running]
    /\ lastPhase \in [Calls -> Phases \cup {"none"}]
    /\ writingSeen \in [Calls -> BOOLEAN]
    /\ answer \in [Calls -> Outcomes \cup {"none"}]
    /\ stop \in [Calls -> Causes \cup {"none"}]
    /\ cancelIgnored \in [Calls -> BOOLEAN]
    /\ cancelled \in [Calls -> BOOLEAN]
    /\ inFlight \in [call : Calls \cup {NoCall}, writing : BOOLEAN]
    /\ report \in [Calls -> Reports \cup {"none"}]
    /\ marker \in Calls \cup {NoCall}
    /\ wpc \in [Calls -> {"none", "start", "teardown", "dead"} \cup InSession]
    /\ killed \in [Calls -> BOOLEAN]
    /\ blocked \in [Calls -> BOOLEAN]
    /\ pipe \in [Calls -> Seq(Lines)]
    /\ sent \in [Calls -> Outcomes \cup {"none"}]
    /\ issued \in [Calls -> 0..MaxWrites]
    /\ lock \in Calls \cup {"outside", "free"}

Init ==
    /\ server = "up"
    /\ queue = <<>>
    /\ pc = [c \in Calls |-> "idle"]
    /\ lastPhase = [c \in Calls |-> "none"]
    /\ writingSeen = [c \in Calls |-> FALSE]
    /\ answer = [c \in Calls |-> "none"]
    /\ stop = [c \in Calls |-> "none"]
    /\ cancelIgnored = [c \in Calls |-> FALSE]
    /\ cancelled = [c \in Calls |-> FALSE]
    /\ inFlight = NoFlight
    /\ report = [c \in Calls |-> "none"]
    /\ marker = NoCall
    /\ wpc = [c \in Calls |-> "none"]
    /\ killed = [c \in Calls |-> FALSE]
    /\ blocked = [c \in Calls |-> FALSE]
    /\ pipe = [c \in Calls |-> <<>>]
    /\ sent = [c \in Calls |-> "none"]
    /\ issued = [c \in Calls |-> 0]
    /\ lock = "free"

-----------------------------------------------------------------------------
(* The client. *)

\* A tool call reaches the server; its future waits for the queue lock.
Call(c) ==
    /\ server = "up"
    /\ pc[c] = "idle"
    /\ pc' = [pc EXCEPT ![c] = "queued"]
    /\ queue' = Append(queue, c)
    /\ UNCHANGED <<lastPhase, writingSeen, answer, stop, cancelIgnored, cancelled, inFlight, report>>
    /\ UNCHANGED serverVars /\ UNCHANGED workerVars

\* The call's cancellation token is cancelled, wherever the call is.
Cancel(c) ==
    /\ server # "gone"
    /\ pc[c] \in {"queued"} \cup Running
    /\ ~cancelled[c]
    /\ cancelled' = [cancelled EXCEPT ![c] = TRUE]
    /\ UNCHANGED <<queue, pc, lastPhase, writingSeen, answer, stop, cancelIgnored, inFlight, report>>
    /\ UNCHANGED serverVars /\ UNCHANGED workerVars

-----------------------------------------------------------------------------
(* The supervisor: run_inner. *)

Turn(c) == \A d \in Calls \ {c} : pc[d] \notin Running

\* A call ends: the client is told r, and the locals, the cancellation token, the in_flight
\* guard and the queue lock are dropped (last_phase is in the Finished value; writing_seen is
\* kept for the properties).
Finish(c, r) ==
    /\ report' = [report EXCEPT ![c] = r]
    /\ pc' = [pc EXCEPT ![c] = "done"]
    /\ answer' = [answer EXCEPT ![c] = "none"]
    /\ stop' = [stop EXCEPT ![c] = "none"]
    /\ cancelIgnored' = [cancelIgnored EXCEPT ![c] = FALSE]
    /\ cancelled' = [cancelled EXCEPT ![c] = FALSE]
    /\ inFlight' = NoFlight

\* The queue lock is granted to the first waiter; the worker is started.
TakeTurn(c) ==
    /\ server # "gone"
    /\ pc[c] = "queued"
    /\ queue # <<>> /\ c = Head(queue)
    /\ Turn(c)
    /\ pc' = [pc EXCEPT ![c] = "reading"]
    /\ queue' = Tail(queue)
    /\ wpc' = [wpc EXCEPT ![c] = "start"]
    /\ inFlight' = [call |-> c, writing |-> FALSE]
    /\ UNCHANGED <<lastPhase, writingSeen, answer, stop, cancelIgnored, cancelled, report>>
    /\ UNCHANGED serverVars
    /\ UNCHANGED <<killed, blocked, pipe, sent, issued, lock>>

\* The same, but the worker cannot be started.
SpawnFails(c) ==
    /\ server # "gone"
    /\ pc[c] = "queued"
    /\ queue # <<>> /\ c = Head(queue)
    /\ Turn(c)
    /\ pc' = [pc EXCEPT ![c] = "done"]
    /\ report' = [report EXCEPT ![c] = "spawn_failed"]
    /\ queue' = Tail(queue)
    /\ cancelled' = [cancelled EXCEPT ![c] = FALSE]
    /\ UNCHANGED <<lastPhase, writingSeen, answer, stop, cancelIgnored, inFlight>>
    /\ UNCHANGED serverVars /\ UNCHANGED workerVars

\* Cancelled while waiting for earlier calls: no worker is started.
CancelledBeforeStart(c) ==
    /\ server # "gone"
    /\ pc[c] = "queued"
    /\ cancelled[c]
    /\ pc' = [pc EXCEPT ![c] = "done"]
    /\ report' = [report EXCEPT ![c] = "cancelled"]
    /\ \E i \in 1..Len(queue) :
          /\ queue[i] = c
          /\ queue' = SubSeq(queue, 1, i - 1) \o SubSeq(queue, i + 1, Len(queue))
    /\ cancelled' = [cancelled EXCEPT ![c] = FALSE]
    /\ UNCHANGED <<lastPhase, writingSeen, answer, stop, cancelIgnored, inFlight>>
    /\ UNCHANGED serverVars /\ UNCHANGED workerVars

\* One line off the pipe into the locals of run_inner (a garbage line changes nothing kept here).
Absorb(c) ==
    LET line == Head(pipe[c]) IN
    /\ pipe[c] # <<>>
    /\ pipe' = [pipe EXCEPT ![c] = Tail(@)]
    /\ writingSeen' = [writingSeen EXCEPT ![c] = @ \/ line \in WritePhases]
    /\ lastPhase' = [lastPhase EXCEPT ![c] = IF line \in Phases THEN line ELSE @]
    /\ answer' = [answer EXCEPT ![c] = IF line \in Outcomes THEN line ELSE @]

\* note_progress: what the supervisor has seen becomes visible in the in_flight slot.
NoteProgress(c) == inFlight' = [inFlight EXCEPT !.writing = writingSeen'[c]]

\* A line is ready: the biased select takes it before a deadline or a cancellation.
ReadLine(c) ==
    /\ server # "gone"
    /\ pc[c] = "reading"
    /\ Absorb(c)
    /\ NoteProgress(c)
    /\ pc' = [pc EXCEPT ![c] = IF answer'[c] # "none" THEN "grace" ELSE "reading"]
    /\ UNCHANGED <<queue, stop, cancelIgnored, cancelled, report>>
    /\ UNCHANGED serverVars
    /\ UNCHANGED <<wpc, killed, blocked, sent, issued, lock>>

Stop(c, cause, next) ==
    /\ stop' = [stop EXCEPT ![c] = cause]
    /\ pc' = [pc EXCEPT ![c] = next]

\* End of input with no result: the worker died; there is nothing to kill, only to reap.
EndOfInput(c) ==
    /\ server # "gone"
    /\ pc[c] = "reading"
    /\ pipe[c] = <<>> /\ wpc[c] = "dead"
    /\ Stop(c, "worker_died", "reaping")
    /\ UNCHANGED <<queue, lastPhase, writingSeen, answer, cancelIgnored, cancelled, inFlight, report>>
    /\ UNCHANGED serverVars /\ UNCHANGED workerVars

\* Reading the channel failed, at any time, whatever is still unread; what was not read stays in
\* the pipe for the last drain.
ChannelError(c) ==
    /\ server # "gone"
    /\ pc[c] = "reading"
    /\ Stop(c, "channel_error", "killing")
    /\ UNCHANGED <<queue, lastPhase, writingSeen, answer, cancelIgnored, cancelled, inFlight, report>>
    /\ UNCHANGED serverVars /\ UNCHANGED workerVars

\* The deadline is acted on only when no line and no end of input is ready.
DeadlineFires(c) ==
    /\ server # "gone"
    /\ pc[c] = "reading"
    /\ pipe[c] = <<>> /\ wpc[c] # "dead"
    /\ Stop(c, "deadline", "killing")
    /\ UNCHANGED <<queue, lastPhase, writingSeen, answer, cancelIgnored, cancelled, inFlight, report>>
    /\ UNCHANGED serverVars /\ UNCHANGED workerVars

\* A cancellation, likewise; what the worker has flushed by now is absorbed before the decision.
CancelSeen(c) ==
    /\ server # "gone"
    /\ pc[c] = "reading"
    /\ cancelled[c] /\ ~cancelIgnored[c]
    /\ pipe[c] = <<>> /\ wpc[c] # "dead"
    /\ pc' = [pc EXCEPT ![c] = "drain_ready"]
    /\ UNCHANGED <<queue, lastPhase, writingSeen, answer, stop, cancelIgnored, cancelled, inFlight, report>>
    /\ UNCHANGED serverVars /\ UNCHANGED workerVars

\* drain_ready: a line that is there.  It ends with the result, when no line is there, or at a
\* read error with lines unread: the decision below may come after any number of lines.
DrainReadyLine(c) ==
    /\ server # "gone"
    /\ pc[c] = "drain_ready"
    /\ answer[c] = "none"
    /\ Absorb(c)
    /\ UNCHANGED <<queue, pc, stop, cancelIgnored, cancelled, inFlight, report>>
    /\ UNCHANGED serverVars
    /\ UNCHANGED <<wpc, killed, blocked, sent, issued, lock>>

\* The decision on a cancellation, by CancelPolicy: Always for a read, UntilWriting for an apply.
CancelDecided(c) ==
    /\ server # "gone"
    /\ pc[c] = "drain_ready"
    /\ inFlight' = [inFlight EXCEPT !.writing = writingSeen[c]]
    /\ \/ /\ answer[c] # "none"
          /\ pc' = [pc EXCEPT ![c] = "grace"]
          /\ UNCHANGED <<stop, cancelIgnored>>
       \/ /\ answer[c] = "none"
          /\ c \in ApplyCalls /\ writingSeen[c]
          /\ cancelIgnored' = [cancelIgnored EXCEPT ![c] = TRUE]
          /\ pc' = [pc EXCEPT ![c] = "reading"]
          /\ UNCHANGED stop
       \/ /\ answer[c] = "none"
          /\ ~(c \in ApplyCalls /\ writingSeen[c])
          /\ Stop(c, "cancelled", "killing")
          /\ UNCHANGED cancelIgnored
    /\ UNCHANGED <<queue, lastPhase, writingSeen, answer, cancelled, report>>
    /\ UNCHANGED serverVars /\ UNCHANGED workerVars

\* What the client is told of a call that was started and gave no answer.
NoResultReport(c) ==
    CASE c \notin ApplyCalls -> "read_no_result"
      [] c \in ApplyCalls /\ lastPhase[c] \in WritePhases -> "indeterminate"
      [] OTHER -> "not_applied"

\* After the result: the worker is gone within the grace.
WorkerLeft(c) ==
    /\ server # "gone"
    /\ pc[c] = "grace"
    /\ wpc[c] = "dead"
    /\ Finish(c, answer[c])
    /\ UNCHANGED <<queue, lastPhase, writingSeen>>
    /\ UNCHANGED serverVars /\ UNCHANGED workerVars

\* Mutant: a worker that does not leave after its result is not killed.
GraceExpiresWithoutKill(c) ==
    /\ server # "gone"
    /\ pc[c] = "grace"
    /\ wpc[c] # "dead"
    /\ Finish(c, answer[c])
    /\ UNCHANGED <<queue, lastPhase, writingSeen>>
    /\ UNCHANGED serverVars /\ UNCHANGED workerVars

\* After the result: the grace is over and the worker is not gone.
GraceExpires(c) ==
    /\ server # "gone"
    /\ pc[c] = "grace"
    /\ wpc[c] # "dead"
    /\ pc' = [pc EXCEPT ![c] = "killing"]
    /\ UNCHANGED <<queue, lastPhase, writingSeen, answer, stop, cancelIgnored, cancelled, inFlight, report>>
    /\ UNCHANGED serverVars /\ UNCHANGED workerVars

\* Mutant: an apply is given up without SIGKILL.
KillReadsOnly(c) ==
    /\ server # "gone"
    /\ pc[c] = "killing"
    /\ killed' = [killed EXCEPT ![c] = c \notin ApplyCalls]
    /\ pc' = [pc EXCEPT ![c] = "reaping"]
    /\ UNCHANGED <<queue, lastPhase, writingSeen, answer, stop, cancelIgnored, cancelled, inFlight, report>>
    /\ UNCHANGED serverVars
    /\ UNCHANGED <<wpc, blocked, pipe, sent, issued, lock>>

\* kill_and_reap: SIGKILL is sent (to a worker already gone, it does nothing).
Kill(c) ==
    /\ server # "gone"
    /\ pc[c] = "killing"
    /\ killed' = [killed EXCEPT ![c] = TRUE]
    /\ pc' = [pc EXCEPT ![c] = "reaping"]
    /\ UNCHANGED <<queue, lastPhase, writingSeen, answer, stop, cancelIgnored, cancelled, inFlight, report>>
    /\ UNCHANGED serverVars
    /\ UNCHANGED <<wpc, blocked, pipe, sent, issued, lock>>

\* Mutant: the pipe is not drained after the kill.
ReapWithoutDrain(c) ==
    /\ server # "gone"
    /\ pc[c] = "reaping"
    /\ Finish(c, IF answer[c] # "none" THEN answer[c] ELSE NoResultReport(c))
    /\ UNCHANGED <<queue, lastPhase, writingSeen>>
    /\ UNCHANGED serverVars /\ UNCHANGED workerVars

\* kill_and_reap returns: the worker is reaped, or (uninterruptible I/O) it is abandoned.
\* A call with its answer ends here; one without drains the pipe first.
Reap(c) ==
    /\ server # "gone"
    /\ pc[c] = "reaping"
    /\ \/ /\ answer[c] # "none"
          /\ Finish(c, answer[c])
       \/ /\ answer[c] = "none"
          /\ pc' = [pc EXCEPT ![c] = "draining"]
          /\ UNCHANGED <<answer, stop, cancelIgnored, cancelled, report, inFlight>>
    /\ UNCHANGED <<queue, lastPhase, writingSeen>>
    /\ UNCHANGED serverVars /\ UNCHANGED workerVars

Reaped(c) == wpc[c] = "dead" /\ Reap(c)
\* Mutant: the wait for a killed worker is not bounded.
ReapUnbounded(c) == wpc[c] = "dead" /\ Reap(c)

ReapExpires(c) == wpc[c] # "dead" /\ Reap(c)

\* Whatever the worker wrote before it died is still honoured; in_flight is not told of it.
\* Assumed: the last drain meets no read error (one would end it with lines unread).
DrainLine(c) ==
    /\ server # "gone"
    /\ pc[c] = "draining"
    /\ answer[c] = "none"
    /\ Absorb(c)
    /\ UNCHANGED <<queue, pc, stop, cancelIgnored, cancelled, inFlight, report>>
    /\ UNCHANGED serverVars
    /\ UNCHANGED <<wpc, killed, blocked, sent, issued, lock>>

\* Mutant: the drain ends with the first line.
DrainedAtOnce(c) ==
    /\ server # "gone"
    /\ pc[c] = "draining"
    /\ Finish(c, IF answer[c] # "none" THEN answer[c] ELSE NoResultReport(c))
    /\ UNCHANGED <<queue, lastPhase, writingSeen>>
    /\ UNCHANGED serverVars /\ UNCHANGED workerVars

\* The result was drained, the pipe has ended, or (an abandoned worker holds it open) time is up.
Drained(c) ==
    /\ server # "gone"
    /\ pc[c] = "draining"
    /\ \/ /\ answer[c] # "none"
          /\ Finish(c, answer[c])
       \/ /\ answer[c] = "none" /\ pipe[c] = <<>>
          /\ Finish(c, NoResultReport(c))
    /\ UNCHANGED <<queue, lastPhase, writingSeen>>
    /\ UNCHANGED serverVars /\ UNCHANGED workerVars

-----------------------------------------------------------------------------
(* The server process. *)

\* record_in_flight_at_exit: the marker is written for an apply seen to be writing.
RecordInFlight ==
    marker' = IF inFlight.call \in ApplyCalls /\ inFlight.writing
              THEN inFlight.call ELSE marker

\* SIGTERM, SIGINT or SIGHUP while the client is there.
Signal ==
    /\ server = "up"
    /\ server' = "signalled"
    /\ RecordInFlight
    /\ UNCHANGED supervisorVars /\ UNCHANGED workerVars

\* process::exit without unwinding: the worker is left running.
SignalExit ==
    /\ server = "signalled"
    /\ server' = "gone"
    /\ UNCHANGED marker
    /\ UNCHANGED supervisorVars /\ UNCHANGED workerVars

\* The client closed stdin.
ClientGone ==
    /\ server = "up"
    /\ server' = "client_gone"
    /\ UNCHANGED marker
    /\ UNCHANGED supervisorVars /\ UNCHANGED workerVars

\* Every apply (reads are not waited for) is over.
TasksDone ==
    /\ server = "client_gone"
    /\ \A c \in ApplyCalls : pc[c] \in {"idle", "done"}
    /\ server' = "leaving"
    /\ UNCHANGED marker
    /\ UNCHANGED supervisorVars /\ UNCHANGED workerVars

\* An apply outlived --exit-wait-secs.
WaitExpires ==
    /\ server = "client_gone"
    /\ \E c \in ApplyCalls : pc[c] \notin {"idle", "done"}
    /\ server' = "leaving"
    /\ RecordInFlight
    /\ UNCHANGED supervisorVars /\ UNCHANGED workerVars

\* main returns, the runtime is dropped, and kill_on_drop kills what still runs.
RuntimeDrop ==
    /\ server = "leaving"
    /\ server' = "gone"
    /\ killed' = [c \in Calls |-> killed[c] \/ pc[c] \in Running]
    /\ UNCHANGED marker
    /\ UNCHANGED supervisorVars
    /\ UNCHANGED <<wpc, blocked, pipe, sent, issued, lock>>

-----------------------------------------------------------------------------
(* The worker process. *)

\* The worker executes: it has been started, and neither SIGKILL nor a transfer stops it.
Runs(c) == wpc[c] \notin {"none", "dead"} /\ ~killed[c] /\ ~blocked[c]

\* run_inner still holds the read end of the pipe.
Readable(c) == server # "gone" /\ pc[c] \in Running

Send(c, line) ==
    pipe' = IF Readable(c) THEN [pipe EXCEPT ![c] = Append(@, line)] ELSE pipe

\* finish: the result line, then the teardown.
SendResult(c, o) ==
    /\ Send(c, o)
    /\ sent' = [sent EXCEPT ![c] = IF Readable(c) THEN o ELSE @]
    /\ wpc' = [wpc EXCEPT ![c] = "teardown"]

Goto(c, next) == wpc' = [wpc EXCEPT ![c] = next]

\* The camera lock is free: the session is opened under it.
WConnect(c) ==
    /\ Runs(c)
    /\ wpc[c] = "start"
    /\ lock = "free"
    /\ lock' = c
    /\ Send(c, "connected")
    /\ Goto(c, "open")
    /\ UNCHANGED supervisorVars /\ UNCHANGED serverVars
    /\ UNCHANGED <<killed, blocked, sent, issued>>

\* The camera lock is held: camera_busy, never a wait.
WBusy(c) ==
    /\ Runs(c)
    /\ wpc[c] = "start"
    /\ lock # "free"
    /\ SendResult(c, "busy")
    /\ UNCHANGED supervisorVars /\ UNCHANGED serverVars
    /\ UNCHANGED <<killed, blocked, issued, lock>>

\* A refusal before anything is written: a bad argument, no such body, a stale plan, ...
WRefuse(c) ==
    /\ Runs(c)
    /\ wpc[c] \in {"start", "open", "verified"}
    /\ SendResult(c, "err")
    /\ UNCHANGED supervisorVars /\ UNCHANGED serverVars
    /\ UNCHANGED <<killed, blocked, issued, lock>>

\* A read or a plan answers; so does an apply whose plan changes nothing.
WAnswer(c) ==
    /\ Runs(c)
    /\ \/ c \notin ApplyCalls /\ wpc[c] = "open"
       \/ c \in ApplyCalls /\ wpc[c] = "verified"
    /\ SendResult(c, "ok")
    /\ UNCHANGED supervisorVars /\ UNCHANGED serverVars
    /\ UNCHANGED <<killed, blocked, issued, lock>>

\* The apply's progress up to the restore point.
WPrepare(c) ==
    /\ Runs(c)
    /\ c \in ApplyCalls
    /\ \/ wpc[c] = "open" /\ Send(c, "plan_verified") /\ Goto(c, "verified")
       \/ wpc[c] = "verified" /\ Send(c, "restore_point_written") /\ Goto(c, "saved")
    /\ UNCHANGED supervisorVars /\ UNCHANGED serverVars
    /\ UNCHANGED <<killed, blocked, sent, issued, lock>>

\* The process is gone; the kernel releases the camera lock with its descriptors.
Ends(c) ==
    /\ Goto(c, "dead")
    /\ blocked' = [blocked EXCEPT ![c] = FALSE]
    /\ lock' = IF lock = c THEN "free" ELSE lock

\* `writing` is flushed before the first camera write ...
WAnnounce(c) ==
    /\ Runs(c)
    /\ wpc[c] = "saved"
    /\ Readable(c)
    /\ Send(c, "writing")
    /\ Goto(c, "writing")
    /\ UNCHANGED supervisorVars /\ UNCHANGED serverVars
    /\ UNCHANGED <<killed, blocked, sent, issued, lock>>

\* ... and if it cannot be delivered the worker exits instead of writing.
WCannotAnnounce(c) ==
    /\ Runs(c)
    /\ wpc[c] = "saved"
    /\ ~Readable(c)
    /\ Ends(c)
    /\ UNCHANGED supervisorVars /\ UNCHANGED serverVars
    /\ UNCHANGED <<killed, pipe, sent, issued>>

\* One write is sent to the camera (the transfer may then block: see WBlock).
WWrite(c) ==
    /\ Runs(c)
    /\ wpc[c] = "writing"
    /\ issued[c] < MaxWrites
    /\ issued' = [issued EXCEPT ![c] = @ + 1]
    /\ UNCHANGED supervisorVars /\ UNCHANGED serverVars
    /\ UNCHANGED <<wpc, killed, blocked, pipe, sent, lock>>

\* The writes are over (one whose value cannot be expressed is never sent).
WReadBack(c) ==
    /\ Runs(c)
    /\ wpc[c] = "writing"
    /\ Send(c, "read_back")
    /\ Goto(c, "read_back")
    /\ UNCHANGED supervisorVars /\ UNCHANGED serverVars
    /\ UNCHANGED <<killed, blocked, sent, issued, lock>>

\* The apply's report, or the error that it could not be serialised.
WReport(c) ==
    /\ Runs(c)
    /\ wpc[c] = "read_back"
    /\ \E o \in {"ok", "err"} : SendResult(c, o)
    /\ UNCHANGED supervisorVars /\ UNCHANGED serverVars
    /\ UNCHANGED <<killed, blocked, issued, lock>>

\* A transfer the kernel does not interrupt begins (DisconnectDevice included) ...
WBlock(c) ==
    /\ Runs(c)
    /\ wpc[c] \in InSession \cup {"teardown"}
    /\ lock = c
    /\ blocked' = [blocked EXCEPT ![c] = TRUE]
    /\ UNCHANGED supervisorVars /\ UNCHANGED serverVars
    /\ UNCHANGED <<wpc, killed, pipe, sent, issued, lock>>

\* ... and returns, if the camera ever answers.
WUnblock(c) ==
    /\ blocked[c]
    /\ blocked' = [blocked EXCEPT ![c] = FALSE]
    /\ UNCHANGED supervisorVars /\ UNCHANGED serverVars
    /\ UNCHANGED <<wpc, killed, pipe, sent, issued, lock>>

\* After its result the worker leaves: at once for a read, else the disconnect or the watchdog.
WExit(c) ==
    /\ Runs(c)
    /\ wpc[c] = "teardown"
    /\ Ends(c)
    /\ UNCHANGED supervisorVars /\ UNCHANGED serverVars
    /\ UNCHANGED <<killed, pipe, sent, issued>>

\* The SDK crashes the worker.
WCrash(c) ==
    /\ Runs(c)
    /\ Ends(c)
    /\ UNCHANGED supervisorVars /\ UNCHANGED serverVars
    /\ UNCHANGED <<killed, pipe, sent, issued>>

\* SIGKILL takes effect, unless a transfer holds the process.
WKilled(c) ==
    /\ killed[c]
    /\ wpc[c] \notin {"none", "dead"}
    /\ ~blocked[c]
    /\ Ends(c)
    /\ UNCHANGED supervisorVars /\ UNCHANGED serverVars
    /\ UNCHANGED <<killed, pipe, sent, issued>>

\* The CLI or the GUI takes the camera lock ...
OutsideTakes ==
    /\ Outside
    /\ lock = "free"
    /\ lock' = "outside"
    /\ UNCHANGED supervisorVars /\ UNCHANGED serverVars
    /\ UNCHANGED <<wpc, killed, blocked, pipe, sent, issued>>

\* ... and releases it.
OutsideReleases ==
    /\ lock = "outside"
    /\ lock' = "free"
    /\ UNCHANGED supervisorVars /\ UNCHANGED serverVars
    /\ UNCHANGED <<wpc, killed, blocked, pipe, sent, issued>>

-----------------------------------------------------------------------------
ClientStep(c) == Call(c) \/ Cancel(c)

SupervisorStep(c) ==
    \/ TakeTurn(c) \/ SpawnFails(c) \/ CancelledBeforeStart(c)
    \/ ReadLine(c) \/ EndOfInput(c) \/ ChannelError(c) \/ DeadlineFires(c)
    \/ CancelSeen(c) \/ DrainReadyLine(c) \/ CancelDecided(c)
    \/ WorkerLeft(c) \/ GraceExpires(c) \/ Kill(c)
    \/ Reaped(c) \/ ReapExpires(c) \/ DrainLine(c) \/ Drained(c)

ServerStep ==
    Signal \/ SignalExit \/ ClientGone \/ TasksDone \/ WaitExpires \/ RuntimeDrop

WorkerStep(c) ==
    \/ WConnect(c) \/ WBusy(c) \/ WRefuse(c) \/ WAnswer(c) \/ WPrepare(c)
    \/ WAnnounce(c) \/ WCannotAnnounce(c) \/ WWrite(c) \/ WReadBack(c) \/ WReport(c)
    \/ WBlock(c) \/ WUnblock(c) \/ WExit(c) \/ WCrash(c) \/ WKilled(c)

Next ==
    \/ \E c \in Calls : ClientStep(c) \/ SupervisorStep(c) \/ WorkerStep(c)
    \/ ServerStep
    \/ OutsideTakes \/ OutsideReleases

Spec == Init /\ [][Next]_vars

\* The runtime goes on polling the supervisor, and its timers fire.
\* Nothing is assumed of the worker, of the kernel, of the camera or of the client.
FairSpec == Spec /\ \A c \in Calls : WF_vars(SupervisorStep(c))

-----------------------------------------------------------------------------
(* Properties. *)

\* A write phase is among the lines s; no early phase is; none follows a write phase.
HasWritePhase(s) == \E i \in 1..Len(s) : s[i] \in WritePhases
NoEarlyPhase(s) == \A i \in 1..Len(s) : s[i] \notin EarlyPhases
PhasesInOrder(s) ==
    \A i, j \in 1..Len(s) : i < j /\ s[i] \in WritePhases => s[j] \notin EarlyPhases

\* The `writing` line of call c has reached the supervisor's side of the pipe.
Delivered(c) == writingSeen[c] \/ HasWritePhase(pipe[c])

\* No camera write is ever sent before `writing` was delivered, whatever the interleaving
\* of the worker with kills, cancellations, server exits and a closed pipe
\* (worker_cmd.rs, apply_progress).
WriteAnnounced == \A c \in Calls : issued[c] > 0 => Delivered(c)

\* A client told that nothing was changed is told the truth, and for good: no write of that
\* call has been sent, nor is one later by a worker that outlives its call
\* (server.rs, to_result; supervisor.rs, run_inner).
NotAppliedIsTrue ==
    \A c \in Calls :
        report[c] \in {"not_applied", "cancelled", "spawn_failed", "read_no_result"}
            => issued[c] = 0

\* A result line the worker got into the pipe is what the client is told, even if the
\* deadline, a cancellation or a kill came first (supervisor.rs, run_inner).
ResultHonoured ==
    \A c \in Calls : report[c] # "none" /\ sent[c] # "none" => report[c] = sent[c]

\* The two records of "writes may have happened" agree: the sticky writing_seen, which the
\* in-flight slot and the marker use, and last_phase, which the client's status uses.
PhaseAgreesWithWritingSeen ==
    \A c \in Calls : writingSeen[c] <=> lastPhase[c] \in WritePhases

\* However calls overlap with abandoned workers, at most one worker of a call can still act:
\* every other one is dead or has been sent SIGKILL (supervisor.rs, kill_and_reap).
OneActingWorker ==
    \A c, d \in Calls :
        /\ wpc[c] \notin {"none", "dead"} /\ ~killed[c]
        /\ wpc[d] \notin {"none", "dead"} /\ ~killed[d]
        => c = d

\* A cancellation never stops a call that the supervisor knows to be writing
\* (supervisor.rs, CancelPolicy::UntilWriting).
KnownWritesAreNotCancelled ==
    [][\A c \in ApplyCalls :
        stop[c] = "none" /\ stop'[c] = "cancelled" => ~writingSeen'[c]]_vars

\* The calls implement what a call promises its client: a report is given once, and no write
\* follows it.
Contract ==
    INSTANCE CallContract WITH touched <- [c \in Calls |-> issued[c] > 0]

ImplementsContract == Contract!ContractSpec

\* The inductive invariant behind the theorems of WorkerCall_proof, part by part.

\* The supervisor reads the phases in the order in which a worker goes through them.
PhaseOrder(c) ==
    /\ writingSeen[c] <=> lastPhase[c] \in WritePhases
    /\ writingSeen[c] => NoEarlyPhase(pipe[c])
    /\ PhasesInOrder(pipe[c])

\* `writing` has been delivered exactly when the worker of an apply went past it.
WorkerOrder(c) ==
    /\ Delivered(c) => c \in ApplyCalls /\ wpc[c] \in WritePhases \cup {"teardown", "dead"}
    /\ wpc[c] \in WritePhases \/ issued[c] > 0 => Delivered(c)
    /\ wpc[c] \in {"verified", "saved"} => c \in ApplyCalls

\* A call has no worker before its turn and none that can act after its report, and a report
\* that nothing changed is given only if `writing` was not delivered.
CallOrder(c) ==
    /\ pc[c] \in {"idle", "queued"} => wpc[c] = "none"
    /\ pc[c] \in {"reaping", "draining", "done"} => killed[c] \/ wpc[c] \in {"none", "dead"}
    /\ pc[c] = "grace" => answer[c] # "none"
    /\ report[c] # "none" => pc[c] = "done"
    /\ report[c] \in {"not_applied", "cancelled", "spawn_failed", "read_no_result"}
          => ~Delivered(c)

CallInv(c) == PhaseOrder(c) /\ WorkerOrder(c) /\ CallOrder(c)

IInv == TypeOK /\ \A c \in Calls : CallInv(c)

\* A result line is on its way from the worker to the report, and nothing else takes its place:
\* until the call is over it is in the pipe or in answer, and both hold only what was sent.
HasResult(s) == \E i \in 1..Len(s) : s[i] \in Outcomes
OnlyResult(s, o) == \A i \in 1..Len(s) : s[i] \in Outcomes => s[i] = o

ResultOrder(c) ==
    /\ OnlyResult(pipe[c], sent[c])
    /\ answer[c] # "none" => answer[c] = sent[c]
    /\ sent[c] # "none" => wpc[c] \in {"teardown", "dead"}
    /\ sent[c] # "none" /\ answer[c] = "none" /\ pc[c] # "done" => HasResult(pipe[c])
    /\ sent[c] # "none" /\ report[c] # "none" => report[c] = sent[c]

\* One call at a time has the queue lock.
OneTurn == \A c, d \in Calls : pc[c] \in Running /\ pc[d] \in Running => c = d

ResultInv == OneTurn /\ \A c \in Calls : ResultOrder(c)

\* Every call is answered while the server lives, whatever its worker, the workers before it
\* and the camera do: no hang holds the queue for ever.
CallsAreAnswered ==
    \A c \in Calls : pc[c] = "queued" ~> (report[c] # "none" \/ server = "gone")
=============================================================================
