---------------------------- MODULE GuardedWindow ----------------------------
(***************************************************************************)
(* The guarded write of the GUI (gui/src/guarded.rs) and what it runs on:  *)
(* the windows' state machines, the frame of the UI thread, the one worker *)
(* thread behind two channels, and the CLI child that writes.              *)
(*                                                                         *)
(* A frame first drains the events of the worker (poll), then withdraws    *)
(* what the form no longer asks for (sync), then draws and takes at most   *)
(* one click.  The worker runs beside it and may die at any point: it      *)
(* drops its end of the command channel first, of the event channel last.  *)
(*                                                                         *)
(* Abstracted: a plan is the request it was made for and the version of    *)
(* the world (the body, the snapshot) it was computed from, which is what  *)
(* its digest stands for; a selection (a restore's `only`, a transplant's  *)
(* opt-ins) is made or not; the body is one, picked already, with rows     *)
(* that differ in firmware or pairing.                                     *)
(***************************************************************************)
EXTENDS Naturals, Sequences, FiniteSets

CONSTANTS
    Windows,     \* the windows open: a subset of {"transplant", "restore"}
    Files,       \* the snapshots listed
    Rows,        \* what Discover can say of the body
    Unaimed,     \* the rows a write is refused for (no serial, two of a model)
    Dirs,        \* the data directories
    NoFile, NoRow, NoDir,
    MaxApplies,  \* bound: confirmations
    MaxTurns,    \* bound: changes of the body, the snapshots or the bus by others
    MaxMoves     \* bound: changes of the data directory

ASSUME WindowsAssumption == Windows \subseteq {"transplant", "restore"}
ASSUME RowsAssumption == Unaimed \subseteq Rows /\ NoRow \notin Rows
ASSUME DirsAssumption == NoDir \notin Dirs
ASSUME AppliesAssumption == MaxApplies \in Nat

VARIABLES
    pc,        \* where the UI thread is in its frame
    stage,     \* of each window: Stage with what it holds
    file,      \* of each window: the snapshot picked
    sel,       \* of each window: a selection is made
    pair,      \* of each window: the snapshot and row the selection is for
    dir,       \* the data directory of the settings
    row,       \* the row of the last Discover
    pending,   \* commands sent and not answered, as the UI counts them
    gone,      \* worker_stopped has run
    cmds,      \* the command channel
    evts,      \* the event channel
    worker,    \* alive, closing (its receiver is dropped), dead
    wdir,      \* the worker's data directory
    job,       \* the command the worker has in hand
    child,     \* the CLI child of an apply: none, running, wrote
    bus,       \* the row a scan of the bus would give
    world,     \* the version of the body and the snapshots
    applies,   \* confirmations given
    approved,  \* what each confirmation was for
    writes,    \* what was written, and where
    turns, moves

shown == <<stage, file, sel, pair>>
world_vars == <<bus, world, turns>>
worker_vars == <<worker, wdir, job, child>>
vars == <<pc, shown, dir, row, pending, gone, cmds, evts, worker_vars,
          applies, approved, writes, moves, world_vars>>

Points == {<<"point", i>> : i \in 1..MaxApplies}   \* restore points, by apply
Point(i) == <<"point", i>>
Request == [file: Files \union Points \union {NoFile}, row: Rows \union {NoRow}, sel: BOOLEAN]
NoReq == [file |-> NoFile, row |-> NoRow, sel |-> FALSE]
NoPair == <<NoFile, NoRow>>

(* A stage: `fewer` says that less is ticked than the plan is for. *)
St(at, req, seen, fewer, id, outcome) ==
    [at |-> at, req |-> req, seen |-> seen, fewer |-> fewer, id |-> id, outcome |-> outcome]
Idle == St("idle", NoReq, 0, FALSE, 0, "none")
Planning(r) == St("planning", r, 0, FALSE, 0, "none")
Applying(r, i) == St("applying", r, 0, FALSE, i, "none")
Done(r, i, o) == St("done", r, 0, FALSE, i, o)
Holding == {"planning", "planned", "aside", "confirm"}

Command(k, w, r, n, i, d) == [kind |-> k, win |-> w, req |-> r, seen |-> n, id |-> i, dir |-> d]
Plain(k) == Command(k, "none", NoReq, 0, 0, NoDir)
NoJob == Plain("none")
PlanCmd(w, r) == Command("plan", w, r, 0, 0, NoDir)
ApplyCmd(w, r, n, i) == Command("apply", w, r, n, i, NoDir)
SetDir(d) == Command("setdir", "none", NoReq, 0, 0, d)
Event(k, w, r, n, i, o, c) ==
    [kind |-> k, win |-> w, req |-> r, seen |-> n, id |-> i, outcome |-> o, row |-> c]

Init ==
    /\ pc = "poll"
    /\ stage = [w \in Windows |-> Idle]
    /\ file = [w \in Windows |-> NoFile]
    /\ sel = [w \in Windows |-> FALSE]
    /\ pair = [w \in Windows |-> NoPair]
    /\ dir \in Dirs /\ wdir = dir
    /\ row = NoRow /\ bus \in Rows
    /\ cmds = <<Plain("refresh")>> /\ pending = 1
    /\ evts = <<>> /\ gone = FALSE
    /\ worker = "alive" /\ job = NoJob /\ child = "none"
    /\ world = 0 /\ turns = 0 /\ moves = 0
    /\ applies = 0 /\ writes = {}
    /\ approved = [i \in 1..MaxApplies |-> [req |-> NoReq, form |-> NoReq, seen |-> 0, dir |-> NoDir]]

Busy == pending > 0
Heard == worker = "alive"     \* the receiver of the commands is there

(* The request the form asks for now, if it asks for one. *)
Asked(w) == [file |-> file[w], row |-> row, sel |-> sel[w]]
Asks(w) == file[w] # NoFile /\ row # NoRow
PairOf(f) == IF f = NoFile \/ row = NoRow THEN NoPair ELSE <<f, row>>

-----------------------------------------------------------------------------
(* The transitions every window shares. *)

GoIdle(w) ==
    /\ stage' = [stage EXCEPT ![w] = Idle]
    /\ sel' = [sel EXCEPT ![w] = FALSE]

Finish(w, r, i, o) ==
    /\ stage' = [stage EXCEPT ![w] = Done(r, i, o)]
    /\ sel' = [sel EXCEPT ![w] = FALSE]

\* Plausible bug: what nobody hears is counted too
SendCounted(p, c) ==
    /\ cmds' = IF Heard THEN Append(cmds, c) ELSE cmds
    /\ pending' = p + 1

(* FleetApp::send: counted while it is not answered, unless nobody hears. *)
Send(p, c) ==
    /\ cmds' = IF Heard THEN Append(cmds, c) ELSE cmds
    /\ pending' = IF Heard THEN p + 1 ELSE p

Down == IF pending = 0 THEN 0 ELSE pending - 1

(* Start a plan for request r, with the selection it carries; a command    *)
(* nobody hears is not waited for.                                         *)
BeginPlan(w, r) ==
    /\ Send(pending, PlanCmd(w, r))
    /\ stage' = [stage EXCEPT ![w] = IF Heard THEN Planning(r) ELSE Idle]
    /\ sel' = [sel EXCEPT ![w] = Heard /\ r.sel]

-----------------------------------------------------------------------------
(* The frame: the events, one by one. *)

Kept == UNCHANGED <<dir, gone, worker_vars, applies, approved, writes, moves, world_vars>>

Receive(k) ==
    /\ pc = "poll" /\ evts # <<>> /\ Head(evts).kind = k
    /\ evts' = Tail(evts)
    /\ Kept /\ UNCHANGED <<pc, file, pair>>

CamerasArrive ==
    /\ Receive("cameras")
    /\ row' = Head(evts).row /\ pending' = Down
    /\ UNCHANGED <<stage, sel, cmds>>

OtherArrives ==
    /\ Receive("other") /\ pending' = Down
    /\ UNCHANGED <<stage, sel, cmds, row>>

(* A plan is dropped unless it is the one asked for and still wanted. *)
Wanted(e) == stage[e.win] = Planning(e.req)

PlanArrives ==
    /\ Receive("planned") /\ pending' = Down
    /\ LET e == Head(evts) IN
         \/ ~Wanted(e) /\ UNCHANGED <<stage, sel>>
         \/ /\ Wanted(e) /\ e.outcome = "ok"
            /\ stage' = [stage EXCEPT ![e.win] = St("planned", e.req, e.seen, FALSE, 0, "none")]
            /\ UNCHANGED sel
         \/ Wanted(e) /\ e.outcome # "ok" /\ GoIdle(e.win)
    /\ UNCHANGED <<cmds, row>>

(* The answer to an apply; the snapshots are listed again if it may have   *)
(* written.                                                                *)
ApplyArrives ==
    /\ Receive("applied")
    /\ LET e == Head(evts) IN
         /\ IF stage[e.win].at = "applying" /\ stage[e.win].req = e.req
            THEN Finish(e.win, e.req, e.id, e.outcome)
            ELSE UNCHANGED <<stage, sel>>
         /\ IF e.outcome # "not_applied" /\ dir # NoDir
            THEN Send(Down, Plain("refresh"))
            ELSE pending' = Down /\ UNCHANGED cmds
    /\ UNCHANGED row

\* Plausible bug: an apply the dead worker had is called refused
LostRefused(w) ==
    IF stage[w].at = "applying" THEN Done(stage[w].req, stage[w].id, "not_applied")
    ELSE IF stage[w].at = "planning" THEN Idle ELSE stage[w]
\* Plausible bug: a plan the dead worker had is still waited for
LostApplyOnly(w) ==
    IF stage[w].at = "applying" THEN Done(stage[w].req, stage[w].id, "indeterminate") ELSE stage[w]

(* The worker's channel is closed: a plan being made is lost; an apply on  *)
(* the wire may have written, whatever stopped.                            *)
Lost(w) ==
    CASE stage[w].at = "planning" -> Idle
      [] stage[w].at = "applying" -> Done(stage[w].req, stage[w].id, "indeterminate")
      [] OTHER -> stage[w]

Stops == worker = "dead" /\ ~gone
StageNow == [w \in Windows |-> IF Stops THEN Lost(w) ELSE stage[w]]
SelNow == [w \in Windows |-> sel[w] /\ ~(Stops /\ stage[w].at \in {"planning", "applying"})]

(* sync_selection: a selection belongs to the snapshot and row it was made *)
(* for.  A restore's takes the snapshot with it when the body changed.     *)
Strays(w) == pair[w] # PairOf(file[w])
FileAfter(w) ==
    IF w = "restore" /\ Strays(w) /\ SelNow[w] /\ pair[w][1] = file[w] THEN NoFile ELSE file[w]
SelAfter(w) == SelNow[w] /\ ~Strays(w)
AskedAfter(w) == [file |-> FileAfter(w), row |-> row, sel |-> SelAfter(w)]

\* Plausible bug: a confirmation that is up is not withdrawn
WithdrawnUnlessConfirming(w) ==
    StageNow[w].at \in Holding \ {"confirm"} /\ StageNow[w].req # AskedAfter(w)

(* What is held for another request than the form's is withdrawn. *)
Withdrawn(w) == StageNow[w].at \in Holding /\ StageNow[w].req # AskedAfter(w)

(* The last of the events is read (nothing the worker does can come        *)
(* between this and the sync): a closed channel ends what was waited for,  *)
(* and the forms are synced.                                               *)
Sync ==
    /\ pc = "poll" /\ evts = <<>> /\ pc' = "draw"
    /\ gone' = (gone \/ Stops)
    /\ pending' = IF Stops THEN 0 ELSE pending
    /\ pair' = [w \in Windows |-> PairOf(file[w])]
    /\ file' = [w \in Windows |-> FileAfter(w)]
    /\ stage' = [w \in Windows |-> IF Withdrawn(w) THEN Idle ELSE StageNow[w]]
    /\ sel' = [w \in Windows |-> SelAfter(w) /\ ~Withdrawn(w)]
    /\ UNCHANGED <<dir, row, cmds, evts, worker_vars, applies, approved, writes, moves, world_vars>>

-----------------------------------------------------------------------------
(* The frame: one click, or none. *)

Frame ==
    /\ pc = "draw" /\ pc' = "poll"
    /\ UNCHANGED <<row, gone, evts, worker_vars, writes, world_vars>>
Calm == UNCHANGED <<dir, cmds, pending, applies, approved, moves>>

NoClick == Frame /\ Calm /\ UNCHANGED shown

(* The snapshots offered: those there are, and the restore points made.    *)
Listed == Files \union {Point(x.id) : x \in writes}

(* The pickers of a window, and the sidebar's buttons that fill a form. *)
Pick(w, f) ==
    /\ Frame /\ Calm /\ ~Busy
    /\ file' = [file EXCEPT ![w] = f]
    /\ UNCHANGED <<stage, sel, pair>>

StartFrom(f) ==
    /\ Frame /\ Calm /\ ~Busy
    /\ file' = [file EXCEPT !["restore"] = f]
    /\ sel' = [sel EXCEPT !["restore"] = FALSE]
    /\ UNCHANGED <<stage, pair>>

Sends == UNCHANGED <<dir, applies, approved, moves, file, pair>>

Plan(w) ==
    /\ Frame /\ Sends /\ ~Busy
    /\ dir # NoDir /\ Asks(w) /\ row \notin Unaimed
    /\ stage[w].at \notin {"planning", "applying"}
    /\ BeginPlan(w, Asked(w))

AskApply(w) ==
    /\ Frame /\ Calm /\ ~Busy
    /\ stage[w].at = "planned" /\ ~stage[w].fewer
    /\ stage' = [stage EXCEPT ![w] = St("confirm", stage[w].req, stage[w].seen, FALSE, 0, "none")]
    /\ UNCHANGED <<sel, file, pair>>

CancelConfirmation(w) ==
    /\ Frame /\ Calm /\ ~Busy
    /\ stage[w].at \in {"confirm", "aside"}
    /\ stage' = [stage EXCEPT ![w] = St("planned", stage[w].req, stage[w].seen, FALSE, 0, "none")]
    /\ UNCHANGED <<sel, file, pair>>

(* What is sent is the plan that was shown; approved notes the form too.   *)
ConfirmApply(w) ==
    /\ Frame /\ ~Busy /\ applies < MaxApplies
    /\ stage[w].at = "confirm"
    /\ LET r == stage[w].req  n == stage[w].seen  i == applies + 1 IN
         /\ applies' = i
         /\ approved' = [approved EXCEPT ![i] = [req |-> r, form |-> Asked(w), seen |-> n, dir |-> dir]]
         /\ Send(pending, ApplyCmd(w, r, n, i))
         /\ IF Heard
            THEN stage' = [stage EXCEPT ![w] = Applying(r, i)] /\ UNCHANGED sel
            ELSE Finish(w, r, i, "not_applied")
    /\ UNCHANGED <<dir, moves, file, pair>>

Discard(w) ==
    /\ Frame /\ Calm
    /\ stage[w].at \in {"planned", "done"}
    /\ GoIdle(w) /\ UNCHANGED <<file, pair>>

(* Transplant: one property is opted in, by a question of its own. *)
AskOptIn ==
    /\ Frame /\ Calm /\ ~Busy
    /\ stage["transplant"].at = "planned" /\ ~stage["transplant"].req.sel
    /\ stage' = [stage EXCEPT !["transplant"] =
                   St("aside", stage["transplant"].req, stage["transplant"].seen, FALSE, 0, "none")]
    /\ UNCHANGED <<sel, file, pair>>

PlanWith(w, s) == BeginPlan(w, [file |-> file[w], row |-> row, sel |-> s])

ConfirmOptIn ==
    /\ Frame /\ Sends /\ ~Busy
    /\ stage["transplant"].at = "aside"
    /\ PlanWith("transplant", TRUE)

RemoveOptIn ==
    /\ Frame /\ Sends /\ ~Busy
    /\ stage["transplant"].at = "planned" /\ sel["transplant"]
    /\ PlanWith("transplant", FALSE)

(* Restore: the ticks of a plan, the plan for the ticked, for everything.  *)
Toggle ==
    /\ Frame /\ Calm /\ ~Busy
    /\ stage["restore"].at = "planned" /\ ~stage["restore"].req.sel
    /\ stage' = [stage EXCEPT !["restore"] =
                   St("planned", stage["restore"].req, stage["restore"].seen,
                      ~stage["restore"].fewer, 0, "none")]
    /\ UNCHANGED <<sel, file, pair>>

PlanSelection ==
    /\ Frame /\ Sends /\ ~Busy
    /\ stage["restore"].at = "planned" /\ stage["restore"].fewer
    /\ PlanWith("restore", TRUE)

PlanEverything ==
    /\ Frame /\ Sends /\ ~Busy
    /\ stage["restore"].at = "planned" /\ stage["restore"].req.sel
    /\ PlanWith("restore", FALSE)

(* The undo a result offers: made as the result is drawn, with the data    *)
(* directory of that frame; the restore window opens on it and plans.      *)
UndoOffer(w) == [point |-> Point(stage[w].id), dir |-> dir]

Undo(w) ==
    /\ Frame /\ ~Busy /\ "restore" \in Windows
    /\ stage[w].at = "done" /\ stage[w].outcome = "report" /\ dir # NoDir
    /\ UndoOffer(w).dir = dir
    /\ stage["restore"].at \notin {"planning", "applying"} /\ row # NoRow
    /\ LET f == UndoOffer(w).point
           r == [file |-> f, row |-> row, sel |-> TRUE] IN
         /\ file' = [file EXCEPT !["restore"] = f]
         /\ pair' = [pair EXCEPT !["restore"] = <<f, row>>]
         /\ IF row \in Unaimed
            THEN /\ stage' = [stage EXCEPT !["restore"] = Idle]
                 /\ sel' = [sel EXCEPT !["restore"] = TRUE]
                 /\ UNCHANGED <<cmds, pending>>
            ELSE BeginPlan("restore", r)
    /\ UNCHANGED <<dir, applies, approved, moves>>

Discover ==
    /\ Frame /\ ~Busy
    /\ Send(pending, Plain("discover"))
    /\ UNCHANGED <<dir, applies, approved, moves, shown>>

\* Plausible bug: what is on the wire is withdrawn too
DirWithdrawsAll == {"planning", "planned", "aside", "confirm"} \union {"applying"}

(* What a change of the data directory withdraws. *)
DirWithdraws == Holding

(* Preferences are open whatever runs: the worker is told, in its turn.    *)
ChangeDir(d) ==
    /\ Frame /\ moves < MaxMoves /\ moves' = moves + 1
    /\ dir' = d
    /\ stage' = [w \in Windows |-> IF stage[w].at \in DirWithdraws THEN Idle ELSE stage[w]]
    /\ sel' = [w \in Windows |-> sel[w] /\ stage[w].at \notin DirWithdraws]
    /\ IF Heard
       THEN LET told == Append(cmds, SetDir(d)) IN
            /\ cmds' = IF d = NoDir THEN told ELSE Append(told, Plain("refresh"))
            /\ pending' = IF d = NoDir THEN pending ELSE pending + 1
       ELSE UNCHANGED <<cmds, pending>>
    /\ UNCHANGED <<file, pair, applies, approved>>

Click ==
    \/ \E w \in Windows :
         \/ \E f \in Listed : Pick(w, f)
         \/ Plan(w) \/ AskApply(w) \/ CancelConfirmation(w) \/ ConfirmApply(w)
         \/ Discard(w) \/ Undo(w)
    \/ "transplant" \in Windows /\ (AskOptIn \/ ConfirmOptIn \/ RemoveOptIn)
    \/ "restore" \in Windows /\ (Toggle \/ PlanSelection \/ PlanEverything)
    \/ "restore" \in Windows /\ \E f \in Listed : StartFrom(f)
    \/ Discover
    \/ \E d \in Dirs \union {NoDir} : ChangeDir(d)

-----------------------------------------------------------------------------
(* The worker thread: one command after the other. *)

Works == UNCHANGED <<pc, shown, dir, row, pending, gone, applies, approved, moves, turns, bus>>

Takes(k) == worker = "alive" /\ job = NoJob /\ cmds # <<>> /\ Head(cmds).kind = k
Shift == cmds' = Tail(cmds)
Reads(e) == evts' = Append(evts, e) /\ Shift /\ Works /\ UNCHANGED <<worker_vars, world, writes>>

RunSetDir ==
    /\ Takes("setdir") /\ Shift
    /\ wdir' = Head(cmds).dir
    /\ Works /\ UNCHANGED <<evts, worker, job, child, world, writes>>

(* Commands that only read are one step: what they lose when the worker    *)
(* dies under them is what is lost of a queued one.                        *)
RunDiscover ==
    Takes("discover") /\ Reads(Event("cameras", "none", NoReq, 0, 0, "ok", bus))

RunRefresh ==
    Takes("refresh") /\ Reads(Event("other", "none", NoReq, 0, 0, "ok", NoRow))

(* A snapshot is in every directory, a restore point where it was made.    *)
Holds(d, f) == f \in Files \/ \E x \in writes : f = Point(x.id) /\ x.dir = d

(* The pre-flight's view of the target, and what the command finds.        *)
CanRun(r) == wdir # NoDir /\ bus = r.row /\ Holds(wdir, r.file)

RunPlan ==
    /\ Takes("plan")
    /\ LET c == Head(cmds) IN
       \/ CanRun(c.req) /\ Reads(Event("planned", c.win, c.req, world, 0, "ok", NoRow))
       \/ Reads(Event("planned", c.win, c.req, 0, 0, "failed", NoRow))

TakeApply ==
    /\ Takes("apply") /\ Shift
    /\ job' = Head(cmds)
    /\ Works /\ UNCHANGED <<evts, worker, wdir, child, world, writes>>

InHand == worker = "alive" /\ job # NoJob
AnswerApply(o) ==
    /\ evts' = Append(evts, Event("applied", job.win, job.req, 0, job.id, o, NoRow))
    /\ job' = NoJob /\ UNCHANGED <<cmds, worker, wdir>>

(* Refused by the pre-flight, for want of a directory or of the command.   *)
RefuseApply ==
    /\ InHand /\ child = "none"
    /\ AnswerApply("not_applied")
    /\ Works /\ UNCHANGED <<child, world, writes>>

Spawn ==
    /\ InHand /\ child = "none" /\ CanRun(job.req)
    /\ child' = "running"
    /\ Works /\ UNCHANGED <<cmds, evts, worker, wdir, job, world, writes>>

(* The child's first write, its restore point stored: of the plan it       *)
(* computes, if that is the one confirmed.  It is not stopped by the end   *)
(* of the thread that started it.                                          *)
ChildWrites ==
    /\ child = "running" /\ world = job.seen
    /\ child' = "wrote" /\ world' = world + 1
    /\ writes' = writes \union {[id |-> job.id, req |-> job.req, seen |-> world, dir |-> wdir]}
    /\ Works /\ UNCHANGED <<cmds, evts, worker, wdir, job>>

(* classify_apply_as: only exits that come before any write say that none  *)
(* was made; a report tells what was done; a run that was killed, or whose *)
(* report is not readable, tells nothing.                                  *)
Classified(c) == IF c = "wrote" THEN {"report", "indeterminate"}
                                ELSE {"not_applied", "indeterminate"}

ChildEnds ==
    /\ InHand /\ child # "none" /\ child' = "none"
    /\ \E o \in Classified(child) : AnswerApply(o)
    /\ Works /\ UNCHANGED <<world, writes>>

(* A panic: the receiver of the commands goes first, what is queued with   *)
(* it, and the sender of the events last.                                  *)
Dies ==
    /\ worker = "alive" /\ worker' = "closing"
    /\ cmds' = <<>>
    /\ Works /\ UNCHANGED <<evts, wdir, job, child, world, writes>>

Closes ==
    /\ worker = "closing" /\ worker' = "dead"
    /\ Works /\ UNCHANGED <<cmds, evts, wdir, job, child, world, writes>>

-----------------------------------------------------------------------------
(* The world: the body is changed at its dials, a snapshot is edited; a    *)
(* body is unplugged, plugged, updated.                                    *)

Others == UNCHANGED <<pc, shown, dir, row, pending, gone, cmds, evts, worker_vars,
                      applies, approved, writes, moves>>

WorldTurns ==
    /\ turns < MaxTurns /\ turns' = turns + 1 /\ world' = world + 1
    /\ Others /\ UNCHANGED bus

Plugs ==
    /\ turns < MaxTurns /\ turns' = turns + 1 /\ bus' \in Rows \union {NoRow}
    /\ Others /\ UNCHANGED world

Poll == CamerasArrive \/ OtherArrives \/ PlanArrives \/ ApplyArrives \/ Sync
UI == Poll \/ NoClick \/ Click
Serves == RunSetDir \/ RunDiscover \/ RunRefresh \/ RunPlan \/ TakeApply
          \/ RefuseApply \/ ChildEnds
Next == UI \/ Serves \/ Spawn \/ ChildWrites \/ Dies \/ Closes \/ WorldTurns \/ Plugs

(* Frames go on: a busy window asks for one every second (request_repaint_ *)
(* after), and a frame ends whatever is clicked.  The worker gets on with  *)
(* what it has: every command it runs has a time limit.                    *)
Spec ==
    /\ Init /\ [][Next]_vars
    /\ WF_vars(Poll) /\ WF_vars(NoClick)
    /\ WF_vars(Serves) /\ WF_vars(Closes)

-----------------------------------------------------------------------------
Stages == [at: {"idle", "planning", "planned", "aside", "confirm", "applying", "done"},
           req: Request, seen: Nat, fewer: BOOLEAN, id: 0..MaxApplies,
           outcome: {"none", "report", "not_applied", "indeterminate"}]

\* Every variable holds what the code lets it hold.
TypeOK ==
    /\ pc \in {"poll", "draw"}
    /\ stage \in [Windows -> Stages] /\ sel \in [Windows -> BOOLEAN]
    /\ file \in [Windows -> Files \union Points \union {NoFile}]
    /\ dir \in Dirs \union {NoDir} /\ wdir \in Dirs \union {NoDir}
    /\ row \in Rows \union {NoRow} /\ bus \in Rows \union {NoRow}
    /\ pending \in Nat /\ world \in Nat /\ gone \in BOOLEAN
    /\ worker \in {"alive", "closing", "dead"} /\ child \in {"none", "running", "wrote"}
    /\ applies \in 0..MaxApplies

\* What is written is what was confirmed: the plan that was on the screen,
\* for the request the form showed at that moment, in the data directory in
\* use then, whatever was discovered, picked, moved or changed in between
\* (sync, data_dir_changed, confirm_apply, the order of the channel).
WrittenIsApproved ==
    \A x \in writes :
        /\ x.req = approved[x.id].req /\ x.req = approved[x.id].form
        /\ x.seen = approved[x.id].seen /\ x.dir = approved[x.id].dir

\* A window that says "not applied" is right, now and later: no child of
\* that apply has written, or still can (classify_apply_as, worker_lost,
\* not_sent).
NotAppliedIsTrue ==
    \A w \in Windows :
        stage[w].outcome = "not_applied" =>
            /\ \A x \in writes : x.id # stage[w].id
            /\ ~(job.id = stage[w].id /\ child # "none")

\* The apply that is queued, in hand, or answered and not yet read has its
\* window waiting for it: its answer is never dropped (applied,
\* data_dir_changed, sync).
OnTheWay(i) ==
    \/ \E k \in 1..Len(cmds) : cmds[k].kind = "apply" /\ cmds[k].id = i
    \/ worker = "alive" /\ job # NoJob /\ job.id = i
    \/ \E k \in 1..Len(evts) : evts[k].kind = "applied" /\ evts[k].id = i

AnswersFindTheirWindow ==
    \A i \in 1..MaxApplies : OnTheWay(i) =>
        \E w \in Windows : stage[w].at = "applying" /\ stage[w].id = i

\* The count that keeps a second camera operation from being started is the
\* number of commands not yet answered, and after the worker's end zero: it
\* neither lets two run nor leaves the windows disabled (send, poll,
\* use_settings_data_dir, worker_stopped).
Counted == {k \in 1..Len(cmds) : cmds[k].kind # "setdir"}
Unanswered == Len(evts) + (IF job = NoJob THEN 0 ELSE 1)
PendingIsExact ==
    /\ worker = "alive" => pending = Cardinality(Counted) + Unanswered
    /\ gone => pending = 0

\* No window waits for ever, not for a worker that died between a command
\* and its answer either (worker_lost, not_sent, and the order in which the
\* worker's ends of the channels go).
WaitsEnd == \A w \in Windows :
    stage[w].at \in {"planning", "applying"} ~> stage[w].at \notin {"planning", "applying"}

\* An undo is planned in the data directory its apply used (start_undo_in:
\* "The restore point is a file in the data directory the apply used").
UndoIsWhereItsPointIs ==
    \A w \in Windows, i \in 1..MaxApplies :
        (stage[w].at = "planning" /\ stage[w].req.file = Point(i) /\ stage[w].req.sel)
            => dir = approved[i].dir
=============================================================================
