---------------------------- MODULE ExtendedRestore --------------------------
(***************************************************************************)
(* Putting a snapshot's extended section back on a body                    *)
(* (src/ops/restore_extended.rs over one raw PTP session of src/ptp_usb.rs *)
(* and src/extended.rs): plan, confirmation, restore point, the writes in  *)
(* their order, the rebuild of the FTP list by single deletes and adds,    *)
(* the read afterwards, the report, and the undo from the restore point.   *)
(*                                                                         *)
(* A person may change the camera between two operations of the session.   *)
(* A fault is a read that fails, a write the camera refuses, ignores or    *)
(* leaves unanswered, or the death of the process.                         *)
(***************************************************************************)
EXTENDS Naturals, Sequences

CONSTANTS
    Strings, Slots, Switches, \* owner strings, IPTC preset slots, one-byte switches
    Order,                    \* the three in the order of the plan, each item once
    Selector,                 \* the switch that selects an IPTC preset
    Ftp,                      \* the item that is the whole FTP list
    Values, Empty,            \* values of the items; an empty preset
    Profiles, Limit,          \* FTP profiles, and how many a body holds
    Lacks, Unread,            \* a reading: the body has no such item; it was not read
    Absent,                   \* items the model does not have
    Writable,                 \* items whose write is confirmed on the model
    DeleteConfirmed,          \* whether deleting an FTP profile is confirmed on the model
    Unsendable,               \* values and profiles the write path does not accept
    Bodies, Sources, Scopes,  \* initial bodies, snapshots to restore, values of --only
    MaxRuns, MaxTroubles, MaxEdits \* bounds: runs, faults and edits together, edits

Simple == Strings \cup Slots \cup Switches
Items == Simple \cup {Ftp}
Categories == {"strings", "iptc", "switches", "ftp"}

Lists == {l \in Seq(Profiles) : Len(l) <= Limit}
Body == [val : [Simple -> Values], ftp : Lists]

\* What was read of a body, or is held by a snapshot.  The list may be only a part of it.
FtpReading == [state : {"read", "lacks", "unread"}, list : Seq(Profiles), whole : BOOLEAN]
Reading == [val : [Simple -> Values \cup {Lacks, Unread}], ftp : FtpReading]

NoList == [state |-> "unread", list |-> <<>>, whole |-> FALSE]

ASSUME ItemsAssumption ==
    /\ Ftp \notin Simple
    /\ Order \in Seq(Simple)
    /\ {Order[k] : k \in 1..Len(Order)} = Simple
    /\ \A j, k \in 1..Len(Order) : Order[j] = Order[k] => j = k
    /\ Lacks \notin Values /\ Unread \notin Values /\ Lacks # Unread
ASSUME BodyAssumption ==
    /\ Limit \in Nat
    /\ Bodies \subseteq Body /\ Sources \subseteq Reading /\ Scopes \subseteq SUBSET Categories
ASSUME ModelAssumption == DeleteConfirmed \in BOOLEAN
ASSUME BoundsAssumption == MaxRuns \in Nat /\ MaxTroubles \in Nat /\ MaxEdits \in Nat

Actions == {"not_selected", "unchanged", "write", "no_value", "lacks", "unreadable", "not_on_body",
            "not_writable", "truncated", "too_long"}
Blocked == {"unreadable", "not_on_body", "not_writable", "truncated", "too_long"}

Outcomes == {"none", "verified", "unverified", "failed", "indeterminate", "not_attempted"}
Stops == {"failed", "indeterminate"}
Statuses == {"none", "refused", "verified", "unverified", "failed", "indeterminate", "died"}

VARIABLES
    body,      \* what the camera holds
    poisoned,  \* the session is unusable: a reply is out of step
    pc,        \* "idle", "asked", "saving" or "writing"
    job,       \* the run: its snapshot, its scope, whether it undoes a run, and the body then
    asked,     \* the plan that was shown and confirmed
    live,      \* what the apply read before it wrote
    at,        \* index of the item to write; Len(Order) + 1 is the FTP list
    left,      \* profiles still to delete
    added,     \* profiles added
    allOk,     \* every add was confirmed by its read-back
    results,   \* results[i]: the outcome of item i
    point,     \* the last restore point, or none
    before,    \* the body when that restore point was saved
    report     \* the last report

VARIABLES
    changed,   \* items whose content a command of this run changed
    edited,    \* a person changed the body since this run read it
    runs, faults, edits

ghosts == <<changed, edited, runs, faults, edits>>
vars == <<body, poisoned, pc, job, asked, live, at, left, added, allOk, results, point, before,
          report, changed, edited, runs, faults, edits>>
-----------------------------------------------------------------------------
(* The plan. *)

Category(i) ==
    IF i \in Strings THEN "strings"
    ELSE IF i \in Slots THEN "iptc"
    ELSE IF i \in Switches THEN "switches"
    ELSE "ftp"

\* Plausible bug: an empty value of the snapshot is taken for none.
JudgeEmptyAsNone(i, want, now, r) ==
    IF want \in {Lacks, Unread, Empty} THEN "no_value"
    ELSE IF now = want THEN "unchanged"
    ELSE IF now = Lacks THEN "lacks"
    ELSE IF now = Unread THEN "unreadable"
    ELSE IF i \in Writable /\ want \notin Unsendable THEN "write"
    ELSE "not_writable"

\* plan_strings, plan_iptc and plan_switches: the action for one item.
Judge(i, want, now, r) ==
    IF want \in {Lacks, Unread} THEN "no_value"
    ELSE IF now = want THEN "unchanged"
    ELSE IF now = Lacks
      THEN IF i \in Slots /\ \E j \in Slots : r.val[j] # Lacks THEN "not_on_body" ELSE "lacks"
    ELSE IF now = Unread THEN "unreadable"
    ELSE IF i \in Writable /\ want \notin Unsendable /\ (i \in Slots => now \notin Unsendable) THEN "write"
    ELSE "not_writable"

\* ftp_rebuild_refusal: the adds need the write confirmed, the deletes of what is stored the delete.
MayRebuild(stored) == Ftp \in Writable /\ (Len(stored) > 0 => DeleteConfirmed)

\* plan_ftp: lists of the same length with the same settings are the same; a list held in part,
\* here or there, is never rebuilt.
JudgeList(want, now) ==
    IF want.state # "read" THEN "no_value"
    ELSE IF now.state = "lacks" THEN "lacks"
    ELSE IF now.state = "unread" THEN "unreadable"
    ELSE IF now.list = want.list THEN "unchanged"
    ELSE IF ~now.whole THEN "unreadable"
    ELSE IF ~want.whole THEN "truncated"
    ELSE IF \E k \in 1..Len(want.list) : want.list[k] \in Unsendable THEN "not_writable"
    ELSE IF Len(want.list) > Limit THEN "too_long"
    ELSE IF ~MayRebuild(now.list) THEN "not_writable"
    ELSE "write"

\* One item of the plan: what is done, and what its fingerprint binds: the value to write and
\* the value the body held when the plan was made.
Line(act, to, from) == [act |-> act, to |-> to, from |-> from]
Unbound(act) == act \in {"not_selected", "no_value"}

\* Plausible bug: the fingerprint binds only the value to write.
PlanItemByTarget(i, src, r) ==
    LET act == Judge(i, src.val[i], r.val[i], r) IN
    IF Unbound(act) THEN Line(act, Unread, Unread) ELSE Line(act, src.val[i], Unread)

PlanItem(i, src, r) ==
    LET act == Judge(i, src.val[i], r.val[i], r) IN
    IF Unbound(act) THEN Line(act, Unread, Unread) ELSE Line(act, src.val[i], r.val[i])

PlanList(src, r) ==
    LET act == JudgeList(src.ftp, r.ftp) IN
    IF Unbound(act) THEN Line(act, <<>>, <<>>) ELSE Line(act, src.ftp.list, r.ftp.list)

\* plan_extended_restore: one item per thing the snapshot could put back.  Pure.
PlanOf(src, r, only) ==
    [val |-> [i \in Simple |->
                IF Category(i) \in only THEN PlanItem(i, src, r)
                ELSE Line("not_selected", Unread, Unread)],
     ftp |-> IF "ftp" \in only THEN PlanList(src, r) ELSE Line("not_selected", <<>>, <<>>)]

ActionOf(plan, i) == IF i = Ftp THEN plan.ftp.act ELSE plan.val[i].act
With(plan, acts) == {i \in Items : ActionOf(plan, i) \in acts}

\* The plan of the run that writes.
Plan == PlanOf(job.source, live, job.only)
Target == Plan.ftp.to

-----------------------------------------------------------------------------
(* The session. *)

\* What read_extended answers when every read works.
Sound == [val |-> [i \in Simple |-> IF i \in Absent THEN Lacks ELSE body.val[i]],
          ftp |-> IF Ftp \in Absent THEN [state |-> "lacks", list |-> <<>>, whole |-> FALSE]
                  ELSE [state |-> "read", list |-> body.ftp, whole |-> TRUE]]

\* The reads are one for each property, one for the slots together and one for the list.
Parts == {{i} : i \in Strings \cup Switches} \cup {Slots, {Ftp}}
Misread(U) ==
    [val |-> [i \in Simple |-> IF i \in U THEN Unread ELSE Sound.val[i]],
     ftp |-> IF Ftp \in U THEN NoList ELSE Sound.ftp]

Readings == {Sound} \cup {Misread(UNION P) : P \in SUBSET Parts}

\* A fault: the session may be left out of step with the camera (transact_within, poison).
Fault ==
    /\ faults + edits < MaxTroubles
    /\ faults' = faults + 1
    /\ poisoned' \in {poisoned, TRUE}
NoFault == UNCHANGED <<faults, poisoned>>

\* What happens for sure under a condition, and otherwise by a fault.
SureIf(condition) == (condition /\ NoFault) \/ Fault

\* read_extended: a part that is not read is a fault.
Reads(r) ==
    \/ r = Sound /\ NoFault
    \/ r # Sound /\ Fault

\* The identity is not read, hence nothing is.
CannotRead == SureIf(poisoned)

\* The camera takes the selector only while some preset is not empty.
Settable(i) == i = Selector => \E s \in Slots : body.val[s] # Empty
-----------------------------------------------------------------------------
Report(status, no_op, undo, differing) ==
    [status |-> status, no_op |-> no_op, undo |-> undo, differing |-> differing]
NoReport == Report("none", FALSE, {}, {})
NoResults == [i \in Items |-> "none"]
NoPoint == [val |-> [i \in Simple |-> Unread], ftp |-> NoList]

Init ==
    /\ body \in Bodies
    /\ poisoned = FALSE
    /\ pc = "idle"
    /\ job = [source |-> NoPoint, only |-> {}, undo |-> FALSE, want |-> body]
    /\ asked = PlanOf(NoPoint, NoPoint, {})
    /\ live = NoPoint
    /\ at = 1 /\ left = 0 /\ added = 0 /\ allOk = TRUE
    /\ results = NoResults
    /\ point = NoPoint /\ before = body
    /\ report = NoReport
    /\ changed = {} /\ edited = FALSE
    /\ runs = 0 /\ faults = 0 /\ edits = 0

\* Plan a restore of src limited to only, in a session of its own, and show it.  The apply goes
\* on in that session (the command line) or in one of its own (a worker): poisoned or not.
Ask(src, only, undo) ==
    /\ pc = "idle" /\ runs < MaxRuns
    /\ runs' = runs + 1
    /\ job' = [source |-> src, only |-> only, undo |-> undo, want |-> before]
    /\ \E r \in Readings :
          /\ \/ r = Sound /\ faults' = faults /\ poisoned' = FALSE
             \/ r # Sound /\ faults + edits < MaxTroubles /\ faults' = faults + 1 /\ poisoned' \in BOOLEAN
          /\ asked' = PlanOf(src, r, only)
    /\ pc' = "asked"
    /\ report' = NoReport /\ results' = NoResults /\ changed' = {}
    /\ UNCHANGED <<body, live, at, left, added, allOk, point, before, edited, edits>>

PlanRestore == \E src \in Sources, only \in Scopes : Ask(src, only, FALSE)

\* The undo: the restore point, limited to the undo_set; to everything when no report came.
PlanUndo == report.undo # {} /\ Ask(point, report.undo, TRUE)

\* No write was made: the run is refused, or has nothing to do.
Ends(status, no_op) ==
    /\ report' = Report(status, no_op, {}, {})
    /\ pc' = "idle"

\* zero_write_status: a difference that was skipped for no routine reason is a failure.
ZeroWriteStatus(plan) == IF With(plan, Blocked) = {} THEN "verified" ELSE "failed"

\* Read the body again, in the session of the plan or in a new one, and refuse another plan
\* than the one confirmed.
ApplyPlan(plan, r) ==
    IF plan # asked THEN Ends("refused", FALSE) /\ UNCHANGED live
    ELSE IF With(plan, {"write"}) = {} THEN Ends(ZeroWriteStatus(plan), TRUE) /\ UNCHANGED live
    ELSE pc' = "saving" /\ live' = r /\ UNCHANGED report

Apply ==
    /\ pc = "asked"
    /\ \/ CannotRead /\ Ends("refused", FALSE) /\ UNCHANGED live
       \/ /\ ~poisoned
          /\ \E r \in Readings : Reads(r) /\ ApplyPlan(PlanOf(job.source, r, job.only), r)
    /\ edited' = FALSE
    /\ UNCHANGED <<body, job, asked, at, left, added, allOk, results, point, before,
                   changed, runs, edits>>

\* The restore points are at their cap, or the file is not written.
SaveFails ==
    /\ pc = "saving"
    /\ Ends("refused", FALSE)
    /\ UNCHANGED <<body, poisoned, job, asked, live, at, left, added, allOk, results, point, before>>
    /\ UNCHANGED ghosts

\* The restore point holds what was read.
SavePoint ==
    /\ pc = "saving"
    /\ point' = live /\ before' = body
    /\ pc' = "writing" /\ at' = 1
    /\ left' = IF live.ftp.state = "read" THEN Len(live.ftp.list) ELSE 0
    /\ added' = 0 /\ allOk' = TRUE
    /\ UNCHANGED <<body, poisoned, job, asked, live, results, report>>
    /\ UNCHANGED ghosts
-----------------------------------------------------------------------------
(* The writes: execute and execute_ftp. *)

Current == IF at <= Len(Order) THEN Order[at] ELSE Ftp
AllPassed == at > Len(Order) + 1
Stopped == \E i \in Items : results[i] \in Stops

End(i, outcome) ==
    /\ results' = [results EXCEPT ![i] = outcome]
    /\ at' = at + 1

\* Nothing to write for this item, or an earlier one did not complete.
Pass ==
    /\ pc = "writing" /\ ~AllPassed
    /\ ActionOf(Plan, Current) # "write" \/ Stopped
    /\ IF ActionOf(Plan, Current) = "write" THEN End(Current, "not_attempted")
       ELSE at' = at + 1 /\ UNCHANGED results
    /\ UNCHANGED <<body, poisoned, pc, job, asked, live, left, added, allOk, point, before, report>>
    /\ UNCHANGED ghosts

Turn(i) ==
    /\ pc = "writing" /\ ~AllPassed
    /\ i = Current
    /\ ActionOf(Plan, i) = "write" /\ ~Stopped

\* What a command leaves in the camera.
Leaves(i, b) ==
    /\ body' = b
    /\ changed' = changed \cup (IF b # body THEN {i} ELSE {})
WithValue(i, v) == [val |-> [body.val EXCEPT ![i] = v], ftp |-> body.ftp]

writeUnchanged == <<pc, job, asked, live, point, before, report, edited, runs, edits>>

\* Refused by a check of the session, or by the camera: nothing was changed.
WriteRefused(i) ==
    /\ Turn(i) /\ i \in Simple
    /\ SureIf(poisoned \/ ~Settable(i))
    /\ End(i, "failed")
    /\ UNCHANGED <<body, changed, left, added, allOk>> /\ UNCHANGED writeUnchanged

\* Accepted, and read back.
WriteDone(i) ==
    /\ Turn(i) /\ i \in Simple
    /\ ~poisoned /\ Settable(i)
    /\ Leaves(i, WithValue(i, Plan.val[i].to))
    /\ NoFault
    /\ End(i, "verified")
    /\ UNCHANGED <<left, added, allOk>> /\ UNCHANGED writeUnchanged

\* Accepted, and the read-back failed or shows another value: the camera may have ignored it.
WriteUnconfirmed(i) ==
    /\ Turn(i) /\ i \in Simple
    /\ ~poisoned /\ Settable(i)
    /\ \E b \in {body, WithValue(i, Plan.val[i].to)} : Leaves(i, b)
    /\ Fault
    /\ End(i, "unverified")
    /\ UNCHANGED <<left, added, allOk>> /\ UNCHANGED writeUnchanged

\* The data may have gone out and no answer came (transact_write).
WriteLost(i) ==
    /\ Turn(i) /\ i \in Simple
    /\ ~poisoned /\ Settable(i)
    /\ \E b \in {body, WithValue(i, Plan.val[i].to)} : Leaves(i, b)
    /\ Fault
    /\ End(i, "indeterminate")
    /\ UNCHANGED <<left, added, allOk>> /\ UNCHANGED writeUnchanged
-----------------------------------------------------------------------------
Deleting == Turn(Ftp) /\ left > 0
Adding == Turn(Ftp) /\ left = 0 /\ added < Len(Target)

Without(l, k) == SubSeq(l, 1, k - 1) \o SubSeq(l, k + 1, Len(l))
WithList(l) == [val |-> body.val, ftp |-> l]

\* Profiles are deleted one at a time, the last first.
Deleted == WithList(Without(body.ftp, left))

\* A delete is refused: before any other it changed nothing, after one the list is in pieces.
DeleteRefused ==
    /\ Deleting
    /\ SureIf(poisoned \/ left > Len(body.ftp))
    /\ End(Ftp, IF left = Len(live.ftp.list) THEN "failed" ELSE "indeterminate")
    /\ UNCHANGED <<body, changed, left, added, allOk>> /\ UNCHANGED writeUnchanged

\* A delete is acknowledged, and the count the camera then reports must be the one expected.
DeleteDone ==
    /\ Deleting
    /\ ~poisoned /\ left <= Len(body.ftp)
    /\ \E b \in {body, Deleted} :
          /\ \/ b = Deleted /\ NoFault
             \/ b = body /\ Fault
          /\ Leaves(Ftp, b)
          /\ IF Len(b.ftp) = left - 1
             THEN left' = left - 1 /\ UNCHANGED <<results, at>>
             ELSE End(Ftp, "indeterminate") /\ UNCHANGED left
    /\ UNCHANGED <<added, allOk>> /\ UNCHANGED writeUnchanged

\* The answer to a delete, or the count after it, did not come.
DeleteLost ==
    /\ Deleting
    /\ ~poisoned /\ left <= Len(body.ftp)
    /\ \E b \in {body, Deleted} : Leaves(Ftp, b)
    /\ Fault
    /\ End(Ftp, "indeterminate")
    /\ UNCHANGED <<left, added, allOk>> /\ UNCHANGED writeUnchanged

\* Plausible bug: the profiles are added in the order of the list.
AddedInOrder == WithList(<<Target[added + 1]>> \o body.ftp)

\* An add lands at the front, so the last profile is added first.
Added == WithList(<<Target[Len(Target) - added]>> \o body.ftp)

\* An add is sent only onto the count it was planned for (classify_ftp_write), and a full camera
\* refuses it.
CanAdd == ~poisoned /\ Len(body.ftp) = added /\ Len(body.ftp) < Limit

AddRefused ==
    /\ Adding
    /\ SureIf(~CanAdd)
    /\ End(Ftp, "failed")
    /\ UNCHANGED <<body, changed, left, added, allOk>> /\ UNCHANGED writeUnchanged

\* Accepted; a fault here is a read-back that failed, or a camera that ignored the add.
AddDone ==
    /\ Adding /\ CanAdd
    /\ \/ NoFault /\ Leaves(Ftp, Added) /\ UNCHANGED allOk
       \/ Fault /\ (\E b \in {body, Added} : Leaves(Ftp, b)) /\ allOk' = FALSE
    /\ added' = added + 1
    /\ UNCHANGED <<left, results, at>> /\ UNCHANGED writeUnchanged

AddLost ==
    /\ Adding /\ CanAdd
    /\ \E b \in {body, Added} : Leaves(Ftp, b)
    /\ Fault
    /\ End(Ftp, "indeterminate")
    /\ UNCHANGED <<left, added, allOk>> /\ UNCHANGED writeUnchanged

\* Every profile was added.
ListDone ==
    /\ Turn(Ftp) /\ left = 0 /\ added = Len(Target)
    /\ End(Ftp, IF allOk THEN "verified" ELSE "unverified")
    /\ NoFault
    /\ UNCHANGED <<body, changed, left, added, allOk>> /\ UNCHANGED writeUnchanged
-----------------------------------------------------------------------------
(* The read afterwards and the report. *)

Had(outcomes) == {i \in Items : results[i] \in outcomes}
Written == Had({"verified", "unverified"})

\* Plausible bug: only the writes that were accepted.
UndoSetWritten == {Category(i) : i \in Written}

\* undo_categories: every category with a write that was tried.
UndoSet == {Category(i) : i \in Had(Outcomes \ {"none", "not_attempted"})}

\* Plausible bug: every write that was accepted counts as verified.
StatusOfAccepted(differing, unread) ==
    IF Had({"indeterminate"}) # {} THEN "indeterminate"
    ELSE IF Had({"failed", "not_attempted"}) # {} THEN "failed"
    ELSE "verified"

\* status_of.
StatusOf(differing, unread) ==
    IF Had({"indeterminate"}) # {} THEN "indeterminate"
    ELSE IF Had({"failed", "not_attempted"}) # {} THEN "failed"
    ELSE IF Had({"unverified"}) = {} /\ differing = {} /\ ~unread THEN "verified"
    ELSE "unverified"

\* judge_after_write, for the items written.
Differing(after) == {i \in Written : ActionOf(after, i) \notin {"unchanged", "unreadable"}}
Uncheckable(after) == \E i \in Written : ActionOf(after, i) = "unreadable"

ReportWith(differing, unread) ==
    report' = Report(StatusOf(differing, unread), FALSE, UndoSet, differing)

AfterRead ==
    /\ pc = "writing" /\ AllPassed
    /\ \/ CannotRead /\ ReportWith({}, TRUE)
       \/ /\ ~poisoned
          /\ \E r \in Readings :
                /\ Reads(r)
                /\ LET after == PlanOf(job.source, r, job.only) IN
                   ReportWith(Differing(after), Uncheckable(after))
    /\ pc' = "idle"
    /\ UNCHANGED <<body, job, asked, live, at, left, added, allOk, results, point, before,
                   changed, edited, runs, edits>>

\* The process dies among its writes: its client is told so and knows the restore point.
Dies ==
    /\ pc = "writing"
    /\ Fault
    /\ report' = Report("died", FALSE, job.only, {})
    /\ pc' = "idle"
    /\ UNCHANGED <<body, job, asked, live, at, left, added, allOk, results, point, before,
                   changed, edited, runs, edits>>

\* A person changes the camera.
Edit ==
    /\ edits < MaxEdits /\ faults + edits < MaxTroubles
    /\ edits' = edits + 1 /\ edited' = TRUE
    /\ \/ \E i \in Simple \ Absent, v \in Values : body' = WithValue(i, v)
       \/ /\ Ftp \notin Absent
          /\ \/ \E p \in Profiles : Len(body.ftp) < Limit /\ body' = WithList(<<p>> \o body.ftp)
             \/ \E k \in DOMAIN body.ftp : body' = WithList(Without(body.ftp, k))
    /\ UNCHANGED <<poisoned, pc, job, asked, live, at, left, added, allOk, results, point, before,
                   report, changed, runs, faults>>

WriteItem ==
    \E i \in Simple : WriteRefused(i) \/ WriteDone(i) \/ WriteUnconfirmed(i) \/ WriteLost(i)
WriteList ==
    DeleteRefused \/ DeleteDone \/ DeleteLost \/ AddRefused \/ AddDone \/ AddLost \/ ListDone

Next ==
    \/ PlanRestore \/ PlanUndo \/ Apply \/ SaveFails \/ SavePoint
    \/ Pass \/ WriteItem \/ WriteList \/ AfterRead \/ Dies \/ Edit

Spec == Init /\ [][Next]_vars
-----------------------------------------------------------------------------
(* Properties. *)

PlanItems == [act : Actions, to : Values \cup {Lacks, Unread}, from : Values \cup {Lacks, Unread}]
Plans == [val : [Simple -> PlanItems],
          ftp : [act : Actions, to : Seq(Profiles), from : Seq(Profiles)]]

\* The type invariant.
TypeOK ==
    /\ body \in Body /\ before \in Body
    /\ poisoned \in BOOLEAN
    /\ pc \in {"idle", "asked", "saving", "writing"}
    /\ job \in [source : Reading, only : SUBSET Categories, undo : BOOLEAN, want : Body]
    /\ asked \in Plans
    /\ live \in Reading /\ point \in Reading
    /\ at \in 1..(Len(Order) + 2)
    /\ left \in Nat /\ added \in Nat /\ allOk \in BOOLEAN
    /\ results \in [Items -> Outcomes]
    /\ report \in [status : Statuses, no_op : BOOLEAN, undo : SUBSET Categories,
                   differing : SUBSET Items]
    /\ changed \in SUBSET Items
    /\ edited \in BOOLEAN
    /\ runs \in 0..MaxRuns /\ faults \in 0..MaxTroubles /\ edits \in 0..MaxEdits

\* The run replaces only what was shown: the item is a write of the confirmed plan, and unless
\* somebody changed the camera since it was read, the value that is lost is the one the plan named.
ReplacesConfirmed ==
    edits' = edits =>
        /\ \A i \in Simple : body'.val[i] # body.val[i] =>
              /\ asked.val[i].act = "write" /\ body'.val[i] = asked.val[i].to
              /\ edited \/ body.val[i] = asked.val[i].from
        /\ body'.ftp # body.ftp => asked.ftp.act = "write"

\* No run replaces anything but what the person who confirmed it was shown (the digest that
\* apply_extended_restore compares).
OnlyConfirmedIsReplaced == [][ReplacesConfirmed]_vars

\* Whatever a run changed, however it ended, the restore point on disk holds as it was, and the
\* report's undo_set names its category.
ChangesAreKept ==
    /\ \A i \in changed \cap Simple : ~edited => point.val[i] = before.val[i]
    /\ Ftp \in changed /\ ~edited =>
          point.ftp.state = "read" /\ point.ftp.whole /\ point.ftp.list = before.ftp
    /\ report.status # "none" => \A i \in changed : Category(i) \in report.undo

IsPrefixOf(l, m) == Len(l) <= Len(m) /\ l = SubSeq(m, 1, Len(l))
IsSuffixOf(l, m) == Len(l) <= Len(m) /\ l = SubSeq(m, Len(m) - Len(l) + 1, Len(m))

\* The rebuild never mixes the two lists: what the camera holds is a head of the old list or a
\* tail of the new one, at every step and after any failure.
ListsAreNotMixed ==
    Ftp \in changed /\ ~edited =>
        \/ IsPrefixOf(body.ftp, point.ftp.list)
        \/ IsSuffixOf(body.ftp, job.source.ftp.list)

\* A result that says nothing happened is true: an item that was not attempted was not touched; one
\* that failed was not either, but for a list that failed among its adds.
NothingChangedIsTrue ==
    \A i \in changed :
        /\ results[i] # "not_attempted"
        /\ results[i] = "failed" => i = Ftp /\ left = 0

\* The item is in the camera as the snapshot has it.
Held(i) == IF i = Ftp THEN body.ftp = job.source.ftp.list ELSE body.val[i] = job.source.val[i]

\* A verified run left every item it wrote, and every item it did not have to write, as the
\* snapshot has it; one that wrote nothing found so every selected item that both sides have.
VerifiedMeansHeld ==
    pc = "idle" /\ report.status = "verified" /\ ~edited =>
        \A i \in With(asked, {"write", "unchanged"} \cup (IF report.no_op THEN Blocked ELSE {})) :
            Held(i)

\* What a client is told is so, the outcome of every item while the run goes on and the status at its
\* end (item outcomes, status_of, zero_write_status).
ReportIsTrue == NothingChangedIsTrue /\ VerifiedMeansHeld

\* What the write path accepts.
Restorable(b) ==
    /\ \A i \in Simple : b.val[i] \notin Unsendable
    /\ \A k \in DOMAIN b.ftp : b.ftp[k] \notin Unsendable

\* An undo that is reported verified, and whose plan skipped no difference, has put the body
\* back, when nobody else touched it and everything on it can be written.
UndoPutsBack ==
    /\ pc = "idle" /\ job.undo /\ report.status = "verified" /\ edits = 0
    /\ Restorable(job.want) /\ With(asked, Blocked) = {}
    => body = job.want
=============================================================================
