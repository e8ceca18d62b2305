------------------------------ MODULE ApplyFlow ------------------------------
(***************************************************************************)
(* A write of settings to a camera body, from the plan to the undo:        *)
(* transplant_apply (src/ops/apply.rs) and restore_apply                   *)
(* (src/ops/restore_flow.rs), with what they are built from in             *)
(* src/transplant.rs, src/ops/restore.rs, src/ops/capture.rs,              *)
(* src/ops/baseline.rs and src/ops/readback.rs.                            *)
(*                                                                         *)
(* The body is the environment.  Its user turns a dial at any moment, a    *)
(* read may fail, a write may be ignored or fail after it landed, and a    *)
(* write may change other properties.  The program is one process, which   *)
(* may die between any two steps.  MaxFaults bounds the misbehaviour of    *)
(* the body and of its user in one behaviour, MaxRuns the number of runs.  *)
(***************************************************************************)
EXTENDS Naturals, Sequences, FiniteSets

CONSTANTS
    Props,        \* the properties of the body
    Order,        \* the properties in the order of their names
    Values,       \* the values a property can hold
    NoPosition,   \* the value of a stored range that has no usable position (a corrupt snapshot)
    Scales,       \* the scales of ranges and the option lists of enums
    Fixed,        \* the scale of a property that has none
    ScalesOf,     \* ScalesOf[p]: the scales, or option lists, p can be read with
    Position,     \* Position[s][v]: where option v is in option list s
    Kind,         \* Kind[p]: "label", "code" (the enums), "number", "text" or "range"
    OptedIn,      \* properties named by --allow-raw-code
    NeverCopied,  \* properties that are never written (code_policy)
    ReadOnly,     \* properties the body does not let one set
    Unwritable,   \* properties of a kind the SDK wrapper cannot write
    Volatile,     \* properties whose changes are expected (clocks, sensors)
    Required,     \* properties the model's baseline reads
    HasBaseline,  \* whether there is a baseline for the model
    AllowPartial, \* GatePolicy: whether an incomplete capture is accepted
    Dependents,   \* <<p, q>>: writing p may change q
    Kinds,        \* the runs that can be started: "transplant", "restore"
    Snapshots,    \* stored snapshots: functions from properties to entries
    MaxFaults, MaxRuns

Entry == [v : Values, s : Scales]

\* What property p can read as.  The body keeps the scale of a range and the option list of an
\* enum, and they depend on its state.
EntriesOf(p) == {e \in Entry : e.s \in ScalesOf[p]}

\* What a snapshot can hold.
Stored == [v : Values \cup {NoPosition}, s : Scales]
Snaps == UNION {[D -> Stored] : D \in SUBSET Props}

ASSUME OrderAssumption ==
    /\ IsFiniteSet(Props)
    /\ Order \in Seq(Props)
    /\ \A p \in Props : \E i \in 1..Len(Order) : Order[i] = p
ASSUME SnapshotAssumption == Snapshots \subseteq Snaps
ASSUME OptionsAssumption ==
    \A s \in Scales : \A v, w \in Values : Position[s][v] = Position[s][w] => v = w
ASSUME ConstantsAssumption ==
    /\ Fixed \in Scales
    /\ Kinds \subseteq {"transplant", "restore"}
    /\ HasBaseline \in BOOLEAN /\ AllowPartial \in BOOLEAN
    /\ MaxFaults \in Nat /\ MaxRuns \in Nat

NoRead == [unread |-> TRUE]
NoProps == [p \in {} |-> NoRead]

\* A job: what the client asked for.  A plan is made afresh, to undo the run before, or again
\* after it was applied; `only` selects the properties of a restore.
NoJob == [kind |-> "none", why |-> "none", source |-> NoProps, targeted |-> FALSE, only |-> {}]

\* The report of a run that wrote nothing.
Brief(st, no_op) == [status |-> st, no_op |-> no_op, complete |-> FALSE, written |-> {},
                     effects |-> {}, undo |-> {}, lost |-> {}]
NoReport == Brief("none", FALSE)

VARIABLES
    body,       \* body[p]: what the camera holds
    job,        \* the run: its kind, its source snapshot and its selection
    confirmed,  \* the plan the client was shown and echoes: per property, tag and changes
    phase,      \* where the run is
    result,     \* result[p]: how the real run ended for p, or "none"
    point,      \* the restore point file of this run, or NoProps
    report,     \* what the run reported
    sent,       \* properties a write was sent for in this run
    aim,        \* aim[p]: the scale or option list a transplant translated its write of p to
    origin,     \* the body when this run verified the plan
    undone,     \* the run that an undo undoes: its restore point, its report, its origin
    disturbed,  \* somebody else changed the body since the plan (of the run to undo) was verified
    faults,     \* misbehaviour so far
    runs        \* runs started so far

vars == <<body, job, confirmed, phase, result, point, report, sent, aim, origin, undone,
          disturbed, faults, runs>>

Nothing == [point |-> NoProps, report |-> NoReport, origin |-> NoProps]

Init ==
    /\ body \in {b \in [Props -> Entry] : \A p \in Props : b[p].s = Fixed}
    /\ job = NoJob
    /\ confirmed = NoProps
    /\ phase = "idle"
    /\ result = [p \in Props |-> "none"]
    /\ point = NoProps
    /\ report = NoReport
    /\ sent = {}
    /\ aim = [p \in Props |-> Fixed]
    /\ origin = NoProps
    /\ undone = Nothing
    /\ disturbed = FALSE
    /\ faults = 0
    /\ runs = 0

-----------------------------------------------------------------------------
(* Reading the body. *)

\* At most MaxFaults things go wrong.
Spend(n) == faults + n <= MaxFaults /\ faults' = faults + n

\* What read_capability returns for p when the reads of the properties in F fail.
Read(F, p) == IF p \in F THEN NoRead ELSE body[p]

\* took_effect: of an enum only the position in its option list is compared.
TookEffect(p, planned, got) ==
    IF Kind[p] \in {"label", "code"} THEN Position[planned.s][planned.v] = Position[got.s][got.v]
    ELSE planned.v = got.v

\* What a plan says of a write: a transplant has translated the value to the live option list, ...
WriteChanges(live, e) ==
    IF live = NoRead THEN "unknown" ELSE IF live.v = e.v THEN "no" ELSE "yes"

\* ... a restore holds the stored value against the live one.
ChangesFor(p, live, e) ==
    IF live = NoRead THEN "unknown" ELSE IF TookEffect(p, e, live) THEN "no" ELSE "yes"

Skip(tag) == [tag |-> tag, changes |-> "none"]
Write(changes) == [tag |-> "write", changes |-> changes]

\* The checks that need no read of the body.
Precheck(p) ==
    IF p \in NeverCopied THEN "never_copied" ELSE IF p \in ReadOnly THEN "read_only" ELSE "ok"

\* One property of a transplant between reading the body and writing it: a code or a number that
\* was not opted in is written only if that changes nothing.
TransplantOne(p, e, live) ==
    LET free == p \in OptedIn \/ WriteChanges(live, e) = "no" IN
    IF Precheck(p) # "ok" THEN Skip(Precheck(p))
    ELSE IF Kind[p] = "text" THEN Write("unknown")
    ELSE IF Kind[p] # "number" /\ live = NoRead THEN Skip("target_read_failed")
    ELSE IF Kind[p] = "range" /\ live.s # e.s THEN Skip("range_scale_differs")
    ELSE IF e.v = NoPosition THEN Skip("malformed_source")
    ELSE IF Kind[p] = "code" /\ ~free THEN Skip("raw_code_unconfirmed")
    ELSE IF Kind[p] = "number" /\ ~free THEN Skip("literal_unconfirmed")
    ELSE Write(WriteChanges(live, e))

\* One property of a restore: a range is read for its scale, every value for the plan.  A stored
\* range without a position is a failed write, though nothing is read or sent.
RestoreOne(p, e, scaleRead, live) ==
    IF Precheck(p) # "ok" THEN Skip(Precheck(p))
    ELSE IF e.v = NoPosition THEN Skip("write_failed")
    ELSE IF Kind[p] = "range" /\ scaleRead # NoRead /\ scaleRead.s # e.s
         THEN Skip("range_scale_differs")
    ELSE IF p \in Unwritable THEN Skip("unsupported_write_type")
    ELSE Write(ChangesFor(p, live, e))

Selected(j) == IF j.targeted THEN DOMAIN j.source \cap j.only ELSE DOMAIN j.source

\* The dry run of job j, when the (first, second) reads of F (G) fail.
DryRun(j, F, G) ==
    [p \in Selected(j) |->
        IF j.kind = "transplant" THEN TransplantOne(p, j.source[p], Read(F, p))
        ELSE RestoreOne(p, j.source[p], Read(F, p), Read(G, p))]

\* The reads a dry run makes; none is made for a property it cannot write, nor for a text to copy.
FirstReads(j) ==
    {p \in Selected(j) \ (NeverCopied \cup ReadOnly) :
        IF j.kind = "transplant" THEN Kind[p] # "text"
        ELSE Kind[p] = "range" /\ j.source[p].v # NoPosition}
SecondReads(j) ==
    IF j.kind = "transplant" THEN {}
    ELSE {p \in Selected(j) \ (NeverCopied \cup ReadOnly \cup Unwritable) :
             j.source[p].v # NoPosition}

ToWrite(plan) == {p \in DOMAIN plan : plan[p].tag = "write"}
WouldChange(plan) == {p \in ToWrite(plan) : plan[p].changes # "no"}

\* capture: every property whose read succeeds.
Capture(F) == [p \in Props \ F |-> body[p]]

\* The gate: read_ok = 0 is refused before it; a baseline must be covered.
Passes(snap) == HasBaseline /\ Required \subseteq DOMAIN snap

\* A read-back is compared if it passes, or if there is nothing to hold it to and that was waived.
Complete(snap) ==
    /\ snap # NoProps
    /\ Passes(snap) \/ (~HasBaseline /\ AllowPartial)

-----------------------------------------------------------------------------
(* The body and its user. *)

\* Somebody turns a dial, or the lens is changed and a range is read on another scale, or the mode
\* and an enum has another option list.
Drift(p) ==
    /\ phase # "idle"
    /\ Spend(1)
    /\ \E e \in EntriesOf(p) \ {body[p]} : body' = [body EXCEPT ![p] = e]
    /\ disturbed' = TRUE
    /\ UNCHANGED <<job, confirmed, phase, result, point, report, sent, aim, origin, undone, runs>>

\* The values a write of entry e to p can land as: a write sets a position, and on another scale or
\* in another option list the position means another value (or none).
LandsAs(p, e) ==
    IF Kind[p] \in {"label", "code"}
    THEN {v \in Values : Position[body[p].s][v] = Position[e.s][e.v]}
    ELSE IF body[p].s = e.s THEN {e.v} \cap Values ELSE Values

\* The body after a write of e to p that landed: a dependent property may have changed with it.
Landed(p, e) ==
    LET held == {[body EXCEPT ![p] = [v |-> v, s |-> @.s]] : v \in LandsAs(p, e)}
        Shifted(q) == UNION {{[b EXCEPT ![q] = x] : x \in EntriesOf(q)} : b \in held}
    IN held \cup UNION {Shifted(q) : q \in {x \in Props : <<p, x>> \in Dependents}}

\* write_capability(p, e): its result and the body after it.  A body may accept a write and
\* ignore it; a write that fails may have landed.
Outcomes(p, e) ==
    {[ok |-> TRUE, body |-> b, cost |-> 0] : b \in Landed(p, e)} \cup
    {[ok |-> TRUE, body |-> body, cost |-> 1]} \cup
    {[ok |-> FALSE, body |-> b, cost |-> 1] : b \in Landed(p, e) \cup {body}}

-----------------------------------------------------------------------------
(* A run. *)

StartRun(j) ==
    /\ runs < MaxRuns
    /\ runs' = runs + 1
    /\ job' = j
    /\ phase' = "planned"
    /\ \E F \in SUBSET FirstReads(j), G \in SUBSET SecondReads(j) :
          /\ Spend(Cardinality(F) + Cardinality(G))
          /\ confirmed' = DryRun(j, F, G)
    /\ result' = [p \in Props |-> "none"]
    /\ sent' = {}
    /\ aim' = [p \in Props |-> Fixed]
    /\ point' = NoProps
    /\ report' = NoReport
    /\ UNCHANGED <<body, origin, disturbed>>

\* A plan of a stored snapshot is made and shown (build_plan, build_restore_plan).
Plan(kind, snap, targeted, only) ==
    /\ phase \in {"idle", "done", "dead"}
    /\ targeted => kind = "restore" /\ only # {}
    /\ StartRun([kind |-> kind, why |-> "fresh", source |-> snap,
                 targeted |-> targeted, only |-> only])
    /\ undone' = Nothing

\* The undo of an apply: its restore point, restored for its undo_set.
PlanUndo ==
    /\ phase = "done"
    /\ job.why = "fresh" /\ report.undo # {}
    /\ StartRun([kind |-> "restore", why |-> "undo", source |-> point,
                 targeted |-> TRUE, only |-> report.undo])
    /\ undone' = [point |-> point, report |-> report, origin |-> origin]

\* The same request, planned again after it was applied and verified.
PlanAgain ==
    /\ phase = "done"
    /\ job.why = "fresh" /\ report.status = "verified"
    /\ StartRun([kind |-> job.kind, why |-> "again", source |-> job.source,
                 targeted |-> job.targeted, only |-> job.only])
    /\ undone' = Nothing

Refuse ==
    /\ phase' = "done"
    /\ report' = Brief("refused", FALSE)

\* The apply of a transplant with nothing to change: it failed if it was blocked by a skip.
TransplantNoOp(plan) ==
    IF ToWrite(plan) = {} /\ \E p \in DOMAIN plan : plan[p].tag # "read_only"
    THEN "failed" ELSE "verified"

\* The apply of a restore with nothing to change: a named property must be writable.
RestoreNoOp(plan) ==
    IF job.targeted /\ DOMAIN plan # ToWrite(plan) THEN "failed"
    ELSE IF \E p \in DOMAIN plan : plan[p].tag = "range_scale_differs" THEN "unverified"
    ELSE "verified"

\* The plan is recomputed on the live body and compared with the echoed one; without a change
\* nothing is touched.
Verify(now) ==
    /\ origin' = body
    /\ disturbed' = (disturbed /\ job.why # "fresh")
    /\ \/ /\ now # confirmed
          /\ Refuse
       \/ /\ now = confirmed /\ WouldChange(now) = {}
          /\ phase' = "done"
          /\ report' = Brief(IF job.kind = "transplant" THEN TransplantNoOp(now)
                             ELSE RestoreNoOp(now), TRUE)
       \/ /\ now = confirmed /\ WouldChange(now) # {}
          /\ phase' = "verified"
          /\ UNCHANGED report

Apply ==
    /\ phase = "planned"
    /\ \E F \in SUBSET FirstReads(job), G \in SUBSET SecondReads(job) :
          /\ Spend(Cardinality(F) + Cardinality(G))
          /\ Verify(DryRun(job, F, G))
    /\ UNCHANGED <<body, job, confirmed, result, point, sent, aim, undone, runs>>

\* Plausible bug: the gate's verdict on the restore point is not looked at.
SavePointUngated ==
    /\ phase = "verified"
    /\ \E F \in SUBSET Props :
          /\ Spend(Cardinality(F))
          /\ Capture(F) # NoProps
          /\ point' = Capture(F)
    /\ phase' = "writing"
    /\ UNCHANGED <<body, job, confirmed, result, report, sent, aim, origin, undone, disturbed, runs>>

\* The restore point is captured and stored (make_restore_point), ...
SavePoint ==
    /\ phase = "verified"
    /\ \E F \in SUBSET Props :
          /\ Spend(Cardinality(F))
          /\ Capture(F) # NoProps
          /\ Passes(Capture(F)) \/ AllowPartial
          /\ point' = Capture(F)
    /\ phase' = "writing"
    /\ UNCHANGED <<body, job, confirmed, result, report, sent, aim, origin, undone, disturbed, runs>>

\* ... or cannot be: the cap is reached, too little could be read, or the file not be created.
NoPoint ==
    /\ phase = "verified"
    /\ Refuse
    /\ UNCHANGED <<body, job, confirmed, result, point, sent, aim, origin, undone, disturbed, faults, runs>>

\* Plausible bug: the real run of a transplant goes through the whole snapshot.
ToDoAll == Selected(job)

\* The properties the real run goes through: a transplant only through the ones confirmed.
ToDo == IF job.kind = "transplant" THEN ToWrite(confirmed) ELSE Selected(job)

\* Property p is the next one, in the order of the names.
IsNext(p) ==
    /\ phase = "writing"
    /\ p \in ToDo /\ result[p] = "none"
    /\ \E i \in 1..Len(Order) :
          /\ Order[i] = p
          /\ \A j \in 1..(i - 1) : Order[j] \in ToDo => result[Order[j]] # "none"

\* Nothing is sent for p.
NotSent(p, r) ==
    /\ result' = [result EXCEPT ![p] = r]
    /\ UNCHANGED <<body, sent>>

\* The read-back of a range just written (verify_range_write).
Agrees(p, o, readFails) ==
    Kind[p] = "range" => ~readFails /\ o.body[p].v = job.source[p].v

\* The real run of a transplant, for one property: it is judged, and translated to the body's
\* option list, again on a fresh read.
TransplantWrite(p) ==
    /\ IsNext(p) /\ job.kind = "transplant"
    /\ \E F \in SUBSET (FirstReads(job) \cap {p}) :
          LET now     == TransplantOne(p, job.source[p], Read(F, p))
              planned == [v |-> job.source[p].v, s |-> body[p].s] IN
          \/ /\ now.tag # "write"
             /\ Spend(Cardinality(F))
             /\ NotSent(p, "not_performed") /\ UNCHANGED aim
          \/ /\ now.tag = "write" /\ p \in Unwritable
             /\ Spend(Cardinality(F))
             /\ NotSent(p, "rejected") /\ UNCHANGED aim
          \/ /\ now.tag = "write" /\ p \notin Unwritable
             /\ \E o \in Outcomes(p, planned), readFails \in {FALSE, Kind[p] = "range"} :
                   /\ Spend(Cardinality(F) + o.cost + (IF readFails THEN 1 ELSE 0))
                   /\ body' = o.body
                   /\ result' = [result EXCEPT ![p] =
                           IF o.ok /\ Agrees(p, o, readFails) THEN "written" ELSE "write_failed"]
             /\ sent' = sent \cup {p}
             /\ aim' = [aim EXCEPT ![p] = body[p].s]
    /\ UNCHANGED <<job, confirmed, phase, point, report, origin, undone, disturbed, runs>>

\* The real run of a restore, for one property: only a range is read again, for its scale.
RestoreWrite(p) ==
    /\ IsNext(p) /\ job.kind = "restore"
    /\ \E F \in SUBSET (FirstReads(job) \cap {p}) :
          LET now == RestoreOne(p, job.source[p], Read(F, p), NoRead) IN
          \/ /\ now.tag # "write"
             /\ Spend(Cardinality(F))
             /\ NotSent(p, CASE now.tag = "range_scale_differs" -> "scale"
                            [] now.tag = "unsupported_write_type" -> "rejected"
                            [] now.tag = "write_failed" -> "not_performed"
                            [] OTHER -> "skipped")
          \/ /\ now.tag = "write"
             /\ \E o \in Outcomes(p, job.source[p]) :
                   /\ Spend(Cardinality(F) + o.cost)
                   /\ body' = o.body
                   /\ result' = [result EXCEPT ![p] = IF o.ok THEN "written" ELSE "write_failed"]
             /\ sent' = sent \cup {p}
    /\ UNCHANGED <<job, confirmed, phase, point, report, aim, origin, undone, disturbed, runs>>

-----------------------------------------------------------------------------
(* The read-back and the report. *)

With(r) == {p \in Props : result[p] = r}
Written == With("written")

\* What may have been changed by a write: for a restore also a write that failed unsent.
Touched ==
    Written \cup With("write_failed")
    \cup (IF job.kind = "restore" THEN With("not_performed") ELSE {})

\* side_effects: what changed, vanished or appeared without being written.
Differs(before, after, p) ==
    \/ (p \in DOMAIN before) # (p \in DOMAIN after)
    \/ p \in DOMAIN before /\ p \in DOMAIN after /\ before[p] # after[p]
SideEffects(after) ==
    {p \in Props \ (Written \cup Volatile \cup NeverCopied) : Differs(point, after, p)}

\* undo_set: whether a restore of the restore point would write p back.
Restorable(p, complete, after) ==
    /\ p \in DOMAIN point
    /\ p \notin NeverCopied \cup ReadOnly
    /\ ~(complete /\ Kind[p] = "range" /\ p \in DOMAIN after /\ after[p].s # point[p].s)

\* Plausible bug: a write that failed is taken not to have landed.
ReportForgetsFailed(st, complete, after) ==
    LET effects == IF complete THEN SideEffects(after) ELSE {}
        touched == Written \cup effects
        undo    == {p \in touched : Restorable(p, complete, after)}
    IN [status |-> st, no_op |-> FALSE, complete |-> complete, written |-> Written,
        effects |-> effects, undo |-> undo, lost |-> touched \ undo]

\* The report of a run with status st, whose read-back `after` was complete or not.
Report(st, complete, after) ==
    LET effects == IF complete THEN SideEffects(after) ELSE {}
        touched == Touched \cup effects
        undo    == {p \in touched : Restorable(p, complete, after)}
    IN [status |-> st, no_op |-> FALSE, complete |-> complete, written |-> Written,
        effects |-> effects, undo |-> undo, lost |-> touched \ undo]

\* Plausible bug: the writes' own success is believed, the read-back is not compared.
TransplantStatusTrusts(complete, after) ==
    IF \/ With("write_failed") \cup With("not_performed") # {}
       \/ Written = {} /\ With("rejected") # {}
    THEN "failed"
    ELSE IF ~complete \/ With("rejected") # {} THEN "unverified"
    ELSE "verified"

\* What was written for p: the source's value, by a transplant in the body's terms.
Planned(p) ==
    IF job.kind = "transplant" THEN [v |-> job.source[p].v, s |-> aim[p]] ELSE job.source[p]

\* The status of a transplant: every confirmed property must read back as planned.
TransplantStatus(complete, after) ==
    IF \/ With("write_failed") \cup With("not_performed") # {}
       \/ Written = {} /\ With("rejected") # {}
    THEN "failed"
    ELSE IF \/ ~complete \/ With("rejected") # {}
            \/ \E p \in Written : p \notin DOMAIN after \/ ~TookEffect(p, Planned(p), after[p])
    THEN "unverified"
    ELSE "verified"

\* Plausible bug: a write that succeeded counts as verified.
VerdictTrusts(complete, after) ==
    IF Written = {} THEN "nothing_written"
    ELSE IF ~complete THEN "readback_incomplete"
    ELSE "verified"

\* The verdict of verify_with on what a restore wrote.
Verdict(complete, after) ==
    LET judged == Written \ (Volatile \cup NeverCopied) IN
    IF Written = {} THEN "nothing_written"
    ELSE IF ~complete THEN "readback_incomplete"
    ELSE IF \E p \in judged : p \notin DOMAIN after \/ after[p] # job.source[p]
    THEN "residual_found"
    ELSE IF judged = {} THEN "unjudged"
    ELSE "verified"

\* The status of a restore; a targeted one must have written everything it was told to.
RestoreStatus(complete, after) ==
    IF \/ With("write_failed") \cup With("not_performed") # {}
       \/ job.targeted /\ Selected(job) # Written
       \/ Written = {} /\ With("rejected") # {}
    THEN "failed"
    ELSE IF With("scale") # {} THEN "unverified"
    ELSE IF Verdict(complete, after) \in {"verified", "nothing_written"} THEN "verified"
    ELSE "unverified"

\* The body is read back and the run reports.
ReadBack ==
    /\ phase = "writing"
    /\ \A p \in ToDo : result[p] # "none"
    /\ \E F \in SUBSET Props :
          LET after == Capture(F) IN
          /\ Spend(Cardinality(F))
          /\ \/ /\ job.kind = "transplant"
                /\ report' = Report(TransplantStatus(Complete(after), after), Complete(after), after)
             \/ /\ job.kind = "restore"
                /\ LET complete == Written # {} /\ Complete(after) IN
                   report' = Report(RestoreStatus(complete, after), complete, after)
    /\ phase' = "done"
    /\ UNCHANGED <<body, job, confirmed, result, point, sent, aim, origin, undone, disturbed, runs>>

\* The process is killed, or dies.
Dies ==
    /\ phase \in {"verified", "writing"}
    /\ phase' = "dead"
    /\ UNCHANGED <<body, job, confirmed, result, point, report, sent, aim, origin, undone, disturbed,
                   faults, runs>>

-----------------------------------------------------------------------------
Next ==
    \/ \E kind \in Kinds, snap \in Snapshots :
          \/ Plan(kind, snap, FALSE, {})
          \/ \E only \in SUBSET DOMAIN snap : Plan(kind, snap, TRUE, only)
    \/ PlanUndo \/ PlanAgain
    \/ Apply \/ SavePoint \/ NoPoint
    \/ \E p \in Props : TransplantWrite(p) \/ RestoreWrite(p) \/ Drift(p)
    \/ ReadBack
    \/ Dies

Spec == Init /\ [][Next]_vars

-----------------------------------------------------------------------------
(* Properties. *)

Tags == {"write", "never_copied", "read_only", "target_read_failed", "range_scale_differs",
         "malformed_source", "raw_code_unconfirmed", "literal_unconfirmed", "write_failed",
         "unsupported_write_type"}
Reports == [status : {"none", "refused", "failed", "unverified", "verified"},
            no_op : BOOLEAN, complete : BOOLEAN, written : SUBSET Props,
            effects : SUBSET Props, undo : SUBSET Props, lost : SUBSET Props]

TypeOK ==
    /\ body \in [Props -> Entry]
    /\ job \in [kind : {"none", "transplant", "restore"}, why : {"none", "fresh", "undo", "again"},
                source : Snaps, targeted : BOOLEAN, only : SUBSET Props]
    /\ DOMAIN confirmed \subseteq Props
    /\ \A p \in DOMAIN confirmed :
          confirmed[p] \in [tag : Tags, changes : {"none", "no", "yes", "unknown"}]
    /\ phase \in {"idle", "planned", "verified", "writing", "done", "dead"}
    /\ result \in [Props -> {"none", "written", "write_failed", "rejected", "not_performed",
                             "scale", "skipped"}]
    /\ point \in Snaps
    /\ report \in Reports
    /\ sent \subseteq Props
    /\ aim \in [Props -> Scales]
    /\ origin \in Snaps
    /\ undone \in [point : Snaps, report : Reports, origin : Snaps]
    /\ disturbed \in BOOLEAN
    /\ faults \in 0..MaxFaults
    /\ runs \in 0..MaxRuns

\* Whenever a write was sent (the run may since have died), a restore point is stored; it covers
\* the baseline unless that was waived, and, unless somebody else changed the body, holds the
\* values from before the first write (apply.rs, make_restore_point before `writing`).
RestorePointFirst ==
    sent # {} =>
        /\ point # NoProps
        /\ HasBaseline /\ ~AllowPartial => Required \subseteq DOMAIN point
        /\ ~disturbed => \A p \in DOMAIN point : point[p] = origin[p]

\* A transplant writes no property that the confirmed plan skipped, whatever the body answers
\* the second time (apply.rs, the names confirmed).
OnlyConfirmedIsSent ==
    job.kind = "transplant" => sent \subseteq ToWrite(confirmed)

\* A run that reports applied_verified is right: with nobody else at the body it holds the
\* source's value for every property the confirmed plan was to write (a restore does not judge
\* the volatile ones), whatever ignored, failed or dependent writes there were.  The value of an
\* enum is a position in an option list: if the body has changed the list since the value was
\* stored or planned, it is the position that holds (took_effect).
VerifiedMeansHeld ==
    phase = "done" /\ report.status = "verified" /\ ~disturbed =>
        \A p \in ToWrite(confirmed) \ (IF job.kind = "restore" THEN Volatile ELSE {}) :
            body[p].v = job.source[p].v \/ TookEffect(p, Planned(p), body[p])

\* What a run changed is accounted for (restore.rs, undo_set): every property a write was sent
\* for is offered for the undo or named as lost; so is, with a complete read-back and nobody
\* else at the body, every property that is not what its restore point holds.
ChangesAreAccounted ==
    phase = "done" /\ report.status \in {"failed", "unverified", "verified"} =>
        /\ sent \subseteq report.undo \cup report.lost
        /\ report.complete /\ ~disturbed =>
              \A p \in DOMAIN point \ (Volatile \cup NeverCopied) :
                  body[p] # origin[p] => p \in report.undo \cup report.lost

\* A verified undo of a run with a complete read-back leaves the body, with nobody else at it, as
\* it was before that run (an enum whose option list the body has changed: at the position it was
\* at), except for what that run named as lost and what the undo itself reports as its side effects
\* (or could not read before it wrote).
UndoPutsBack ==
    /\ phase = "done" /\ job.why = "undo" /\ report.status = "verified"
    /\ undone.report.complete /\ ~disturbed
    => \A p \in DOMAIN undone.point \ (Volatile \cup NeverCopied) :
           \/ body[p].v = undone.origin[p].v \/ TookEffect(p, undone.origin[p], body[p])
           \/ p \in undone.report.lost \cup report.effects
           \/ ~report.no_op /\ p \notin DOMAIN point
=============================================================================
