--------------------------- MODULE ApplyFlow_proof ---------------------------
(***************************************************************************)
(* Proofs about ApplyFlow, for any set of properties, any snapshots and    *)
(* any number of runs and of things that go wrong.  IInv is inductive, and *)
(* gives all but the last theorem; UndoInv, inductive beside it, gives the *)
(* last, about two runs: one and its undo.                                 *)
(***************************************************************************)
EXTENDS ApplyFlow, TLAPS, FiniteSetTheorems

Jobs == [kind : {"transplant", "restore"}, why : {"fresh", "undo", "again"},
         source : Snaps, targeted : BOOLEAN, only : SUBSET Props]

\* What ties the confirmed plan, the results and the run together.
Linked ==
    /\ phase # "idle" => job \in Jobs /\ DOMAIN confirmed = Selected(job)
    /\ phase = "idle" => confirmed = NoProps /\ report = NoReport
    /\ \A p \in ToWrite(confirmed) :
          Precheck(p) = "ok" /\ (job.kind = "restore" => p \notin Unwritable)
    /\ phase \in {"planned", "verified"} => \A p \in Props : result[p] = "none"
    /\ \A p \in Props :
          /\ result[p] = "skipped" => Precheck(p) # "ok"
          /\ result[p] = "rejected" => p \in Unwritable
          /\ result[p] \in {"skipped", "scale"} => job.kind = "restore"

\* What is known of the restore point once a write may have been sent.
PointHolds ==
    /\ point # NoProps
    /\ HasBaseline /\ ~AllowPartial => Required \subseteq DOMAIN point
    /\ ~disturbed => \A p \in DOMAIN point : point[p] = origin[p]

Guarded ==
    /\ phase \in {"idle", "planned", "verified"} => sent = {}
    /\ phase = "verified" /\ ~disturbed => origin = body
    /\ phase = "writing" \/ sent # {} => PointHolds
    /\ sent = Written \cup With("write_failed")

-----------------------------------------------------------------------------
(* The operators. *)

\* Sets of properties are finite.
LEMMA Counted ==
    ASSUME NEW F \in SUBSET Props
    PROVE  Cardinality(F) \in Nat
BY OrderAssumption, FS_Subset, FS_CardinalityType DEF OrderAssumption

\* Spending keeps the budget.
LEMMA Spent ==
    ASSUME faults \in 0..MaxFaults, NEW n \in Nat, Spend(n)
    PROVE  faults' \in 0..MaxFaults
BY ConstantsAssumption DEF Spend, ConstantsAssumption

\* A snapshot maps the properties it holds to entries.
LEMMA SnapIs ==
    ASSUME NEW f
    PROVE  f \in Snaps <=> \E D \in SUBSET Props : f \in [D -> Stored]
BY DEF Snaps

LEMMA SnapFacts ==
    ASSUME NEW f \in Snaps
    PROVE  /\ DOMAIN f \subseteq Props
           /\ \A p \in DOMAIN f : f[p] \in Stored
BY SnapIs

LEMMA EmptySnap == NoProps \in Snaps
<1>1. NoProps \in [{} -> Stored]
  BY DEF NoProps
<1> QED
  BY <1>1, SnapIs

LEMMA CaptureIsSnap ==
    ASSUME body \in [Props -> Entry], NEW F
    PROVE  /\ Capture(F) \in Snaps
           /\ DOMAIN Capture(F) = Props \ F
           /\ \A p \in DOMAIN Capture(F) : Capture(F)[p] = body[p]
<1>1. Capture(F) \in [Props \ F -> Stored]
  BY DEF Capture, Entry, Stored
<1> QED
  BY <1>1, SnapIs DEF Capture

\* What a dry run says of one property of a transplant, ...
LEMMA TransplantOneFacts ==
    ASSUME NEW p \in Props, NEW e, NEW live
    PROVE  LET o == TransplantOne(p, e, live) IN
           /\ o \in [tag : Tags, changes : {"none", "no", "yes", "unknown"}]
           /\ o.tag = "write" => Precheck(p) = "ok"
           /\ o.changes = "no" => live # NoRead /\ live.v = e.v
           /\ o.tag = "write" => o.changes \in {"no", "yes", "unknown"}
<1>1. WriteChanges(live, e) \in {"no", "yes", "unknown"}
      /\ (WriteChanges(live, e) = "no" => live # NoRead /\ live.v = e.v)
  BY DEF WriteChanges
<1>2. Precheck(p) \in {"ok", "never_copied", "read_only"}
  BY DEF Precheck
<1> QED
  BY <1>1, <1>2 DEF TransplantOne, Skip, Write, Tags

\* ... and of one property of a restore.
LEMMA RestoreOneFacts ==
    ASSUME NEW p \in Props, NEW e, NEW scaleRead, NEW live
    PROVE  LET o == RestoreOne(p, e, scaleRead, live) IN
           /\ o \in [tag : Tags, changes : {"none", "no", "yes", "unknown"}]
           /\ o.tag = "write" => Precheck(p) = "ok" /\ p \notin Unwritable
           /\ o.changes = "no" => live # NoRead /\ TookEffect(p, e, live)
           /\ o.tag = "write" => o.changes \in {"no", "yes", "unknown"}
           /\ o.tag \notin {"write", "range_scale_differs", "unsupported_write_type", "write_failed"}
              => Precheck(p) # "ok"
           /\ o.tag = "unsupported_write_type" => p \in Unwritable
<1>1. ChangesFor(p, live, e) \in {"no", "yes", "unknown"}
      /\ (ChangesFor(p, live, e) = "no" => live # NoRead /\ TookEffect(p, e, live))
  BY DEF ChangesFor
<1>2. Precheck(p) \in {"ok", "never_copied", "read_only"}
  BY DEF Precheck
<1> QED
  BY <1>1, <1>2 DEF RestoreOne, Skip, Write, Tags

\* A dry run judges every selected property; one it would write passed the checks, and one it
\* says is unchanged is unchanged: the value, or for a restore what took_effect compares.
LEMMA DryRunFacts ==
    ASSUME NEW j \in Jobs, NEW F, NEW G
    PROVE  LET plan == DryRun(j, F, G) IN
           /\ DOMAIN plan = Selected(j)
           /\ Selected(j) \subseteq DOMAIN j.source
           /\ Selected(j) \subseteq Props
           /\ \A p \in DOMAIN plan :
                 plan[p] \in [tag : Tags, changes : {"none", "no", "yes", "unknown"}]
           /\ \A p \in ToWrite(plan) :
                 Precheck(p) = "ok" /\ (j.kind = "restore" => p \notin Unwritable)
           /\ \A p \in ToWrite(plan) \ WouldChange(plan) :
                 \/ body[p].v = j.source[p].v
                 \/ j.kind = "restore" /\ TookEffect(p, j.source[p], body[p])
<1> DEFINE plan == DryRun(j, F, G)
<1>1. /\ DOMAIN plan = Selected(j)
      /\ Selected(j) \subseteq DOMAIN j.source
      /\ Selected(j) \subseteq Props
  BY SnapFacts DEF DryRun, Selected, Jobs
<1>2. ASSUME NEW p \in DOMAIN plan
      PROVE  plan[p] = IF j.kind = "transplant" THEN TransplantOne(p, j.source[p], Read(F, p))
                       ELSE RestoreOne(p, j.source[p], Read(F, p), Read(G, p))
  BY <1>1 DEF DryRun
<1>3. ASSUME NEW p \in DOMAIN plan
      PROVE  /\ plan[p] \in [tag : Tags, changes : {"none", "no", "yes", "unknown"}]
             /\ plan[p].tag = "write" =>
                   Precheck(p) = "ok" /\ (j.kind = "restore" => p \notin Unwritable)
             /\ plan[p].changes = "no" =>
                   \/ body[p].v = j.source[p].v
                   \/ j.kind = "restore" /\ TookEffect(p, j.source[p], body[p])
  <2>0. p \in Props
    BY <1>1
  <2>1. \A S : Read(S, p) # NoRead => Read(S, p) = body[p]
    BY DEF Read
  <2>2. CASE j.kind = "transplant"
    BY <2>0, <2>1, <2>2, <1>2, TransplantOneFacts
  <2>3. CASE j.kind = "restore"
    BY <2>0, <2>1, <2>3, <1>2, RestoreOneFacts
  <2> QED
    BY <2>2, <2>3 DEF Jobs
<1> QED
  BY <1>1, <1>3 DEF ToWrite, WouldChange

\* Landing a write leaves a body of the right type.
LEMMA OutcomeFacts ==
    ASSUME body \in [Props -> Entry], NEW p \in Props, NEW e,
           NEW o \in Outcomes(p, e)
    PROVE  o.body \in [Props -> Entry] /\ o.ok \in BOOLEAN /\ o.cost \in Nat
<1>1. LandsAs(p, e) \subseteq Values
  BY DEF LandsAs
<1>2. ASSUME NEW v \in Values
      PROVE  [body EXCEPT ![p] = [v |-> v, s |-> @.s]] \in [Props -> Entry]
  BY DEF Entry
<1>3. ASSUME NEW b \in [Props -> Entry], NEW q \in Props, NEW x \in EntriesOf(q)
      PROVE  [b EXCEPT ![q] = x] \in [Props -> Entry]
  BY DEF EntriesOf
<1>4. Landed(p, e) \subseteq [Props -> Entry]
  <2> DEFINE held == {[body EXCEPT ![p] = [v |-> v, s |-> @.s]] : v \in LandsAs(p, e)}
             Shifted(q) == UNION {{[b EXCEPT ![q] = x] : x \in EntriesOf(q)} : b \in held}
             dependent == {x \in Props : <<p, x>> \in Dependents}
  <2>1. held \subseteq [Props -> Entry]
    BY <1>1, <1>2
  <2>2. ASSUME NEW q \in Props
        PROVE  Shifted(q) \subseteq [Props -> Entry]
    BY <2>1, <1>3
  <2>3. Landed(p, e) = held \cup UNION {Shifted(q) : q \in dependent}
    BY DEF Landed
  <2> HIDE DEF held, Shifted
  <2> QED
    BY <2>1, <2>2, <2>3
<1>5. CASE \E b \in Landed(p, e) : o = [ok |-> TRUE, body |-> b, cost |-> 0]
  BY <1>4, <1>5
<1>6. CASE o = [ok |-> TRUE, body |-> body, cost |-> 1]
  BY <1>6
<1>7. CASE \E b \in Landed(p, e) \cup {body} : o = [ok |-> FALSE, body |-> b, cost |-> 1]
  BY <1>4, <1>7
<1> QED
  BY <1>5, <1>6, <1>7 DEF Outcomes

\* Starting a run leaves nothing of the one before but the body.
LEMMA StartRunFacts ==
    ASSUME TypeOK, NEW j \in Jobs, StartRun(j)
    PROVE  /\ job' = j /\ phase' = "planned" /\ body' = body
           /\ DOMAIN confirmed' = Selected(j)
           /\ DOMAIN confirmed' \subseteq Props
           /\ \A p \in DOMAIN confirmed' :
                 confirmed'[p] \in [tag : Tags, changes : {"none", "no", "yes", "unknown"}]
           /\ \A p \in ToWrite(confirmed') :
                 Precheck(p) = "ok" /\ (j.kind = "restore" => p \notin Unwritable)
           /\ result' = [p \in Props |-> "none"] /\ sent' = {}
           /\ point' = NoProps /\ report' = NoReport /\ aim' = [p \in Props |-> Fixed]
           /\ faults' \in 0..MaxFaults /\ runs' \in 0..MaxRuns
           /\ origin' = origin /\ disturbed' = disturbed
<1>1. PICK F \in SUBSET FirstReads(j), G \in SUBSET SecondReads(j) :
         Spend(Cardinality(F) + Cardinality(G)) /\ confirmed' = DryRun(j, F, G)
  BY DEF StartRun
<1>2. FirstReads(j) \subseteq Props /\ SecondReads(j) \subseteq Props
  BY SnapFacts DEF FirstReads, SecondReads, Selected, Jobs
<1>3. Cardinality(F) + Cardinality(G) \in Nat
  BY <1>2, Counted
<1>4. faults' \in 0..MaxFaults
  BY <1>1, <1>3, Spent DEF TypeOK
<1>5. runs' \in 0..MaxRuns
  BY ConstantsAssumption DEF StartRun, TypeOK, ConstantsAssumption
<1> QED
  BY <1>1, <1>4, <1>5, DryRunFacts DEF StartRun

\* The jobs of the three ways to start a run.
LEMMA Starts ==
    ASSUME TypeOK, Linked,
           \/ \E kind \in Kinds, snap \in Snapshots :
                 \/ Plan(kind, snap, FALSE, {})
                 \/ \E only \in SUBSET DOMAIN snap : Plan(kind, snap, TRUE, only)
           \/ PlanUndo
           \/ PlanAgain
    PROVE  /\ \E j \in Jobs : StartRun(j)
           /\ undone' \in [point : Snaps, report : Reports, origin : Snaps]
<1>0. Nothing \in [point : Snaps, report : Reports, origin : Snaps]
  BY EmptySnap DEF Nothing, NoReport, Brief, Reports
<1>1. ASSUME NEW kind \in Kinds, NEW snap \in Snapshots, NEW targeted \in BOOLEAN,
             NEW only \in SUBSET Props, Plan(kind, snap, targeted, only)
      PROVE  \E j \in Jobs : StartRun(j)
  <2> DEFINE j == [kind |-> kind, why |-> "fresh", source |-> snap,
                   targeted |-> targeted, only |-> only]
  <2>1. j \in Jobs
    BY SnapshotAssumption, ConstantsAssumption
       DEF Jobs, SnapshotAssumption, ConstantsAssumption
  <2>2. StartRun(j)
    BY <1>1 DEF Plan
  <2> QED
    BY <2>1, <2>2
<1>2. CASE \E kind \in Kinds, snap \in Snapshots : Plan(kind, snap, FALSE, {})
  BY <1>0, <1>1, <1>2 DEF Plan
<1>3. CASE \E kind \in Kinds, snap \in Snapshots :
              \E only \in SUBSET DOMAIN snap : Plan(kind, snap, TRUE, only)
  <2>1. \A snap \in Snapshots : DOMAIN snap \subseteq Props
    BY SnapshotAssumption, SnapFacts DEF SnapshotAssumption
  <2> QED
    BY <1>0, <1>1, <1>3, <2>1 DEF Plan
<1>4. CASE PlanUndo
  <2> DEFINE j == [kind |-> "restore", why |-> "undo", source |-> point,
                   targeted |-> TRUE, only |-> report.undo]
  <2>1. j \in Jobs
    BY DEF Jobs, TypeOK, Reports
  <2>2. StartRun(j) /\ undone' = [point |-> point, report |-> report, origin |-> origin]
    BY <1>4 DEF PlanUndo
  <2> QED
    BY <2>1, <2>2 DEF TypeOK
<1>5. CASE PlanAgain
  <2> DEFINE j == [kind |-> job.kind, why |-> "again", source |-> job.source,
                   targeted |-> job.targeted, only |-> job.only]
  <2>1. j \in Jobs
    BY <1>5 DEF Jobs, TypeOK, Linked, PlanAgain
  <2>2. StartRun(j) /\ undone' = Nothing
    BY <1>5 DEF PlanAgain
  <2> QED
    BY <1>0, <2>1, <2>2
<1> QED
  BY <1>2, <1>3, <1>4, <1>5

\* The property a write is for is in the source and of the right type.
LEMMA NextFacts ==
    ASSUME TypeOK, Linked, NEW p \in Props, IsNext(p)
    PROVE  /\ p \in DOMAIN job.source /\ job.source[p] \in Stored
           /\ job.kind = "transplant" => p \in ToWrite(confirmed)
<1>1. p \in Selected(job)
  BY DEF IsNext, ToDo, ToWrite, Linked
<1>2. job.source \in Snaps
  BY DEF TypeOK
<1> QED
  BY <1>1, <1>2, SnapFacts DEF Selected, IsNext, ToDo

\* One property of the real run: what it leaves, whichever of the two runs it is.
LEMMA WriteFacts ==
    ASSUME TypeOK, Linked, NEW p \in Props, TransplantWrite(p) \/ RestoreWrite(p)
    PROVE  /\ body' \in [Props -> Entry] /\ faults' \in 0..MaxFaults /\ aim' \in [Props -> Scales]
           /\ phase = "writing" /\ p \in ToDo /\ result[p] = "none"
           /\ UNCHANGED <<job, confirmed, phase, point, report, origin, undone, disturbed, runs>>
           /\ \E r \in {"written", "write_failed", "rejected", "not_performed", "scale", "skipped"} :
                 /\ result' = [result EXCEPT ![p] = r]
                 /\ \/ r \in {"written", "write_failed"} /\ sent' = sent \cup {p}
                    \/ r \notin {"written", "write_failed"} /\ sent' = sent /\ body' = body
                 /\ r = "skipped" => Precheck(p) # "ok"
                 /\ r = "rejected" => p \in Unwritable
                 /\ r \in {"skipped", "scale"} => job.kind = "restore"
<1>0. IsNext(p) /\ phase = "writing" /\ p \in ToDo /\ result[p] = "none"
  BY DEF TransplantWrite, RestoreWrite, IsNext
<1>2. body \in [Props -> Entry] /\ faults \in 0..MaxFaults
  BY DEF TypeOK
<1>a. aim' \in [Props -> Scales]
  <2>1. body[p].s \in Scales /\ aim \in [Props -> Scales]
    BY <1>2 DEF TypeOK, Entry
  <2>2. aim' = aim \/ aim' = [aim EXCEPT ![p] = body[p].s]
    BY DEF TransplantWrite, RestoreWrite
  <2> QED
    BY <2>1, <2>2
<1>3. ASSUME NEW F \in SUBSET (FirstReads(job) \cap {p})
      PROVE  Cardinality(F) \in Nat
  BY Counted
<1>4. CASE TransplantWrite(p)
  <2> DEFINE planned == [v |-> job.source[p].v, s |-> body[p].s]
  <2>1. PICK F \in SUBSET (FirstReads(job) \cap {p}) :
           LET now == TransplantOne(p, job.source[p], Read(F, p)) IN
           \/ /\ now.tag # "write"
              /\ Spend(Cardinality(F))
              /\ NotSent(p, "not_performed")
           \/ /\ now.tag = "write" /\ p \in Unwritable
              /\ Spend(Cardinality(F))
              /\ NotSent(p, "rejected")
           \/ /\ now.tag = "write" /\ p \notin Unwritable
              /\ \E o \in Outcomes(p, planned), readFails \in {FALSE, Kind[p] = "range"} :
                    /\ Spend(Cardinality(F) + o.cost + (IF readFails THEN 1 ELSE 0))
                    /\ body' = o.body
                    /\ result' = [result EXCEPT ![p] =
                            IF o.ok /\ Agrees(p, o, readFails) THEN "written" ELSE "write_failed"]
              /\ sent' = sent \cup {p}
    BY <1>4 DEF TransplantWrite
  <2>2. /\ job.kind = "transplant"
        /\ UNCHANGED <<job, confirmed, phase, point, report, origin, undone, disturbed, runs>>
    BY <1>4 DEF TransplantWrite
  <2>3. CASE NotSent(p, "not_performed") /\ Spend(Cardinality(F))
    BY <1>0, <1>2, <1>3, <1>a, <2>2, <2>3, Spent DEF NotSent
  <2>4. CASE NotSent(p, "rejected") /\ Spend(Cardinality(F)) /\ p \in Unwritable
    BY <1>0, <1>2, <1>3, <1>a, <2>2, <2>4, Spent DEF NotSent
  <2> HIDE DEF planned
  <2>5. ASSUME NEW o \in Outcomes(p, planned), NEW readFails \in BOOLEAN,
               Spend(Cardinality(F) + o.cost + (IF readFails THEN 1 ELSE 0)),
               body' = o.body,
               result' = [result EXCEPT ![p] =
                   IF o.ok /\ Agrees(p, o, readFails) THEN "written" ELSE "write_failed"],
               sent' = sent \cup {p}
        PROVE  /\ body' \in [Props -> Entry] /\ faults' \in 0..MaxFaults
               /\ \E r \in {"written", "write_failed"} :
                     result' = [result EXCEPT ![p] = r] /\ sent' = sent \cup {p}
    <3>1. o.body \in [Props -> Entry] /\ o.cost \in Nat
      BY <1>2, OutcomeFacts
    <3>2. Cardinality(F) + o.cost + (IF readFails THEN 1 ELSE 0) \in Nat
      BY <1>3, <3>1
    <3> QED
      BY <1>2, <2>5, <3>1, <3>2, Spent
  <2> QED
    BY <1>0, <1>a, <2>1, <2>2, <2>3, <2>4, <2>5
<1>5. CASE RestoreWrite(p)
  <2> DEFINE now(F) == RestoreOne(p, job.source[p], Read(F, p), NoRead)
  <2>1. PICK F \in SUBSET (FirstReads(job) \cap {p}) :
           \/ /\ now(F).tag # "write"
              /\ Spend(Cardinality(F))
              /\ NotSent(p, CASE now(F).tag = "range_scale_differs" -> "scale"
                             [] now(F).tag = "unsupported_write_type" -> "rejected"
                             [] now(F).tag = "write_failed" -> "not_performed"
                             [] OTHER -> "skipped")
           \/ /\ now(F).tag = "write"
              /\ \E o \in Outcomes(p, job.source[p]) :
                    /\ Spend(Cardinality(F) + o.cost)
                    /\ body' = o.body
                    /\ result' = [result EXCEPT ![p] = IF o.ok THEN "written" ELSE "write_failed"]
              /\ sent' = sent \cup {p}
    BY <1>5 DEF RestoreWrite
  <2>2. /\ job.kind = "restore"
        /\ UNCHANGED <<job, confirmed, phase, point, report, origin, undone, disturbed, runs>>
    BY <1>5 DEF RestoreWrite
  <2>3. /\ now(F).tag = "unsupported_write_type" => p \in Unwritable
        /\ now(F).tag \notin {"write", "range_scale_differs", "unsupported_write_type", "write_failed"}
           => Precheck(p) # "ok"
    BY RestoreOneFacts
  <2> HIDE DEF now
  <2>4. ASSUME now(F).tag # "write", Spend(Cardinality(F)),
               NotSent(p, CASE now(F).tag = "range_scale_differs" -> "scale"
                            [] now(F).tag = "unsupported_write_type" -> "rejected"
                            [] now(F).tag = "write_failed" -> "not_performed"
                            [] OTHER -> "skipped")
        PROVE  /\ faults' \in 0..MaxFaults /\ body' = body /\ sent' = sent
               /\ \E r \in {"scale", "rejected", "not_performed", "skipped"} :
                     /\ result' = [result EXCEPT ![p] = r]
                     /\ r = "skipped" => Precheck(p) # "ok"
                     /\ r = "rejected" => p \in Unwritable
    BY <1>2, <1>3, <2>3, <2>4, Spent DEF NotSent
  <2>5. ASSUME NEW o \in Outcomes(p, job.source[p]),
               Spend(Cardinality(F) + o.cost),
               body' = o.body,
               result' = [result EXCEPT ![p] = IF o.ok THEN "written" ELSE "write_failed"],
               sent' = sent \cup {p}
        PROVE  /\ body' \in [Props -> Entry] /\ faults' \in 0..MaxFaults
               /\ \E r \in {"written", "write_failed"} :
                     result' = [result EXCEPT ![p] = r] /\ sent' = sent \cup {p}
    <3>1. o.body \in [Props -> Entry] /\ o.cost \in Nat
      BY <1>2, OutcomeFacts
    <3>2. Cardinality(F) + o.cost \in Nat
      BY <1>3, <3>1
    <3> QED
      BY <1>2, <2>5, <3>1, <3>2, Spent
  <2> QED
    BY <1>0, <1>2, <1>a, <2>1, <2>2, <2>4, <2>5
<1> QED
  BY <1>4, <1>5

\* The dry run of the apply: the plan is confirmed and nothing is touched.
LEMMA ApplyFacts ==
    ASSUME TypeOK, Linked, Apply
    PROVE  /\ phase = "planned" /\ faults' \in 0..MaxFaults /\ origin' = body
           /\ disturbed' = (disturbed /\ job.why # "fresh")
           /\ UNCHANGED <<body, job, confirmed, result, point, sent, aim, undone, runs>>
           /\ \/ phase' = "done" /\ report' = Brief("refused", FALSE)
              \/ /\ phase' = "done"
                 /\ \E st \in {"failed", "unverified", "verified"} : report' = Brief(st, TRUE)
                 /\ \A p \in ToWrite(confirmed) :
                       body[p].v = job.source[p].v \/ TookEffect(p, Planned(p), body[p])
              \/ phase' = "verified" /\ report' = report
<1>1. PICK F \in SUBSET FirstReads(job), G \in SUBSET SecondReads(job) :
         Spend(Cardinality(F) + Cardinality(G)) /\ Verify(DryRun(job, F, G))
  BY DEF Apply
<1>2. job \in Jobs
  BY DEF Linked, Apply
<1>3. FirstReads(job) \subseteq Props /\ SecondReads(job) \subseteq Props
  BY <1>2, SnapFacts DEF FirstReads, SecondReads, Selected, Jobs
<1>4. Cardinality(F) + Cardinality(G) \in Nat
  BY <1>3, Counted
<1>5. faults' \in 0..MaxFaults
  BY <1>1, <1>4, Spent DEF TypeOK
<1>6. ASSUME DryRun(job, F, G) = confirmed, WouldChange(confirmed) = {}
      PROVE  \A p \in ToWrite(confirmed) :
                 body[p].v = job.source[p].v \/ TookEffect(p, Planned(p), body[p])
  BY <1>2, <1>6, DryRunFacts DEF Planned
<1>7. /\ phase = "planned"
      /\ UNCHANGED <<body, job, confirmed, result, point, sent, aim, undone, runs>>
  BY DEF Apply
<1>8. /\ TransplantNoOp(confirmed) \in {"failed", "verified"}
      /\ RestoreNoOp(confirmed) \in {"failed", "unverified", "verified"}
  BY DEF TransplantNoOp, RestoreNoOp
<1>9. CASE DryRun(job, F, G) # confirmed
  BY <1>1, <1>5, <1>7, <1>9 DEF Verify, Refuse
<1>10. CASE DryRun(job, F, G) = confirmed /\ WouldChange(confirmed) = {}
  BY <1>1, <1>5, <1>6, <1>7, <1>8, <1>10 DEF Verify
<1>11. CASE DryRun(job, F, G) = confirmed /\ WouldChange(confirmed) # {}
  BY <1>1, <1>5, <1>7, <1>11 DEF Verify
<1> QED
  BY <1>9, <1>10, <1>11

\* The read-back: the report that is made of it.
LEMMA ReadBackFacts ==
    ASSUME TypeOK, ReadBack
    PROVE  /\ phase = "writing" /\ phase' = "done" /\ faults' \in 0..MaxFaults
           /\ UNCHANGED <<body, job, confirmed, result, point, sent, aim, origin, undone, disturbed, runs>>
           /\ \A p \in ToDo : result[p] # "none"
           /\ \E F \in SUBSET Props, complete \in BOOLEAN :
                 \/ /\ job.kind = "transplant"
                    /\ report' = Report(TransplantStatus(complete, Capture(F)), complete, Capture(F))
                 \/ /\ job.kind = "restore"
                    /\ report' = Report(RestoreStatus(complete, Capture(F)), complete, Capture(F))
<1>1. PICK F \in SUBSET Props :
         /\ Spend(Cardinality(F))
         /\ \/ /\ job.kind = "transplant"
               /\ report' = Report(TransplantStatus(Complete(Capture(F)), Capture(F)),
                                   Complete(Capture(F)), Capture(F))
            \/ /\ job.kind = "restore"
               /\ LET complete == Written # {} /\ Complete(Capture(F)) IN
                  report' = Report(RestoreStatus(complete, Capture(F)), complete, Capture(F))
  BY DEF ReadBack
<1>2. faults' \in 0..MaxFaults
  BY <1>1, Counted, Spent DEF TypeOK
<1>3. Complete(Capture(F)) \in BOOLEAN /\ (Written # {} /\ Complete(Capture(F))) \in BOOLEAN
  BY DEF Complete
<1> QED
  BY <1>1, <1>2, <1>3 DEF ReadBack

\* What a report says, whatever the run.
LEMMA ReportFacts ==
    ASSUME TypeOK, NEW st \in {"failed", "unverified", "verified"}, NEW complete \in BOOLEAN,
           NEW after
    PROVE  /\ Report(st, complete, after) \in Reports
           /\ Report(st, complete, after).status = st
           /\ Report(st, complete, after).complete = complete
           /\ Report(st, complete, after).undo \cup Report(st, complete, after).lost
              = Touched \cup (IF complete THEN SideEffects(after) ELSE {})
<1>1. /\ Written \subseteq Props /\ Touched \subseteq Props
      /\ SideEffects(after) \subseteq Props
  BY DEF Touched, Written, With, SideEffects
<1> QED
  BY <1>1 DEF Report, Reports

LEMMA BriefFacts ==
    ASSUME NEW st \in {"none", "refused", "failed", "unverified", "verified"}, NEW n \in BOOLEAN
    PROVE  Brief(st, n) \in Reports
BY DEF Brief, Reports

LEMMA StatusFacts ==
    ASSUME NEW complete, NEW after
    PROVE  /\ TransplantStatus(complete, after) \in {"failed", "unverified", "verified"}
           /\ RestoreStatus(complete, after) \in {"failed", "unverified", "verified"}
BY DEF TransplantStatus, RestoreStatus

-----------------------------------------------------------------------------
(* The invariants. *)

LEMMA TypeInit == Init => TypeOK
<1> SUFFICES ASSUME Init PROVE TypeOK
  OBVIOUS
<1>1. NoProps \in Snaps /\ DOMAIN NoProps = {}
  BY EmptySnap DEF NoProps
<1>2. NoReport \in Reports
  BY BriefFacts DEF NoReport
<1>3. Nothing \in [point : Snaps, report : Reports, origin : Snaps]
  BY <1>1, <1>2 DEF Nothing
<1>4. NoJob \in [kind : {"none", "transplant", "restore"}, why : {"none", "fresh", "undo", "again"},
                source : Snaps, targeted : BOOLEAN, only : SUBSET Props]
  BY <1>1 DEF NoJob
<1>5. 0 \in 0..MaxFaults /\ 0 \in 0..MaxRuns
  BY ConstantsAssumption DEF ConstantsAssumption
<1>6. /\ body \in [Props -> Entry] /\ aim \in [Props -> Scales]
      /\ result \in [Props -> {"none", "written", "write_failed",
         "rejected", "not_performed", "scale", "skipped"}]
  BY ConstantsAssumption DEF Init, ConstantsAssumption
<1> HIDE DEF NoProps, NoReport, Nothing, NoJob
<1> QED
  BY <1>1, <1>2, <1>3, <1>4, <1>5, <1>6 DEF Init, TypeOK

LEMMA TypeStep ==
    ASSUME TypeOK, Linked, [Next]_vars
    PROVE  TypeOK'
<1>1. ASSUME \E j \in Jobs : StartRun(j),
             undone' \in [point : Snaps, report : Reports, origin : Snaps]
      PROVE  TypeOK'
  <2>1. PICK j \in Jobs : StartRun(j)
    BY <1>1
  <2>2. NoProps \in Snaps /\ NoReport \in Reports
    BY EmptySnap DEF NoReport, Brief, Reports
  <2>3. aim' \in [Props -> Scales]
    BY <2>1, StartRunFacts, ConstantsAssumption DEF ConstantsAssumption
  <2> QED
    BY <1>1, <2>1, <2>2, <2>3, StartRunFacts DEF TypeOK, Jobs
<1>2. CASE Apply
  <2>1. body \in Snaps
    <3>1. body \in [Props -> Stored]
      BY DEF TypeOK, Entry, Stored
    <3> QED
      BY <3>1, SnapIs
  <2>2. report' \in Reports /\ phase' \in {"done", "verified"}
    BY <1>2, ApplyFacts, BriefFacts DEF TypeOK
  <2> QED
    BY <1>2, <2>1, <2>2, ApplyFacts DEF TypeOK
<1>3. CASE SavePoint
  <2>1. PICK F \in SUBSET Props : Spend(Cardinality(F)) /\ point' = Capture(F)
    BY <1>3 DEF SavePoint
  <2>2. point' \in Snaps /\ faults' \in 0..MaxFaults
    BY <2>1, CaptureIsSnap, Counted, Spent DEF TypeOK
  <2> QED
    BY <1>3, <2>2 DEF SavePoint, TypeOK
<1>4. CASE NoPoint
  BY <1>4 DEF NoPoint, Refuse, TypeOK, Brief, Reports
<1>5. CASE \E p \in Props : TransplantWrite(p) \/ RestoreWrite(p)
  BY <1>5, WriteFacts DEF TypeOK
<1>6. CASE \E p \in Props : Drift(p)
  <2>1. PICK p \in Props : Drift(p)
    BY <1>6
  <2>2. faults' \in 0..MaxFaults
    BY <2>1, Spent DEF Drift, TypeOK
  <2>3. body' \in [Props -> Entry]
    BY <2>1 DEF Drift, TypeOK, EntriesOf
  <2> QED
    BY <2>1, <2>2, <2>3 DEF Drift, TypeOK
<1>7. CASE ReadBack
  <2>1. report' \in Reports
    BY <1>7, ReadBackFacts, ReportFacts, StatusFacts
  <2> QED
    BY <1>7, <2>1, ReadBackFacts DEF TypeOK
<1>8. CASE Dies
  BY <1>8 DEF Dies, TypeOK
<1>9. CASE UNCHANGED vars
  BY <1>9 DEF vars, TypeOK
<1> QED
  BY <1>1, <1>2, <1>3, <1>4, <1>5, <1>6, <1>7, <1>8, <1>9, Starts DEF Next

LEMMA LinkedInit == Init => Linked
BY DEF Init, Linked, ToWrite, NoProps

LEMMA LinkedStep ==
    ASSUME TypeOK, Linked, [Next]_vars
    PROVE  Linked'
<1>1. ASSUME \E j \in Jobs : StartRun(j)
      PROVE  Linked'
  <2>1. PICK j \in Jobs : StartRun(j)
    BY <1>1
  <2>2. Selected(j) = Selected(job)'
    BY <2>1, StartRunFacts DEF Selected
  <2> QED
    BY <2>1, <2>2, StartRunFacts DEF Linked, ToWrite, Precheck
<1>2. CASE Apply
  BY <1>2, ApplyFacts DEF Linked, ToWrite, Precheck, Selected
<1>3. CASE SavePoint \/ NoPoint \/ Dies \/ UNCHANGED vars
  BY <1>3 DEF SavePoint, NoPoint, Refuse, Dies, vars, Linked, ToWrite, Precheck, Selected
<1>4. ASSUME NEW p \in Props, TransplantWrite(p) \/ RestoreWrite(p)
      PROVE  Linked'
  <2>1. /\ phase = "writing" /\ UNCHANGED <<job, confirmed, phase, report>>
        /\ ToWrite(confirmed)' = ToWrite(confirmed) /\ Selected(job)' = Selected(job)
    BY <1>4, WriteFacts DEF ToWrite, Selected
  <2>2. PICK r \in {"written", "write_failed", "rejected", "not_performed", "scale", "skipped"} :
           /\ result' = [result EXCEPT ![p] = r]
           /\ r = "skipped" => Precheck(p) # "ok"
           /\ r = "rejected" => p \in Unwritable
           /\ r \in {"skipped", "scale"} => job.kind = "restore"
    BY <1>4, WriteFacts
  <2>3. \A x \in Props : result'[x] = IF x = p THEN r ELSE result[x]
    BY <2>2 DEF TypeOK
  <2> QED
    BY <2>1, <2>2, <2>3 DEF Linked, Precheck
<1>5. CASE \E p \in Props : Drift(p)
  BY <1>5 DEF Drift, Linked, ToWrite, Precheck, Selected
<1>6. CASE ReadBack
  BY <1>6, ReadBackFacts DEF Linked, ToWrite, Precheck, Selected
<1> QED
  BY <1>1, <1>2, <1>3, <1>4, <1>5, <1>6, Starts DEF Next

LEMMA GuardedInit == Init => Guarded
BY DEF Init, Guarded, PointHolds, Written, With

LEMMA GuardedStep ==
    ASSUME TypeOK, Linked, Guarded, [Next]_vars
    PROVE  Guarded'
<1>1. ASSUME \E j \in Jobs : StartRun(j)
      PROVE  Guarded'
  BY <1>1, StartRunFacts DEF Guarded, Written, With
<1>2. CASE Apply
  BY <1>2, ApplyFacts DEF Guarded, Written, With, TypeOK
<1>3. CASE SavePoint
  <2>1. PICK F \in SUBSET Props :
           /\ Capture(F) # NoProps
           /\ Passes(Capture(F)) \/ AllowPartial
           /\ point' = Capture(F)
    BY <1>3 DEF SavePoint
  <2>2. \A p \in DOMAIN point' : point'[p] = body[p]
    <3>1. \A p \in DOMAIN Capture(F) : Capture(F)[p] = body[p]
      BY CaptureIsSnap DEF TypeOK
    <3> QED
      BY <2>1, <3>1
  <2>3. PointHolds'
    BY <1>3, <2>1, <2>2 DEF SavePoint, PointHolds, Passes, Guarded
  <2> QED
    BY <1>3, <2>3 DEF SavePoint, Guarded, Written, With
<1>4. CASE NoPoint \/ Dies \/ UNCHANGED vars
  BY <1>4 DEF NoPoint, Refuse, Dies, vars, Guarded, PointHolds, Written, With
<1>5. ASSUME NEW p \in Props, TransplantWrite(p) \/ RestoreWrite(p)
      PROVE  Guarded'
  <2>1. PointHolds'
    BY <1>5, WriteFacts DEF Guarded, PointHolds
  <2>2. sent' = (Written \cup With("write_failed"))'
    BY <1>5, WriteFacts DEF Guarded, Written, With, TypeOK
  <2> QED
    BY <1>5, <2>1, <2>2, WriteFacts DEF Guarded
<1>6. CASE \E p \in Props : Drift(p)
  BY <1>6 DEF Drift, Guarded, PointHolds, Written, With
<1>7. CASE ReadBack
  BY <1>7, ReadBackFacts DEF Guarded, PointHolds, Written, With
<1> QED
  BY <1>1, <1>2, <1>3, <1>4, <1>5, <1>6, <1>7, Starts DEF Next

LEMMA ConfirmedStep ==
    ASSUME TypeOK, Linked, OnlyConfirmedIsSent, [Next]_vars
    PROVE  OnlyConfirmedIsSent'
<1>1. ASSUME \E j \in Jobs : StartRun(j)
      PROVE  OnlyConfirmedIsSent'
  BY <1>1, StartRunFacts DEF OnlyConfirmedIsSent
<1>2. CASE Apply \/ ReadBack
  BY <1>2, ApplyFacts, ReadBackFacts DEF OnlyConfirmedIsSent, ToWrite
<1>3. CASE SavePoint \/ NoPoint \/ Dies \/ UNCHANGED vars
  BY <1>3 DEF SavePoint, NoPoint, Dies, vars, OnlyConfirmedIsSent, ToWrite
<1>4. ASSUME NEW p \in Props, TransplantWrite(p) \/ RestoreWrite(p)
      PROVE  OnlyConfirmedIsSent'
  <2>1. job.kind = "transplant" => p \in ToWrite(confirmed)
    BY <1>4, WriteFacts DEF ToDo
  <2> QED
    BY <1>4, <2>1, WriteFacts DEF OnlyConfirmedIsSent, ToWrite
<1>5. CASE \E p \in Props : Drift(p)
  BY <1>5 DEF Drift, OnlyConfirmedIsSent, ToWrite
<1> QED
  BY <1>1, <1>2, <1>3, <1>4, <1>5, Starts DEF Next

\* A read-back that is judged "verified" holds what the plan was to write.
LEMMA VerifiedReadBack ==
    ASSUME TypeOK, Linked, phase = "writing", \A p \in ToDo : result[p] # "none",
           NEW F \in SUBSET Props, NEW complete \in BOOLEAN,
           NEW p \in ToWrite(confirmed),
           \/ /\ job.kind = "transplant"
              /\ TransplantStatus(complete, Capture(F)) = "verified"
           \/ /\ job.kind = "restore" /\ p \notin Volatile
              /\ RestoreStatus(complete, Capture(F)) = "verified"
    PROVE  body[p].v = job.source[p].v \/ TookEffect(p, Planned(p), body[p])
<1> DEFINE after == Capture(F)
<1>1. \A x \in DOMAIN after : after[x] = body[x]
  BY CaptureIsSnap DEF TypeOK
<1>2. p \in Props /\ p \in ToDo
  BY DEF ToWrite, ToDo, Linked, TypeOK
<1>3. Precheck(p) = "ok" /\ (job.kind = "restore" => p \notin Unwritable)
  BY DEF Linked
<1>4. result[p] \in {"written", "write_failed", "rejected", "not_performed", "scale", "skipped"}
  BY <1>2 DEF TypeOK
<1>5. CASE job.kind = "transplant"
  <2>1. TransplantStatus(complete, after) = "verified"
    BY <1>5
  <2>2. p \notin With("write_failed") /\ p \notin With("not_performed") /\ p \notin With("rejected")
    BY <2>1 DEF TransplantStatus
  <2>3. result[p] = "written"
    BY <1>2, <1>4, <1>5, <2>2 DEF With, Linked
  <2>4. p \in Written
    BY <1>2, <2>3 DEF Written, With
  <2>5. p \in DOMAIN after /\ TookEffect(p, Planned(p), after[p])
    BY <2>1, <2>4 DEF TransplantStatus
  <2> QED
    BY <1>1, <2>5
<1>6. CASE job.kind = "restore"
  <2>1. RestoreStatus(complete, after) = "verified"
    BY <1>6
  <2>2. /\ p \notin With("write_failed") /\ p \notin With("scale") /\ p \notin With("not_performed")
        /\ Verdict(complete, after) \in {"verified", "nothing_written"}
    BY <2>1 DEF RestoreStatus
  <2>3. result[p] = "written"
    BY <1>2, <1>3, <1>4, <1>6, <2>2 DEF With, Linked
  <2>4. p \in Written
    BY <1>2, <2>3 DEF Written, With
  <2>5. p \in Written \ (Volatile \cup NeverCopied)
    BY <1>3, <1>6, <2>4 DEF Precheck
  <2>6. p \in DOMAIN after /\ after[p] = job.source[p]
    BY <2>2, <2>4, <2>5 DEF Verdict
  <2> QED
    BY <1>1, <2>6
<1> QED
  BY <1>5, <1>6

LEMMA VerifiedStep ==
    ASSUME TypeOK, Linked, VerifiedMeansHeld, [Next]_vars
    PROVE  VerifiedMeansHeld'
<1>1. ASSUME \E j \in Jobs : StartRun(j)
      PROVE  VerifiedMeansHeld'
  BY <1>1, StartRunFacts DEF VerifiedMeansHeld
<1>2. CASE Apply
  <2>1. UNCHANGED <<body, job, confirmed>> /\ ToWrite(confirmed)' = ToWrite(confirmed)
    BY <1>2, ApplyFacts DEF ToWrite
  <2>2. phase' = "done" /\ report'.status = "verified" =>
           \A p \in ToWrite(confirmed) :
               body[p].v = job.source[p].v \/ TookEffect(p, Planned(p), body[p])
    BY <1>2, ApplyFacts DEF Brief
  <2>3. \A p : Planned(p)' = Planned(p)
    BY <1>2, ApplyFacts DEF Planned
  <2> QED
    BY <2>1, <2>2, <2>3 DEF VerifiedMeansHeld, TookEffect
<1>3. CASE SavePoint \/ Dies
  BY <1>3 DEF SavePoint, Dies, VerifiedMeansHeld
<1>4. CASE NoPoint
  BY <1>4 DEF NoPoint, Refuse, Brief, VerifiedMeansHeld
<1>5. CASE UNCHANGED vars
  BY <1>5 DEF vars, VerifiedMeansHeld, ToWrite, TookEffect, Planned
<1>6. CASE \E p \in Props : TransplantWrite(p) \/ RestoreWrite(p)
  BY <1>6, WriteFacts DEF VerifiedMeansHeld
<1>7. CASE \E p \in Props : Drift(p)
  BY <1>7 DEF Drift, VerifiedMeansHeld
<1>8. CASE ReadBack
  <2>1. /\ phase = "writing" /\ UNCHANGED <<body, job, confirmed, result>>
        /\ \A p \in ToDo : result[p] # "none"
        /\ ToWrite(confirmed)' = ToWrite(confirmed)
    BY <1>8, ReadBackFacts DEF ToWrite
  <2>2. PICK F \in SUBSET Props, complete \in BOOLEAN :
           \/ /\ job.kind = "transplant"
              /\ report'.status = TransplantStatus(complete, Capture(F))
           \/ /\ job.kind = "restore"
              /\ report'.status = RestoreStatus(complete, Capture(F))
    BY <1>8, ReadBackFacts, ReportFacts, StatusFacts
  <2>3. ASSUME report'.status = "verified", NEW p \in ToWrite(confirmed),
               job.kind = "restore" => p \notin Volatile
        PROVE  body[p].v = job.source[p].v \/ TookEffect(p, Planned(p), body[p])
    BY <2>1, <2>2, <2>3, VerifiedReadBack
  <2>4. \A p : Planned(p)' = Planned(p)
    BY <1>8, ReadBackFacts DEF Planned
  <2> QED
    BY <2>1, <2>3, <2>4 DEF VerifiedMeansHeld, TookEffect
<1> QED
  BY <1>1, <1>2, <1>3, <1>4, <1>5, <1>6, <1>7, <1>8, Starts DEF Next

LEMMA AccountedStep ==
    ASSUME TypeOK, Linked, Guarded, ChangesAreAccounted, [Next]_vars
    PROVE  ChangesAreAccounted'
<1>1. ASSUME \E j \in Jobs : StartRun(j)
      PROVE  ChangesAreAccounted'
  BY <1>1, StartRunFacts DEF ChangesAreAccounted
<1>2. CASE Apply
  <2>1. sent = {} /\ sent' = {}
    BY <1>2, ApplyFacts DEF Guarded
  <2>2. phase' = "done" => report'.complete = FALSE
    BY <1>2, ApplyFacts DEF Brief
  <2> QED
    BY <2>1, <2>2 DEF ChangesAreAccounted
<1>3. CASE SavePoint \/ Dies
  BY <1>3 DEF SavePoint, Dies, ChangesAreAccounted
<1>4. CASE NoPoint
  BY <1>4 DEF NoPoint, Refuse, Brief, ChangesAreAccounted
<1>5. CASE UNCHANGED vars
  BY <1>5 DEF vars, ChangesAreAccounted
<1>6. CASE \E p \in Props : TransplantWrite(p) \/ RestoreWrite(p)
  BY <1>6, WriteFacts DEF ChangesAreAccounted
<1>7. CASE \E p \in Props : Drift(p)
  BY <1>7 DEF Drift, ChangesAreAccounted
<1>8. CASE ReadBack
  <2>1. phase = "writing" /\ UNCHANGED <<body, point, sent, origin, disturbed>>
    BY <1>8, ReadBackFacts
  <2>2. PICK F \in SUBSET Props, complete \in BOOLEAN :
           /\ report'.complete = complete
           /\ report'.undo \cup report'.lost
              = Touched \cup (IF complete THEN SideEffects(Capture(F)) ELSE {})
    BY <1>8, ReadBackFacts, ReportFacts, StatusFacts
  <2>3. sent \subseteq report'.undo \cup report'.lost
    BY <2>2 DEF Guarded, Touched
  <2>4. ASSUME complete, ~disturbed, NEW p \in DOMAIN point \ (Volatile \cup NeverCopied),
               body[p] # origin[p]
        PROVE  p \in Touched \cup SideEffects(Capture(F))
    <3>1. point[p] = origin[p] /\ p \in Props
      BY <2>1, <2>4, SnapFacts DEF Guarded, PointHolds, TypeOK
    <3>2. p \in DOMAIN Capture(F) => Capture(F)[p] = body[p]
      BY CaptureIsSnap DEF TypeOK
    <3> QED
      BY <2>4, <3>1, <3>2 DEF SideEffects, Differs, Touched
  <2> QED
    BY <2>1, <2>2, <2>3, <2>4 DEF ChangesAreAccounted
<1> QED
  BY <1>1, <1>2, <1>3, <1>4, <1>5, <1>6, <1>7, <1>8, Starts DEF Next

-----------------------------------------------------------------------------
(* The theorems. *)

IInv ==
    /\ TypeOK /\ Linked /\ Guarded
    /\ OnlyConfirmedIsSent /\ VerifiedMeansHeld /\ ChangesAreAccounted

LEMMA Inductive == Spec => []IInv
<1>1. Init => IInv
  <2> SUFFICES ASSUME Init PROVE IInv
    OBVIOUS
  <2>1. OnlyConfirmedIsSent /\ VerifiedMeansHeld /\ ChangesAreAccounted
    BY DEF Init, OnlyConfirmedIsSent, VerifiedMeansHeld, ChangesAreAccounted
  <2> QED
    BY <2>1, TypeInit, LinkedInit, GuardedInit DEF IInv
<1>2. IInv /\ [Next]_vars => IInv'
  BY TypeStep, LinkedStep, GuardedStep, ConfirmedStep, VerifiedStep, AccountedStep DEF IInv
<1> QED
  BY <1>1, <1>2, PTL DEF Spec

\* Type correctness of the apply flow.
THEOREM TypeCorrect == Spec => []TypeOK
BY Inductive, PTL DEF IInv

\* Whenever a write was sent, a restore point that passed the gate and holds the values from
\* before is stored, whatever failed and wherever the process died.
THEOREM RestorePointIsFirst == Spec => []RestorePointFirst
<1>1. IInv => RestorePointFirst
  BY DEF IInv, Guarded, PointHolds, RestorePointFirst
<1> QED
  BY <1>1, Inductive, PTL

\* A transplant sends no write for a property the confirmed plan skipped.
THEOREM OnlyConfirmed == Spec => []OnlyConfirmedIsSent
BY Inductive, PTL DEF IInv

\* A run that reports applied_verified left the body as its plan said.
THEOREM VerifiedIsTrue == Spec => []VerifiedMeansHeld
BY Inductive, PTL DEF IInv

\* Every property a run wrote, or changed on a readable body, is offered for the undo or named
\* as one the undo cannot restore.
THEOREM AllAccounted == Spec => []ChangesAreAccounted
BY Inductive, PTL DEF IInv

-----------------------------------------------------------------------------
(* The undo. *)

\* A report that offers an undo is about a run whose restore point holds what it offers.
OfferHolds ==
    report.undo # {} =>
        /\ phase = "done" /\ report.status \in {"failed", "unverified", "verified"}
        /\ report.undo \subseteq DOMAIN point
        /\ PointHolds

\* What the body of an undo is compared with: what it held before the undo wrote.
BeforeUndo(p) == IF phase = "planned" THEN body[p] ELSE origin[p]

\* An undo writes what the report of the run before offered, from that run's restore point; what
\* else differs from the body before that run, the report named as lost.
UndoLinked ==
    job.why = "undo" =>
        /\ job.kind = "restore" /\ job.targeted
        /\ job.source = undone.point /\ job.only = undone.report.undo
        /\ undone.report.undo # {} /\ undone.report.undo \subseteq DOMAIN undone.point
        /\ ~disturbed => \A p \in DOMAIN undone.point : undone.point[p] = undone.origin[p]
        /\ ~disturbed /\ undone.report.complete =>
              \A p \in DOMAIN undone.point \ (Volatile \cup NeverCopied) :
                  BeforeUndo(p) # undone.origin[p] => p \in undone.report.undo \cup undone.report.lost

UndoInv == OfferHolds /\ UndoLinked /\ UndoPutsBack

LEMMA OfferStep ==
    ASSUME IInv, OfferHolds, [Next]_vars
    PROVE  OfferHolds'
<1>0. TypeOK /\ Linked /\ Guarded
  BY DEF IInv
<1>1. ASSUME \E j \in Jobs : StartRun(j)
      PROVE  OfferHolds'
  BY <1>0, <1>1, StartRunFacts DEF OfferHolds, NoReport, Brief
<1>2. CASE Apply
  <2>1. phase = "planned" /\ (report'.undo = {} \/ report' = report)
    BY <1>0, <1>2, ApplyFacts DEF Brief
  <2> QED
    BY <2>1 DEF OfferHolds
<1>3. CASE SavePoint \/ NoPoint \/ Dies \/ UNCHANGED vars
  BY <1>3 DEF SavePoint, NoPoint, Refuse, Brief, Dies, vars, OfferHolds, PointHolds
<1>4. ASSUME NEW p \in Props, TransplantWrite(p) \/ RestoreWrite(p)
      PROVE  OfferHolds'
  BY <1>0, <1>4, WriteFacts DEF OfferHolds
<1>5. CASE \E p \in Props : Drift(p)
  BY <1>5 DEF Drift, OfferHolds, PointHolds
<1>6. CASE ReadBack
  <2>1. /\ phase = "writing" /\ phase' = "done" /\ UNCHANGED <<point, origin, disturbed>>
    BY <1>0, <1>6, ReadBackFacts
  <2>2. PICK F \in SUBSET Props, complete \in BOOLEAN :
           \/ report' = Report(TransplantStatus(complete, Capture(F)), complete, Capture(F))
           \/ report' = Report(RestoreStatus(complete, Capture(F)), complete, Capture(F))
    BY <1>0, <1>6, ReadBackFacts
  <2>3. report'.undo \subseteq DOMAIN point /\ report'.status \in {"failed", "unverified", "verified"}
    <3>1. \A st \in {"failed", "unverified", "verified"} :
             /\ Report(st, complete, Capture(F)).undo \subseteq DOMAIN point
             /\ Report(st, complete, Capture(F)).status = st
      BY DEF Report, Restorable
    <3>2. /\ TransplantStatus(complete, Capture(F)) \in {"failed", "unverified", "verified"}
          /\ RestoreStatus(complete, Capture(F)) \in {"failed", "unverified", "verified"}
      BY StatusFacts
    <3> QED BY <2>2, <3>1, <3>2
  <2>4. PointHolds'
    BY <1>0, <2>1 DEF Guarded, PointHolds
  <2> QED
    BY <2>1, <2>3, <2>4 DEF OfferHolds
<1> QED
  BY <1>0, <1>1, <1>2, <1>3, <1>4, <1>5, <1>6, Starts DEF Next

LEMMA UndoLinkedStep ==
    ASSUME IInv, OfferHolds, UndoLinked, [Next]_vars
    PROVE  UndoLinked'
<1>0. TypeOK /\ Linked /\ Guarded /\ ChangesAreAccounted
  BY DEF IInv
<1>1. ASSUME \E kind \in Kinds, snap \in Snapshots :
                \/ Plan(kind, snap, FALSE, {})
                \/ \E only \in SUBSET DOMAIN snap : Plan(kind, snap, TRUE, only)
      PROVE  UndoLinked'
  <2>1. PICK kind \in Kinds, snap \in Snapshots :
           \/ Plan(kind, snap, FALSE, {})
           \/ \E only \in SUBSET DOMAIN snap : Plan(kind, snap, TRUE, only)
    BY <1>1
  <2>2. ASSUME NEW targeted, NEW only, Plan(kind, snap, targeted, only)
        PROVE  job'.why = "fresh"
    <3>1. job' = [kind |-> kind, why |-> "fresh", source |-> snap, targeted |-> targeted, only |-> only]
      BY <2>2 DEF Plan, StartRun
    <3> QED
      BY <3>1
  <2>3. job'.why = "fresh"
    BY <2>1, <2>2
  <2> QED
    BY <2>3 DEF UndoLinked
<1>2. CASE PlanAgain
  <2>1. job'.why = "again"
    BY <1>2 DEF PlanAgain, StartRun
  <2> QED
    BY <2>1 DEF UndoLinked
<1>3. CASE PlanUndo
  <2>1. /\ phase = "done" /\ phase' = "planned" /\ body' = body /\ disturbed' = disturbed
        /\ job' = [kind |-> "restore", why |-> "undo", source |-> point, targeted |-> TRUE, only |-> report.undo]
        /\ undone' = [point |-> point, report |-> report, origin |-> origin]
        /\ report.undo # {}
    BY <1>3 DEF PlanUndo, StartRun
  <2>2. /\ report.status \in {"failed", "unverified", "verified"} /\ report.undo \subseteq DOMAIN point
        /\ ~disturbed => \A p \in DOMAIN point : point[p] = origin[p]
    BY <2>1 DEF OfferHolds, PointHolds
  <2>3. report.complete /\ ~disturbed =>
           \A p \in DOMAIN point \ (Volatile \cup NeverCopied) :
               body[p] # origin[p] => p \in report.undo \cup report.lost
    BY <1>0, <2>1, <2>2 DEF ChangesAreAccounted
  <2> QED
    BY <2>1, <2>2, <2>3 DEF UndoLinked, BeforeUndo
<1>4. CASE Apply
  <2>1. /\ phase = "planned" /\ phase' # "planned" /\ origin' = body
        /\ disturbed' = (disturbed /\ job.why # "fresh") /\ UNCHANGED <<job, undone>>
    BY <1>0, <1>4, ApplyFacts
  <2>2. job.why = "undo" => (disturbed' <=> disturbed)
    BY <2>1
  <2> QED
    BY <2>1, <2>2 DEF UndoLinked, BeforeUndo
<1>5. CASE SavePoint \/ NoPoint \/ Dies
  <2>1. UNCHANGED <<job, undone, disturbed, origin>> /\ phase # "planned" /\ phase' # "planned"
    BY <1>5 DEF SavePoint, NoPoint, Refuse, Dies
  <2> QED
    BY <2>1 DEF UndoLinked, BeforeUndo
<1>6. ASSUME NEW p \in Props, TransplantWrite(p) \/ RestoreWrite(p)
      PROVE  UndoLinked'
  <2>1. UNCHANGED <<job, undone, disturbed, origin, phase>> /\ phase = "writing"
    BY <1>0, <1>6, WriteFacts
  <2> QED
    BY <2>1 DEF UndoLinked, BeforeUndo
<1>7. CASE \E p \in Props : Drift(p)
  BY <1>7 DEF Drift, UndoLinked
<1>8. CASE ReadBack
  <2>1. UNCHANGED <<job, undone, disturbed, origin>> /\ phase # "planned" /\ phase' # "planned"
    BY <1>0, <1>8, ReadBackFacts
  <2> QED
    BY <2>1 DEF UndoLinked, BeforeUndo
<1>9. CASE UNCHANGED vars
  BY <1>9 DEF vars, UndoLinked, BeforeUndo
<1> QED
  BY <1>1, <1>2, <1>3, <1>4, <1>5, <1>6, <1>7, <1>8, <1>9 DEF Next

\* A plan with nothing to change, confirmed for the undo: every property it was to put back is so.
LEMMA UndoHasNothingToDo ==
    ASSUME IInv, UndoLinked, Apply, job.why = "undo", phase' = "done", report'.status = "verified",
           NEW p \in undone.report.undo
    PROVE  body[p].v = undone.point[p].v \/ TookEffect(p, undone.point[p], body[p])
<1>0. TypeOK /\ Linked
  BY DEF IInv
<1>1. PICK F \in SUBSET FirstReads(job), G \in SUBSET SecondReads(job) : Verify(DryRun(job, F, G))
  BY DEF Apply
<1>2. job.kind = "restore" /\ job.targeted /\ job.source = undone.point /\ p \in Selected(job)
  BY DEF UndoLinked, Selected
<1>3. DOMAIN confirmed = Selected(job)
  BY <1>0 DEF Apply, Linked
<1>4. /\ DryRun(job, F, G) = confirmed
      /\ report' = Brief(RestoreNoOp(confirmed), TRUE)
  BY <1>1, <1>2 DEF Verify, Refuse, Brief
<1>5. RestoreNoOp(confirmed) = "verified"
  BY <1>4 DEF Brief
<1>6. p \in ToWrite(confirmed)
  BY <1>2, <1>3, <1>5 DEF RestoreNoOp
<1>7. \A x \in ToWrite(confirmed) : body[x].v = job.source[x].v \/ TookEffect(x, job.source[x], body[x])
  BY <1>0, <1>2, <1>4, ApplyFacts DEF Brief, RestoreNoOp, Planned
<1> QED
  BY <1>2, <1>6, <1>7

\* A restore of named properties that is judged verified wrote them all, holds them, and reports
\* what else its restore point no longer agrees with.
LEMMA VerifiedUndo ==
    ASSUME IInv, phase = "writing", job.kind = "restore", job.targeted, Selected(job) # {}, ~disturbed,
           NEW F \in SUBSET Props, NEW complete \in BOOLEAN, NEW rep,
           RestoreStatus(complete, Capture(F)) = "verified",
           rep = Report(RestoreStatus(complete, Capture(F)), complete, Capture(F)),
           NEW p \in Props \ (Volatile \cup NeverCopied)
    PROVE  /\ p \in Selected(job) => body[p] = job.source[p]
           /\ p \notin Selected(job) /\ p \in DOMAIN point => body[p] = origin[p] \/ p \in rep.effects
<1> DEFINE after == Capture(F)
<1>0. TypeOK /\ Guarded
  BY DEF IInv
<1>1. /\ DOMAIN after = Props \ F /\ \A x \in DOMAIN after : after[x] = body[x]
  BY <1>0, CaptureIsSnap DEF TypeOK
<1>2. Selected(job) = Written /\ Verdict(complete, after) \in {"verified", "nothing_written"}
  BY DEF RestoreStatus
<1>3. Written # {} /\ complete
  BY <1>2 DEF Verdict
<1>4. p \in Selected(job) => p \in DOMAIN after /\ after[p] = job.source[p]
  BY <1>2, <1>3 DEF Verdict
<1>5. rep.effects = SideEffects(after)
  BY <1>3 DEF Report
<1>6. p \notin Selected(job) /\ p \in DOMAIN point /\ p \notin SideEffects(after) => p \in DOMAIN after /\ after[p] = point[p]
  BY <1>2 DEF SideEffects, Differs
<1>7. p \in DOMAIN point => point[p] = origin[p]
  BY <1>0 DEF Guarded, PointHolds
<1> QED
  BY <1>1, <1>4, <1>5, <1>6, <1>7

LEMMA UndoStep ==
    ASSUME IInv, UndoLinked, UndoLinked', UndoPutsBack, [Next]_vars
    PROVE  UndoPutsBack'
<1>0. TypeOK /\ Linked /\ Guarded
  BY DEF IInv
<1>1. ASSUME \E j \in Jobs : StartRun(j)
      PROVE  UndoPutsBack'
  BY <1>0, <1>1, StartRunFacts DEF UndoPutsBack
<1>2. CASE Apply
  <2> SUFFICES ASSUME phase' = "done", job'.why = "undo", report'.status = "verified", undone'.report.complete,
                      ~disturbed', NEW p \in DOMAIN undone'.point \ (Volatile \cup NeverCopied)
               PROVE  \/ body'[p].v = undone'.origin[p].v \/ TookEffect(p, undone'.origin[p], body'[p])
                      \/ p \in undone'.report.lost
    BY DEF UndoPutsBack, TookEffect
  <2>1. /\ UNCHANGED <<body, job, undone>> /\ origin' = body /\ phase' # "planned"
    BY <1>0, <1>2, ApplyFacts
  <2>2. undone.point[p] = undone.origin[p]
    BY <2>1 DEF UndoLinked
  <2>3. body[p] # undone.origin[p] => p \in undone.report.undo \cup undone.report.lost
    BY <2>1 DEF UndoLinked, BeforeUndo
  <2>4. p \in undone.report.undo =>
           body[p].v = undone.point[p].v \/ TookEffect(p, undone.point[p], body[p])
    BY <1>2, <2>1, UndoHasNothingToDo
  <2> QED
    BY <2>1, <2>2, <2>3, <2>4
<1>3. CASE SavePoint \/ Dies
  BY <1>3 DEF SavePoint, Dies, UndoPutsBack
<1>4. CASE NoPoint
  BY <1>4 DEF NoPoint, Refuse, Brief, UndoPutsBack
<1>5. CASE UNCHANGED vars
  BY <1>5 DEF vars, UndoPutsBack, TookEffect
<1>6. CASE \E p \in Props : TransplantWrite(p) \/ RestoreWrite(p)
  BY <1>0, <1>6, WriteFacts DEF UndoPutsBack
<1>7. CASE \E p \in Props : Drift(p)
  BY <1>7 DEF Drift, UndoPutsBack
<1>8. CASE ReadBack
  <2> SUFFICES ASSUME job'.why = "undo", report'.status = "verified", undone'.report.complete,
                      ~disturbed', NEW p \in DOMAIN undone'.point \ (Volatile \cup NeverCopied)
               PROVE  \/ body'[p].v = undone'.origin[p].v
                      \/ p \in undone'.report.lost \cup report'.effects
                      \/ ~report'.no_op /\ p \notin DOMAIN point'
    BY DEF UndoPutsBack
  <2>1. /\ UNCHANGED <<body, job, undone, origin, disturbed, point>> /\ phase = "writing"
    BY <1>0, <1>8, ReadBackFacts
  <2>2. /\ job.kind = "restore" /\ job.targeted /\ job.source = undone.point /\ undone.report.undo # {}
        /\ Selected(job) = undone.report.undo /\ undone.point[p] = undone.origin[p]
        /\ origin[p] # undone.origin[p] => p \in undone.report.undo \cup undone.report.lost
    BY <2>1 DEF UndoLinked, Selected, BeforeUndo
  <2>3. PICK F \in SUBSET Props, complete \in BOOLEAN :
           report' = Report(RestoreStatus(complete, Capture(F)), complete, Capture(F))
    BY <1>0, <1>8, <2>2, ReadBackFacts
  <2>4. RestoreStatus(complete, Capture(F)) = "verified" /\ report'.no_op = FALSE
    BY <2>3 DEF Report
  <2>5. p \in Props
    BY <1>0, <2>1, SnapFacts DEF TypeOK
  <2>6. /\ p \in Selected(job) => body[p] = job.source[p]
        /\ p \notin Selected(job) /\ p \in DOMAIN point => body[p] = origin[p] \/ p \in report'.effects
    BY <2>1, <2>2, <2>3, <2>4, <2>5, VerifiedUndo
  <2> QED
    BY <2>1, <2>2, <2>4, <2>6
<1> QED
  BY <1>0, <1>1, <1>2, <1>3, <1>4, <1>5, <1>6, <1>7, <1>8, Starts DEF Next

LEMMA UndoInvariant == Spec => []UndoInv
<1>1. Init => UndoInv
  BY DEF Init, NoJob, NoReport, Brief, UndoInv, OfferHolds, UndoLinked, UndoPutsBack
<1>2. IInv /\ UndoInv /\ [Next]_vars => UndoInv'
  BY OfferStep, UndoLinkedStep, UndoStep DEF UndoInv
<1> QED
  BY Inductive, <1>1, <1>2, PTL DEF Spec

\* A verified undo leaves the body as it was before the run it undoes, but for what that run named
\* as lost and what the undo reports of itself, for any runs, properties and misbehaviour of the
\* body (undo_set, and restore_apply of the restore point).
THEOREM UndoRestores == Spec => []UndoPutsBack
BY UndoInvariant, PTL DEF UndoInv
=============================================================================
