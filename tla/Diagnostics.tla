----------------------------- MODULE Diagnostics -----------------------------
(***************************************************************************)
(* The diagnostics files of several processes (diag.rs): each process      *)
(* keeps `inflight-<pid>.json`, the spans open now, and                    *)
(* `ring-<pid>.jsonl`, whose exit entry says it left by itself; a report   *)
(* reads both, asks whether the pid is alive and gives its verdict.        *)
(* Processes are killed between any two file operations, pids are reused,  *)
(* and every start prunes the files of finished processes.  One process's  *)
(* threads share one lock, so a process's own steps follow one another.    *)
(***************************************************************************)
EXTENDS Naturals, FiniteSets

CONSTANTS
    Procs,         \* processes; each runs once
    Pids,          \* process ids
    None,          \* no file, no process
    Spans,         \* spans a process can have open
    Elsewhere,     \* those begun on another thread than the one that exits
    Keep,          \* KEEP_PROCESSES
    CanTellStart,  \* the OS says when a pid started (macOS), so that reuse is seen
    Budgets        \* bounds: how many processes start, spans begin, file operations fail, reports are made

VARIABLES
    life,      \* per process: "unborn", "up", "left" or "killed"
    pid,       \* its process id
    pc,        \* what it does with the files; kept at its death
    open,      \* the spans it has open (State::open)
    said,      \* the exit it recorded: "no", "clean" or "cut"
    inflight,  \* per pid, the in-flight file: None or its owner and the spans it lists
    ring,      \* per pid, the ring file: None or its owner, the exit in it, and whether it holds an entry
    linked,    \* per process: its ring handle is the file under the ring's name
    prunes,    \* per process: the pids whose files it is removing, and whose files it
               \* found in use when it chose them
    robbed,    \* history: running processes that lost a file to a prune
    report,    \* a report being made of one pid
    budget,    \* what is left of the bounds
    faulted    \* history: a file operation failed

vars == <<life, pid, pc, open, said, inflight, ring, linked, prunes, robbed, report, budget, faulted>>
files == <<inflight, ring, linked>>

NoReport == [step |-> "idle", pid |-> None, spans |-> None, exit |-> None, moved |-> FALSE, verdict |-> "none"]
NoPrune == [dirs |-> {}, used |-> {}]

Init ==
    /\ life = [p \in Procs |-> "unborn"] /\ pid = [p \in Procs |-> None]
    /\ pc = [p \in Procs |-> "new"] /\ open = [p \in Procs |-> {}] /\ said = [p \in Procs |-> "no"]
    /\ inflight = [d \in Pids |-> None] /\ ring = [d \in Pids |-> None]
    /\ linked = [p \in Procs |-> FALSE]
    /\ prunes = [p \in Procs |-> NoPrune]
    /\ robbed = {} /\ report = NoReport
    /\ budget \in Budgets /\ faulted = FALSE

Spend(what) == budget[what] > 0 /\ budget' = [budget EXCEPT ![what] = @ - 1]
Fails == Spend("faults") /\ faulted' = TRUE
Works == UNCHANGED <<budget, faulted>>
Up(p, at) == life[p] = "up" /\ pc[p] = at
Goes(p, at) == pc' = [pc EXCEPT ![p] = at]
Holder(d) == {p \in Procs : life[p] = "up" /\ pid[p] = d}
\* A report under way notes that what it reads has changed since it began.
Moves(d) == report' = [report EXCEPT !.moved = @ \/ report.pid = d]
Mine(p) == pid[p]

-----------------------------------------------------------------------------
\* A process gets a pid no running process has.  Until Diag::new is through, files under that pid
\* are an earlier process's.
Starts(p, d) ==
    /\ life[p] = "unborn" /\ Holder(d) = {}
    /\ life' = [life EXCEPT ![p] = "up"] /\ pid' = [pid EXCEPT ![p] = d]
    /\ Moves(d) /\ Spend("starts")
    /\ UNCHANGED <<faulted, pc, open, said, files, prunes, robbed>>

\* Diag::new removes the in-flight file of an earlier process; if it cannot, nothing is recorded.
NewClears(p) ==
    /\ Up(p, "new")
    /\ \/ inflight' = [inflight EXCEPT ![Mine(p)] = None] /\ Goes(p, "ring") /\ Works
       \/ Fails /\ Goes(p, "off") /\ UNCHANGED inflight
    /\ Moves(Mine(p))
    /\ UNCHANGED <<life, pid, open, said, ring, linked, prunes, robbed>>

Emptied(p) == [owner |-> p, exit |-> "no", dated |-> FALSE]

\* ... opens the ring file, cut to nothing, and the trace file; if it cannot open one of them, nothing
\* is recorded, and the ring file may have been cut;
NewOpensRing(p) ==
    /\ Up(p, "ring")
    /\ \/ ring' = [ring EXCEPT ![Mine(p)] = Emptied(p)] /\ Works
          /\ linked' = [linked EXCEPT ![p] = TRUE] /\ Goes(p, "prune")
       \/ ring' \in {ring, [ring EXCEPT ![Mine(p)] = Emptied(p)]} /\ Fails
          /\ UNCHANGED linked /\ Goes(p, "off")
    /\ Moves(Mine(p))
    /\ UNCHANGED <<life, pid, open, said, inflight, prunes, robbed>>

\* Plausible bug: a pid whose process has nothing open is taken for a finished one's.
LiveIfOpen(d) ==
    Holder(d) # {} /\ (CanTellStart => inflight[d] # None /\ inflight[d].owner \in Holder(d))

\* live_process: the pid runs, and not, by the start in its in-flight file, as a later process.
Live(d) ==
    /\ Holder(d) # {}
    /\ CanTellStart /\ inflight[d] # None => inflight[d].owner \in Holder(d)

Kept == {d \in Pids : inflight[d] # None \/ ring[d] # None}
Owners(d) == {p \in Procs : \/ inflight[d] # None /\ inflight[d].owner = p
                            \/ ring[d] # None /\ ring[d].owner = p}
Removable(p) == {d \in Kept \ {Mine(p)} : ~Live(d)}

\* ... and prunes: the files beyond Keep processes', of those that do not run (which of them is
\* a matter of their age).
NewChooses(p) ==
    /\ Up(p, "prune") /\ Works
    /\ LET excess == Cardinality(Kept) - Keep IN
       \E dirs \in SUBSET Removable(p) :
          /\ IF Cardinality(Kept) <= Keep THEN dirs = {}
             ELSE IF Cardinality(Removable(p)) <= excess THEN dirs = Removable(p)
             ELSE Cardinality(dirs) = excess
          /\ prunes' = [prunes EXCEPT ![p] = [dirs |-> dirs,
                          used |-> {q \in Procs : life[q] = "up" /\ \E d \in dirs : q \in Owners(d)}]]
    /\ Goes(p, "remove")
    /\ UNCHANGED <<life, pid, open, said, files, robbed, report>>

Loses(d) == robbed' = robbed \cup (Owners(d) \cap Holder(d))
PruneInflight(p, d) ==
    /\ Up(p, "remove") /\ d \in prunes[p].dirs /\ Works
    /\ inflight' = [inflight EXCEPT ![d] = None]
    /\ prunes' = [prunes EXCEPT ![p].dirs = @ \ {d}]
    /\ Goes(p, d) /\ Loses(d) /\ Moves(d)
    /\ UNCHANGED <<life, pid, open, said, ring, linked>>

\* Removing the name of a ring file leaves its writer with a handle nobody reads.
PruneRing(p, d) ==
    /\ Up(p, d) /\ Works
    /\ ring' = [ring EXCEPT ![d] = None]
    /\ linked' = [q \in Procs |-> linked[q] /\ pid[q] # d]
    /\ Goes(p, "remove") /\ Loses(d) /\ Moves(d)
    /\ UNCHANGED <<life, pid, open, said, inflight, prunes>>

\* ring_append: an entry, which has a time, goes to the ring file, or cannot be written.
Appends(p) ==
    \/ linked[p] /\ Works /\ ring' = [ring EXCEPT ![Mine(p)] = [owner |-> p, exit |-> @.exit, dated |-> TRUE]]
    \/ ~linked[p] /\ Works /\ UNCHANGED ring
    \/ Fails /\ UNCHANGED ring

\* The ring's first entry tells of the start.
NewDone(p) ==
    /\ Up(p, "remove") /\ prunes[p].dirs = {} /\ Appends(p)
    /\ prunes' = [prunes EXCEPT ![p] = NoPrune]
    /\ Goes(p, "free") /\ Moves(Mine(p))
    /\ UNCHANGED <<life, pid, open, said, inflight, linked, robbed>>

-----------------------------------------------------------------------------
\* Diag::span: the span is open, and its work starts once the in-flight file was written.  A
\* thread that outlives the exit may still begin one.
Begins(p, s) ==
    /\ Up(p, "free") /\ s \notin open[p] /\ Spend("spans")
    /\ open' = [open EXCEPT ![p] = @ \cup {s}]
    /\ Goes(p, "begun") /\ Moves(Mine(p))
    /\ UNCHANGED <<faulted, life, pid, said, files, prunes, robbed>>

\* Diag::end: the entry goes to the ring, then the in-flight file is rewritten.
EndsSpan(p, s) ==
    /\ Up(p, "free") /\ s \in open[p] /\ Appends(p)
    /\ open' = [open EXCEPT ![p] = @ \ {s}]
    /\ Goes(p, "ended") /\ Moves(Mine(p))
    /\ UNCHANGED <<life, pid, said, inflight, linked, prunes, robbed>>

\* Plausible bug: a span begun after the exit brings the in-flight file back.
NotedAnyway(p, exited) ==
    \/ /\ inflight' = [inflight EXCEPT ![Mine(p)] =
                         IF open[p] = {} THEN None ELSE [owner |-> p, spans |-> open[p]]]
       /\ Works
    \/ Fails /\ UNCHANGED inflight

\* write_inflight: no file when nothing is open, none after the exit, else the spans; a file that
\* could not be replaced is removed, for it would list what has ended.
Noted(p, exited) ==
    \/ /\ open[p] # {} /\ exited
       /\ UNCHANGED inflight /\ Works
    \/ /\ open[p] # {} => ~exited
       /\ inflight' = [inflight EXCEPT ![Mine(p)] =
                         IF open[p] = {} THEN None ELSE [owner |-> p, spans |-> open[p]]]
       /\ Works
    \/ /\ open[p] = {} /\ Fails /\ UNCHANGED inflight
    \/ /\ open[p] # {} /\ ~exited /\ Fails
       /\ \/ inflight' = [inflight EXCEPT ![Mine(p)] = None]
          \/ UNCHANGED inflight

WritesInflight(p) ==
    /\ life[p] = "up" /\ pc[p] \in {"begun", "ended"}
    /\ Noted(p, said[p] # "no")
    /\ Goes(p, "free") /\ Moves(Mine(p))
    /\ UNCHANGED <<life, pid, open, said, ring, linked, prunes, robbed>>

\* Diag::shutdown, once: it closes the open spans, each with its entry, and those begun on other
\* threads are cut off;
ShutsDown(p) ==
    /\ Up(p, "free") /\ said[p] = "no"
    /\ \/ open[p] = {} /\ UNCHANGED ring /\ Works
       \/ open[p] # {} /\ Appends(p)
    /\ said' = [said EXCEPT ![p] = IF open[p] \cap Elsewhere = {} THEN "clean" ELSE "cut"]
    /\ open' = [open EXCEPT ![p] = {}]
    /\ Goes(p, "leaving") /\ Moves(Mine(p))
    /\ UNCHANGED <<life, pid, inflight, linked, prunes, robbed>>

\* it removes the in-flight file;
ShutsInflight(p) ==
    /\ Up(p, "leaving")
    /\ Noted(p, TRUE)
    /\ Goes(p, "exit") /\ Moves(Mine(p))
    /\ UNCHANGED <<life, pid, open, said, ring, linked, prunes, robbed>>

Left(p) == [owner |-> p, exit |-> said[p], dated |-> TRUE]

\* and its last entry is the exit's.
ShutsRing(p) ==
    /\ Up(p, "exit")
    /\ \/ ring' = (IF linked[p] THEN [ring EXCEPT ![Mine(p)] = Left(p)] ELSE ring) /\ Works
       \/ Fails /\ UNCHANGED ring
    /\ Goes(p, "free") /\ Moves(Mine(p))
    /\ UNCHANGED <<life, pid, open, said, inflight, linked, prunes, robbed>>

Leaves(p) ==
    /\ Up(p, "free") /\ said[p] # "no" /\ Works
    /\ life' = [life EXCEPT ![p] = "left"] /\ Moves(Mine(p))
    /\ open' = [open EXCEPT ![p] = {}]
    /\ UNCHANGED <<pid, pc, said, files, prunes, robbed>>

Killed(p) ==
    /\ life[p] = "up" /\ Works
    /\ life' = [life EXCEPT ![p] = "killed"] /\ Moves(Mine(p))
    /\ prunes' = [prunes EXCEPT ![p] = NoPrune]
    /\ UNCHANGED <<pid, pc, open, said, files, robbed>>

-----------------------------------------------------------------------------
\* load_with: the in-flight file, then the ring file, then the pid.
ReportReads(d) ==
    /\ report.step = "idle" /\ Spend("reports") /\ UNCHANGED faulted
    /\ report' = [NoReport EXCEPT !.step = "ring", !.pid = d, !.spans = inflight[d]]
    /\ UNCHANGED <<life, pid, pc, open, said, files, prunes, robbed>>

ReportReadsRing ==
    /\ report.step = "ring" /\ Works
    /\ report' = [report EXCEPT !.step = "alive", !.exit = ring[report.pid]]
    /\ UNCHANGED <<life, pid, pc, open, said, files, prunes, robbed>>

\* started_ms: a process is as old as its in-flight file or the ring's first entry say.  A ring that
\* was cut to nothing, by a process that died before its first entry, says nothing.
Dated == report.spans # None \/ (report.exit # None /\ report.exit.dated)

\* A pid that runs is dead for the report if it runs later than what the files say.
Recycled(d) ==
    /\ CanTellStart
    /\ \/ report.spans # None /\ report.spans.owner \notin Holder(d)
       \/ report.exit # None /\ report.exit.dated /\ report.exit.owner \notin Holder(d)
Alive(d) == Holder(d) # {} /\ ~Recycled(d)

\* ProcessTrace::verdict
Verdict(d) ==
    IF report.spans # None
    THEN IF Alive(d) THEN "running_open" ELSE "gone_open"
    ELSE IF report.exit # None /\ report.exit.exit # "no" THEN report.exit.exit
    ELSE IF Alive(d) THEN "idle" ELSE "gone"

ReportAsksAlive ==
    /\ report.step = "alive" /\ Works
    /\ report' = [report EXCEPT !.step = "done", !.verdict = Verdict(report.pid)]
    /\ UNCHANGED <<life, pid, pc, open, said, files, prunes, robbed>>

Next ==
    \/ \E p \in Procs :
         \/ \E d \in Pids : Starts(p, d) \/ PruneInflight(p, d) \/ PruneRing(p, d)
         \/ NewClears(p) \/ NewOpensRing(p) \/ NewChooses(p) \/ NewDone(p)
         \/ \E s \in Spans : Begins(p, s) \/ EndsSpan(p, s)
         \/ WritesInflight(p) \/ ShutsDown(p) \/ ShutsInflight(p) \/ ShutsRing(p)
         \/ Leaves(p) \/ Killed(p)
    \/ \E d \in Pids : ReportReads(d)
    \/ ReportReadsRing \/ ReportAsksAlive

Spec == Init /\ [][Next]_vars

-----------------------------------------------------------------------------
TypeOK ==
    /\ \A p \in Procs : open[p] \subseteq Spans /\ said[p] \in {"no", "clean", "cut"}
    /\ \A d \in Pids : inflight[d] # None => inflight[d].owner \in Procs /\ inflight[d].spans \subseteq Spans
    /\ robbed \subseteq Procs

\* What a report says of the process whose files it read was so.  An exit it reports was that
\* exit, always.  Without a failed write, a robbed process or a step of that pid in between: spans
\* it reports open were open, or just ended, in a process that was killed or runs; and one it
\* reports gone or idle without them had none whose work had begun (Diag::span writes before the
\* work, Diag::shutdown removes the in-flight file before it adds the exit, and no span begun
\* after it brings the file back).  A reused pid is seen where the OS and the files have a start to
\* compare.  A later process may have removed the in-flight file and be
\* (or have stopped) before the ring: Diag::new and prune_with both remove in that order.
Subject == IF report.spans # None THEN report.spans.owner ELSE report.exit.owner
KnownHolder(o) == Holder(report.pid) \subseteq {o} \/ (CanTellStart /\ Dated)
HalfRemoved(o) == \E q \in Procs \ {o} :
    pc[q] = report.pid \/ (pid[q] = report.pid /\ pc[q] = "ring")
SoundVerdict ==
    LET o == Subject
        v == report.verdict
    IN  /\ v \in {"clean", "cut"} => said[o] = v
        /\ ~report.moved /\ ~faulted /\ o \notin robbed =>
             /\ v = "gone_open" => life[o] = "killed" /\ (open[o] # {} \/ pc[o] \in {"ended", "leaving"})
             /\ v = "gone" /\ ~HalfRemoved(o) => life[o] = "killed" /\ (open[o] = {} \/ pc[o] = "begun")
             /\ v = "running_open" /\ KnownHolder(o) => life[o] = "up"
             /\ v = "idle" /\ KnownHolder(o) => life[o] = "up" /\ (open[o] = {} \/ pc[o] = "begun")
VerdictIsTrue ==
    report.step = "done" /\ (report.spans # None \/ report.exit # None) => SoundVerdict

\* Of a process that runs and had files when a prune chose what to remove, it removes none
\* (prune_with).  One that starts under a pid judged dead may still lose its own.
SparesRunning == \A p \in Procs : life[p] = "up" => (robbed' \ robbed) \cap prunes[p].used = {}
PruneSparesRunning == [][SparesRunning]_vars

-----------------------------------------------------------------------------
(* The inductive invariant. *)

Exits == {"no", "clean", "cut"}
Places == {"new", "off", "ring", "prune", "remove", "free", "begun", "ended", "leaving", "exit"}
InFiles == [owner : Procs, spans : SUBSET Spans]
RingFiles == [owner : Procs, exit : Exits, dated : BOOLEAN]
Reports == [step : {"idle", "ring", "alive", "done"}, pid : Pids \cup {None},
            spans : InFiles \cup {None}, exit : RingFiles \cup {None}, moved : BOOLEAN,
            verdict : {"none", "running_open", "gone_open", "clean", "cut", "idle", "gone"}]
Types ==
    /\ life \in [Procs -> {"unborn", "up", "left", "killed"}] /\ pid \in [Procs -> Pids \cup {None}]
    /\ pc \in [Procs -> Places \cup Pids]
    /\ open \in [Procs -> SUBSET Spans] /\ said \in [Procs -> Exits]
    /\ inflight \in [Pids -> InFiles \cup {None}] /\ ring \in [Pids -> RingFiles \cup {None}]
    /\ linked \in [Procs -> BOOLEAN]
    /\ prunes \in [Procs -> [dirs : SUBSET Pids, used : SUBSET Procs]]
    /\ report \in Reports

\* What a process can have done where it is.  It never chose to remove the files of one that runs.
Courses ==
    \A p \in Procs :
        /\ life[p] = "unborn" => pc[p] = "new" /\ prunes[p].dirs = {}
        /\ life[p] # "unborn" => pid[p] \in Pids
        /\ life[p] = "left" => said[p] # "no" /\ pc[p] = "free"
        /\ open[p] # {} => pc[p] \in {"free", "begun", "ended"}
        /\ said[p] # "no" => pc[p] \in {"free", "begun", "ended", "leaving", "exit"}
        /\ pc[p] \in {"leaving", "exit"} => said[p] # "no"
        /\ prunes[p].used = {} /\ pid[p] \notin prunes[p].dirs
        /\ \A q \in Procs : life[p] = "up" /\ life[q] = "up" /\ pid[p] = pid[q] => p = q

\* Whose a file is.
Settled(p) == life[p] = "up" /\ pc[p] \notin {"new", "ring", "off"}
OwnedBy(d, p) ==
    /\ inflight[d] # None /\ inflight[d].owner = p =>
          pid[p] = d /\ pc[p] \in {"free", "begun", "ended", "leaving", "exit"}
    /\ ring[d] # None /\ ring[d].owner = p =>
          /\ pid[p] = d /\ pc[p] \notin {"new", "ring"} /\ (linked[p] \/ pc[p] = "off")
          /\ ring[d].exit \in {"no", said[p]}
          /\ life[p] = "up" /\ inflight[d] # None => inflight[d].owner = p
    /\ life[p] = "up" /\ pid[p] = d /\ pc[p] \notin {"new", "off"} /\ inflight[d] # None => inflight[d].owner = p
    /\ Settled(p) /\ pid[p] = d /\ ring[d] # None => ring[d].owner = p
    /\ Settled(p) /\ pid[p] = d /\ linked[p] => ring[d] # None
    /\ linked[p] => pc[p] \notin {"new", "ring", "off"}
Owned == \A d \in Pids, p \in Procs : OwnedBy(d, p)

\* While no file operation failed, what the files of a process say of it.
Halved(p) == \E q \in Procs \ {p} : pc[q] = pid[p] \/ (pid[q] = pid[p] /\ pc[q] = "ring")
Lists(p) == inflight[pid[p]] # None /\ inflight[pid[p]].owner = p
Logs(p) == ring[pid[p]] # None /\ ring[pid[p]].owner = p
ToldOf(p) ==
    /\ Lists(p) => (open[p] # {} \/ pc[p] \in {"ended", "leaving"}) /\ (said[p] # "no" => pc[p] = "leaving")
    /\ Logs(p) /\ said[p] # "no" /\ pc[p] \notin {"leaving", "exit"} => ring[pid[p]].exit = said[p]
    /\ Logs(p) /\ said[p] = "no" /\ p \notin robbed /\ open[p] # {} /\ pc[p] # "begun"
       /\ (life[p] = "up" \/ ~Halved(p)) => inflight[pid[p]] # None
Told == ~faulted => \A p \in Procs : pid[p] \in Pids => ToldOf(p)

\* A report has what the files held, and while nothing moved, what they hold.
Reported ==
    /\ report.step # "idle" => report.pid \in Pids
    /\ report.step # "done" => report.verdict = "none"
    /\ report.exit # None => report.exit.exit \in {"no", said[report.exit.owner]}
    /\ report.verdict \in {"clean", "cut"} =>
          report.spans = None /\ report.exit # None /\ report.exit.exit = report.verdict
    /\ report.step # "idle" /\ ~report.moved =>
          /\ report.spans = inflight[report.pid]
          /\ report.step # "ring" => report.exit = ring[report.pid]
          /\ report.step = "done" => report.verdict = Verdict(report.pid)

IInv == Types /\ Courses /\ Owned /\ Told /\ Reported
=============================================================================
