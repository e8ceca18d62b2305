# Formal models of nikon-fleet

TLA+ models of nikon-fleet, the TLC runs that check them and the proofs, checked by TLAPS, of what
matters most about them.

nikon-fleet reads and writes the settings of Nikon cameras: a command line (`fleet`), a desktop
GUI and an MCP server, over one Rust library. It captures a body's settings to a snapshot file,
compares snapshots, writes a snapshot back (restore) or onto another body (transplant), keeps
firmware images, and records what it was doing. A wrong or half-finished write leaves somebody's
camera in a state they did not choose, so most of the program is about *knowing* what was written
and being able to undo it; that is what most of these models are about.

## Layout

| module | what it is |
|---|---|
| `CallContract` | what a camera call of the MCP server promises its client |
| `WorkerCall` | the supervisor, its worker processes and the server's exits |
| `MCWorkerCall`, `MCWorkerCall*.cfg` | instances, and a claim of the source the code does not keep |
| `WorkerCall_proof` | proofs about `WorkerCall` |
| `ApplyFlow` | a transplant or restore from its plan to its undo |
| `MCApplyFlow`, `MCApplyFull.cfg` | an instance |
| `ApplyFlow_proof` | proofs about `ApplyFlow` |
| `LockContract` | what the camera lock promises |
| `CameraLock`, `MCCameraLock.cfg` | the lock on shared file descriptions, and sessions under it |
| `CameraLock_proof` | proofs about `CameraLock` |
| `SnapshotStore`, `MCSnapshotStore`, `MCSnapshotStore.cfg` | the snapshots directory and the processes that write to it |
| `SnapshotStore_proof` | proofs about `SnapshotStore` |
| `ExtendedRestore` | the restore of a snapshot's extended section, and its undo |
| `MCExtendedRestore`, `MCExtendedRestore.cfg` | an instance |
| `ExtendedRestore_proof` | proofs about `ExtendedRestore` |
| `PtpSession`, `MCPtpSession.cfg` | sessions and transactions over the pipes to a body |
| `PtpSession_proof` | proofs about `PtpSession` |
| `GuardedWindow`, `MCGuarded*.cfg` | the GUI's two windows that write, its worker and its frames |
| `GuardedWindow_proof` | proofs about `GuardedWindow` |
| `FirmwareArchive` | the files of one entry of the firmware archive |
| `Diagnostics` | the diagnostics files of several processes and a report of them |
| `DiagRing` | the ring of one process, in memory and on disk |
| `SessionNote` | the marker of a lost apply and the servers that tell of it |
| `FtpTest` | the test of an FTP or SFTP server |
| `TransplantPlan` | what a transplant writes for one property, as operators |
| `SnapshotEdit` | one property from a capture through its edits to another body |
| `Parts` | the six parts that share no state with another, in one specification |
| `MCParts`, `MCParts.cfg` | an instance of `Parts` |
| `Parts_proof` | proofs about the parts of `Parts` |
| `PROJECT.json` | components, runs, mutants, the definitions' source lines, findings, hazards, theorems |

In the models, an operator that a comment calls a *plausible bug* is a mutated form of the
definition after it. It is used by no specification; it is there so that every property can be
seen to fail when the code is wrong in that way (`PROJECT.json`, "mutants").

## Inventory

The parts of the system, the state each keeps, what it does, what is hard about it, and what makes
it correct. *Modelled* names the module; *planned* is the plan below.

**MCP supervisor** (`mcp/src/supervisor.rs`, `server.rs`, `main.rs`). State: the queue lock, the
in-flight slot, per call the locals of `run_inner` (`last_phase`, `writing_seen`, `answer`, `stop`,
`cancel_ignored`), the marker file. It runs one camera call at a time, each in a worker process it
talks to over one pipe; it cancels, times out, kills, reaps, abandons, drains. Hard: the worker
and the supervisor run concurrently, and a kill, a cancellation, a signal or an end of the client
can come between any two steps of either. Correct: a client told "not applied" is told the truth,
a result that was sent is honoured, calls are answered. *Modelled*: `WorkerCall`.

**Worker** (`src/worker_cmd.rs`, `ops/worker.rs`, `process_exit.rs`). State: none of its own; it
sends phase lines and one result line, takes the camera lock, and runs one op. Correct: no write
before `writing` is delivered. *Modelled* as a process of `WorkerCall` for the protocol, and the
two write ops by `ApplyFlow`.

**Note of the previous session** (`supervisor.rs`, `server.rs`: `previous_session_note`,
`report_previous_session`). State: the marker file, shared by successive servers and by servers of
several clients; per server the note it still has to tell. Hard: a rename that fails, a result that
cannot carry the note, a death between the two. Correct: a lost apply is told of. *Modelled*:
`SessionNote`.

**Apply flows** (`ops/apply.rs`, `restore_flow.rs`, `restore.rs`, `readback.rs`, `capture.rs`,
`baseline.rs`, `plan.rs`; `transplant.rs` for what one property does). State: the confirmed plan,
the restore point, the result per property, the report. Hard: the body is not under the program's
control: its user turns dials, reads fail, a write can be ignored, half done, or change other
properties; the process can die. Correct: what was confirmed is what is written, a restore point
from before the first write exists, the report is true, an undo undoes. *Modelled*: `ApplyFlow`.

**Camera lock** (`camera_lock.rs`; `open_sdk` and `SdkSession` in `main.rs`, `PtpUsbSession` in
`ptp_usb.rs`). State: an flock on one file. Shared by all processes of a user. Hard: descriptors
are inherited by forked children; holders die. Correct: sessions never overlap, a refusal has a
cause that goes away. *Modelled*: `CameraLock`.

**Snapshot store** (`snapshot.rs`, `ops/paths.rs`, `capture_snapshot.rs`, `retention.rs`,
`edit_snapshot.rs`, and `list.rs`, `labels.rs`, `settings.rs`). State: the files of the snapshots
directory. Captures and restore points are created under the camera lock, copies and edits under
none; the user deletes by hand. Hard: several processes, each of which may die between any two
file operations. Correct: no file is ever seen half written, no original is ever changed, the caps
hold. *Modelled in part*: `SnapshotStore`; names, path checks, listing, labels and the settings
file are not.

**Raw PTP session** (`ptp_usb.rs`, `ptp_usb/`, `ops/port.rs`). State: session open, transaction id,
poisoned, bytes received and not parsed. Hard: after a transport failure a reply of an earlier
transaction may still come; the open is retried after clearing the endpoints. Correct: no reply is
ever taken for that of another transaction; a write whose reply was lost is reported as
indeterminate. *Modelled in part*: `PtpSession`; what is in a container (descriptors, profile
layouts), finding and claiming the interface, the research probes and the rebuild of the list (see
`ExtendedRestore`) are not.

**Extended capture and restore** (`extended*.rs`, `ops/restore_extended.rs`). State: the plan, the
items' outcomes, the list of FTP profiles on the body. Order: strings, IPTC, switches, FTP; stops at
the first failure; the FTP list is deleted profile by profile and added again in reverse. Correct:
the status is true, what was changed is in the undo set, a partial list is reported. *Modelled*:
`ExtendedRestore`; the comparison of captures (`extended_diff.rs`) and the layout are not.

**Guarded write of the GUI** (`gui/src/guarded.rs`, `restore.rs`, `restore_ext.rs`). State:
`Stage` (Idle, Planning, Planned, Aside, ConfirmApply, Applying, Done), the form, the command
queue. Hard: answers arrive after the form changed; the worker thread dies. Correct: what is sent
is the plan that was shown, an apply that was sent is never reported as not applied. *Modelled in
part*: `GuardedWindow`; the extended window runs the same stages, its ticks are not modelled.

**GUI windows** (`gui/src/main.rs` and the rest). The frame (`poll`, `sync`, one click), the queue
of commands and the count of what runs are in `GuardedWindow`, the import of an archive is in
`FirmwareArchive`. Drawing and forms: not modelled.

**Transplant planner** (`transplant.rs`, `diff.rs`, `code_policy.rs`, `range_policy.rs`,
`range_value.rs`, `value_shape.rs`). Pure functions: may one value of this body be written to that
one, and as what. `ApplyFlow` has the outcomes that do not depend on two bodies' tables. *Modelled
in part*: `TransplantPlan`, and `SnapshotEdit` for the whole way of a property; the tables of codes
and models are a choice, the comparison of snapshots is not modelled.

**Snapshot editing** (`snapshot_edit.rs`, `ftp_edit.rs`, `iptc.rs`). Pure edits of a copy: only a
copy is editable, an edit that changes something is recorded. The file side is in `SnapshotStore`;
the edits of a property are *modelled* (`SnapshotEdit`), those of the extended section are *planned*
(`ProfileList`).

**Diagnostics** (`diag.rs`). State: per process an in-flight file and a ring, in memory and on
disk; the directory is shared. Hard: a crash at any point, pruning while others run, process ids
that come back. Correct: what was running at a crash is named; failures outlive routine entries;
a running process keeps its files. *Modelled in part*: `Diagnostics`, `DiagRing`; fields set while
a span is open, the trace file, temporary files and the rendering are not.

**Firmware archive** (`firmware.rs`, `firmware_source.rs`, `firmware_browse.rs`,
`firmware_webview.rs`, `ops/firmware_latest.rs`; `firmware add` and `pin` in `main.rs`, the import
in `gui/src/main.rs`). State: per model and version a binary, a page and its metadata, three files
written one after the other under no lock. Hard: an ingest that dies half way, commands that
overlap. Correct: an entry that lists is whole. *Modelled in part*: `FirmwareArchive`. Downloads,
scraping, the embedded browser, versions: not modelled.

**FTP server test** (`ftp_test.rs`). Steps against a server; a file that was put is deleted or
named. *Modelled*: `FtpTest`. **Property sweep** (`prop_sweep.rs`): read-only loop. *Planned* last.

**SDK bridge** (`sdk.rs`, `maid_layer.rs`): calls into a closed library; its calls are the
environment of the models. **Command line, views, rendering, MCP guidance**: argument parsing and
text; not modelled.

How they interact: GUI and MCP server run the command line or a worker as child processes; every
process that talks to a camera takes the camera lock first and holds it for its session; captures
and applies write to the snapshot store under that lock; the MCP server learns of its worker's
progress only through the pipe.

## Plan

In this order; each module with its instances and, where it says so, its proofs.

1. `CallContract`, `WorkerCall` and their refinement: **done**, proved.
2. `ApplyFlow`: **done**, proved.
3. `LockContract`, `CameraLock` and their refinement: **done**, proved.
4. `SnapshotStore`: **done**, proved.
5. `ExtendedRestore`: **done**, proved.
6. `PtpSession`: **done**, proved.
7. `GuardedWindow`: **done**, proved but for the liveness `WaitsEnd`.
8. `FirmwareArchive`, `SessionNote`: **done**, proved.
9. `Diagnostics`, `DiagRing`: **done**, proved.
10. `FtpTest`: **done**, proved.
11. `TransplantPlan`, `SnapshotEdit`: **done**, proved.
12. `ProfileList` (the edits of the extended section), then `PropertySweep`.
13. Proofs still open: none of a safety or an action property. Liveness stays with TLC.

## WorkerCall

One behaviour is one session of the MCP server. A call goes through `pc`: queued, reading (the
`select!` loop of `run_inner`), drain_ready (what `drain_ready` does after a cancellation), grace
(waiting for a worker that has answered), killing, reaping, draining (the lines left in the pipe
after the worker is gone), done. Its worker goes through `wpc`. The two share `pipe[c]`, the
process (`killed`, dead) and the camera lock, nothing else; in particular the supervisor learns of
`writing` only by reading the line. A worker that cannot be reaped in time is abandoned: the call
ends, the queue moves on, the worker may still be there. The server exits by a signal (with or
without a second one), because the client is gone, or at the end of the wait for its applies;
`record_in_flight_at_exit` writes the marker from the in-flight slot.

Abstractions. Time: a timer may fire whenever it is waited for. `"connected"` stands for every
phase before the plan is verified. Lines that are no protocol lines are skipped by the code and
left out. A read of the channel can fail at any time, with lines unread: it ends the loop and it
ends `drain_ready`, and what was not read stays for the last drain. One assumption is left, and
`NotAppliedIsTrue` and `ResultHonoured` rest on it: the last drain meets no read error (its
`while let Ok(Some(l))` would end there, with a result or a `writing` line unread). What an op
computes is left out, except whether it refuses, answers or writes, and how often (`MaxWrites`).

Runs:

- `calls_safe`: an apply and a read, one write, another program that takes the camera lock. Two
  calls are what an abandoned worker needs to meet the call after it; one write is what makes
  `issued` positive before and after every other step. Checks what a client is told
  (`NotAppliedIsTrue`, `ResultHonoured`), abandoned workers (`OneActingWorker`) and that the whole
  implements `CallContract` (`ImplementsContract`).
- `calls_live`: `CallsAreAnswered`. Fairness is assumed of the supervisor's steps only: the tokio
  runtime polls a ready future and fires an expired timer. Nothing is assumed of the worker, which
  may hang for ever, of the client or of the camera. A queued call is answered or the server is
  gone.
- `marker_missed`: a finding, see below.

The deadlock check is off: a session ends.

Proved (`WorkerCall_proof`, for any calls, any number of writes): the type invariant, every safety
property of the runs and the refinement of `CallContract`, with `WriteAnnounced` and
`PhaseAgreesWithWritingSeen` on the way. `WriteAnnounced` and `PhaseAgreesWithWritingSeen` are
stated for the proof and have no run of their own: `NotAppliedIsTrue` and the refinement fail when
they do. `NotAppliedIsTrue` alone is not inductive: that nothing was written is known to the
supervisor only through the absence of a line. `IInv` says what that absence means: phases are read
in the order the worker goes through them (`PhaseOrder`); `writing` is in the pipe or was read
exactly when the worker went past it (`WorkerOrder`); a call that ends has a worker that can no
longer act, and reports that nothing changed only if `writing` was not delivered (`CallOrder`).
`ResultHonoured` needs `ResultInv`: one call at a time has the queue lock, and a result that was
sent is in the pipe or in `answer` until it is reported, whichever way out of the read loop is
taken. `OneActingWorker` then follows: a worker that is neither dead nor sent a SIGKILL is that of
the call that has the queue, an abandoned one has been sent it. The proof has one lemma per kind of
process, and a frame lemma for the calls that a step leaves alone.

## ApplyFlow

One behaviour is a sequence of runs on one body: a transplant or a restore, then its undo or its
retry. The client confirms a plan; the apply reads the body again and plans again; if the plan is
the same (the code compares a digest and a summary; the model the plan as a value) and not a
no-op, it saves a restore point, writes property by property in the order of the names, reads
back, and reports a status, what was written, side effects, what the undo should write and what is
lost. The body is the environment: `Drift` is its user, reads may fail (`NoRead`), a write lands or
not, is acknowledged or not, and may change dependent properties (`Dependents`). `Dies` may come
between any two steps. `disturbed` remembers that somebody else changed the body since the plan
was verified: most promises hold only of an undisturbed body, and the properties say so.

Abstractions. A value is an entry with a value and the scale (of a range) or the option list (of an
enum) it was read with; the body keeps those, and `Drift` and dependent writes change them. What is
stored and written of an enum is its position in the list: `LandsAs` is the option that position means
in the body's list, and `TookEffect` compares positions, as `took_effect` does, while the verdict of a
restore compares whole entries (`values_differ`). A transplant translates the value to the live list
first (`aim` remembers which). A
property has a kind: chosen by label, by raw code, a number, a text (booleans behave alike) or a
range. Of the planner's reasons to skip a property those that one body's answers decide are
modelled; the ones that compare two bodies' tables are in `TransplantPlan`.
`same_body`, absent properties, labels and the files' names are left out; the source is a snapshot
the target accepts. It may hold a range without a usable position (`NoPosition`): a transplant
skips it, a restore counts it as a failed write, sends nothing, and has it in the undo set all the
same (`Touched`). In the dry run of a restore it is a property that will not be written, so a restore
of everything with nothing else to change is still a verified no-op. A property that neither capture could read is outside `ChangesAreAccounted` and
`UndoPutsBack`, as it is outside the code's reports.

Runs. `MaxFaults` bounds everything that goes wrong in a behaviour (failed reads, ignored or
failed writes, drift, death), `MaxRuns` the runs; two runs are a run and its undo or retry.

- `apply_full`: transplants and restores, targeted or not, of a raw code with two option lists of
  opposite order and a range on two scales, beside a label that only the body sets; a sound snapshot
  and one with a corrupt range; two faults. `RestorePointFirst`, `OnlyConfirmedIsSent`,
  `VerifiedMeansHeld`, `ChangesAreAccounted`, `UndoPutsBack`. Three properties are enough for a write,
  one it disturbs and one that is written after it; two faults for a fault that hides another. If
  the body changes its option list between the plan or the capture and the write, the same position
  is another option and the status does not notice (the no-op check of a restore and the
  verification of a transplant see the position only). `VerifiedMeansHeld` and `UndoPutsBack`
  therefore allow an enum to hold the planned position instead of the value.

The deadlock check is off: the runs are bounded.

Proved (`ApplyFlow_proof`, for any properties, snapshots, faults and runs): the type invariant and
the five properties. The inductive invariant adds `Linked` (what ties the confirmed plan and
the results to the job) and `Guarded` (nothing is sent before the restore point holds, the results
tell exactly what was sent, and from the verification on an undisturbed body is the one the
restore point shows). `VerifiedMeansHeld` and `ChangesAreAccounted` are then facts about the one
step that reports. `UndoPutsBack` relates two runs. `OfferHolds` says of a report that offers an undo
that its restore point has what it offers and holds what the body held; `UndoLinked` carries that
over to the undo: what differs from the body before the first run is in what the undo writes, or was
named as lost.

## CameraLock

The lock is an flock on an open file description, and the model has descriptions: every `open`
makes one, a child that another thread forks shares it until its exec (the descriptor is
close-on-exec), and the kernel drops the flock with the last descriptor. A process goes through
idle, opened, held, session; `Dies` may come anywhere. A session is the Rust value (`SdkSession`,
`PtpUsbSession`): it ends before the lock is dropped because its fields are declared in that
order. What the vendor's library keeps after its session value is dropped (`FreeSDK` is never
called) is not modelled, nor where the lock file lies, nor the Windows lock.

The run `lock` has three processes, four descriptions and two children each between fork and exec:
`ImplementsLock` (refinement of `LockContract` with `Holder` and a lingering flock); `Freed` (a lock
that nobody holds becomes free). Four descriptions let a third process open the file while two
descriptions of dead ones linger. Fairness, for `Freed` only: `WF(Exec(f))`, a forked child reaches
its exec or dies; between the two it runs the few steps of the standard library's spawn and waits
for nobody.

Proved (`CameraLock_proof`, for any processes, descriptions and children): the type invariant,
`Exclusive` (sessions never overlap), `BusyHasCause` (a taken lock has a live holder or a child on
its way to exec), `ImplementsLock`. The first two follow from the contract and have no run of their
own. The invariant: a process has a description of its own
exactly when it is past the open (`OwnFile`), and holds the lock exactly when its description is the
one granted, which is open (`Granting`).

## SnapshotStore

The files of the snapshots directory for one camera, and processes that make captures (by the CLI,
under any label and uncapped; by a worker, capped), restore points (capped), copies and in-place
edits. A content is a kind (what its label counts as, or "copy") and the set of edits it has. The
steps of `save_new` are apart: stage, fill, publish by a hard link or, where that is refused as
unsupported, by a lookup of the name and a rename; so are those of an edit: read, compare, stage,
fill, rename. `Dies` may come anywhere, `Fails` wherever a system call can fail, `Removed` is the
user.

Abstractions. One camera: counts of cameras do not mix. The count is read at once. A temporary
file of a dead process stays on disk under a name that nobody reads; it is left out, as are
symbolic links and the creation of the directory. Names of copies and of captures are disjoint
(`NamesAssumption`): both contain the second they were made in and their label. A process that
publishes lets go of the lock in the same step; an apply holds it on, which allows less.

- The run `store` has three processes, two names of captures, one of a copy, two edits and links
  that may be refused: `OriginalsAreNeverChanged`, `CapsAreKept`, `OnlyRacingEditsAreLost`,
  `FilesAreWhole`. A cap of one has every case of "room for one more". Two edits are what it takes
  to lose one.
- Two windows are in the code's own comments and in the properties: between an edit's comparison
  and its rename another edit can be lost (`raced`), and where links are refused a name can be taken
  between the lookup and the rename (with `HardLinks` TRUE the theorem has no exception).
- `CapsAreKept` is about a file that is held to the cap. The CLI's `snapshot` looks at no cap and
  takes any label, so its files can take a kind over it; that is in the model.

Proved (`SnapshotStore_proof`, for any processes, files, caps and edits): the type invariant,
`FilesAreWhole`, `OriginalsAreNeverChanged`, `CapsAreKept`, `OnlyRacingEditsAreLost`. `RoomInv` is
the heart: who has counted has room until it publishes. It holds because who counts holds the camera
lock (`JobInv`), whoever publishes a counted file holds it as well, and every other step keeps the
count or lowers it. `OnlyRacingEditsAreLost` is `EditsInv`: an edit past its comparison has in its
text every edit that was written to its file, but for those written since, which are the racing
ones. It is proved for any number of edits of any number of processes.

## ExtendedRestore

The owner strings, the IPTC presets, two switches and the list of FTP profiles are written back over
one raw PTP session (`ops/restore_extended.rs`). A behaviour is a few runs on one body: a restore,
then its undo or another restore. `Ask` plans in a session of its own and shows the plan; `Apply`
reads again and goes on only if the new plan is the one confirmed; `SavePoint` writes what was read
to a file; then `execute` goes through the items in `Order` (`at`), a write each (`WriteRefused`,
`WriteDone`, `WriteUnconfirmed`, `WriteLost`), and through the list one delete and one add at a time
(`left`, `added`); `AfterRead` reads once more and reports.

A trouble is a part that is not read, a command that is refused, ignored or not answered, a death
of the process, or an edit by a person between any two operations. After a trouble the session may
be poisoned (`Fault`), and then it sends nothing more. What the session's own checks see of an edit
(an index past the list, an add that is not at the count) is in the guards of the actions.

Abstractions. A value or a profile is a model value; the ones in `Unsendable` stand for what the
write path refuses (bytes that do not decode, a record of another kind). Profiles that differ in
their time stamps only are one profile. A list in a snapshot may be a part of the body's (`whole`).
A list is rebuilt only where the model's write is confirmed, and, if profiles are stored, its delete
(`MayRebuild`); the run has both, the proofs hold for any. That a camera selects an IPTC preset only
while one is set (`Settable`) comes from a comment of `execute`. The digest is the plan with the
value each line found: that is what the real one hashes.

- `extended_restore`: a string, two preset slots of which the body has one, the selector switch and
  a list of two; two runs and two troubles, of which one may be an edit. Four snapshots reach every
  reason to skip that the plan gives a difference: a partial list, a list that is too long, a
  profile or a value that cannot be sent, an item that is absent. Two runs are a restore and its
  undo; the second trouble is what a failed restore with a failing undo takes. The bounds are on
  runs and troubles alone.

`ReportIsTrue` is of the status: a failed run that says nothing changed changed nothing, and a
verified one holds what it wrote. It, `UndoPutsBack` and `ChangesAreKept` leave out what an edit
changed after the read (`edited`): nobody claims the restore point holds that. `UndoPutsBack` asks
for an undo whose plan skipped nothing: with one write among skipped differences `status_of` says
verified, where a plan with no write at all is failed for the same skips (`zero_write_status`).

Proved (`ExtendedRestore_proof`, for any items, order, values, lists and bounds): the type
invariant, which includes that no step overfills the list, and the five properties. `Order` lists
each simple item once (`ItemsAssumption`): that is the fixed order of `execute`, and an item with
two turns would have two outcomes. `OnlyConfirmedIsReplaced` is not inductive. `PlanIsConfirmed`
says that the plan being executed is the confirmed one, because the apply compares them and nothing
changes either afterwards; `FromIsHeld` says that until a person edits the camera, every item to be
written holds the value its line names or already the new one. The other four are about what a run
knows of what it did (`RunInv`). `PointIsRead`: the restore point is what was read of the body, and
what the run has not touched is as it was. `Progress`: an item has its outcome when its turn has
passed, and none before. `ListWay`: the list is a head of the old one while profiles are deleted,
and a tail of the new one while they are added, which is what keeps the two from mixing in a list of
any length. `UndoWay`: the restore point that an undo puts back holds every item in which the body
differs from the one before the first run.

## PtpSession

The raw session of the program over the two bulk pipes to the body (`ptp_usb.rs`): `OpenSession`
with its one retry, transactions with a command, perhaps data, and a reply, the session's `poisoned`
flag, and the operations that write over it (a property, an IPTC slot, FTP profiles). The pipes keep
what one side sent and the other has not read; the body is slow, and what it still has to do may
happen after the program has given up. A fault is a command or data that does not get through, a
reply that is lost or comes too late, or a death of the process. A body may keep or drop what is
under way when its endpoints are cleared; both are in the model.

Abstractions. A container is its kind, the id of its transaction and, as a ghost, the command it
answers: `clean` and `fresh` are such ghosts and no guard reads them. What is in the data phase, how
the interface is found and claimed and the research probes are left out.

- The run `ptp_session`: three sessions of two operations, three faults. Ids wrap at `MaxId` = 5 as
  the real ones do at 2^32, which no session of the program reaches. `AnswersAreOwn`: no reply is
  taken for that of another transaction. `ReportIsTrue`: a write reported as failed never changed the
  body, nor will it, and one reported as done was acted on. `OpenFailsForCause`: an open that fails
  had a fault or a body that refused. These are of sessions with nothing outstanding (`clean`).
  `LagIsNoticed` is of the one way a session loses that while it runs: `CloseSession` fails, the
  retry of `OpenSession` lifts the poisoning, and the answer to the `CloseSession` comes after all.
  The retry starts the ids again, so that answer, whose id is 0, is taken for the one to the second
  `OpenSession`, and every transaction from then on finds the answer of the one before it. The ids
  tell: a step that enforces them fails and poisons the session, and one that does not notes the
  deviation. Where an operation noted none, it took no other's answer and its report is so.

Proved (`PtpSession_proof`, for any number of sessions, operations and faults, and any wrap): the
type invariant and all four properties. The invariant's heart is `InStep`, which says of a session
that is not poisoned that nothing is in the pipes but what belongs to the transaction under way, and
`WriteInOrder`, which says of a write how far it can have come at every point of its transaction.
For `OpenFailsForCause`, `OpenInOrder` follows the open of a session with nothing outstanding through
its three transactions: the body answers that it is open already, closes, and opens again.
`LagIsNoticed` rests on `LagInv`: once the session has fallen out of step, between two transactions
exactly one whole answer, or the command for it, is outstanding, and it has the last id given
(`LagsAtRest`); in a transaction it is what is read first, under an id that is not the
transaction's (`LagsBusy`), for ids follow one another (`IdsFollow`). So an operation of which every
reply matched has had none yet, and is before its write (`NothingUnnoticed`).

## GuardedWindow

The GUI's transplant and restore windows (`gui/src/guarded.rs`) with the frame they live in. A frame
drains the worker's events, one by one (`CamerasArrive`, `OtherArrives`, `PlanArrives`,
`ApplyArrives`), withdraws what the form no longer asks for (`Sync`), then draws and takes at most
one click. The worker is one thread behind two channels; an apply is a CLI child that goes on if the
thread dies. At its death the thread's end of the command channel goes first, that of the event
channel last, so there is a time in which commands are refused and no end was seen (`closing`).

Abstractions. A plan is the request it answers and the version of the world it was computed from,
which is what its digest stands for; `world` changes when something is written, by hand or by the
child. A selection is made or not. Left out: the ticks of the extended window (it runs the same
stages over the same `guarded.rs`), how a target is picked, the widening of an undo's selection, the
viewers and the windows that cannot write.

- `guarded_window`: both windows, one snapshot and the restore point an apply makes, one row, two
  data directories; one apply, one change of the world, one move to another directory. Each of the
  four properties is about one apply and what comes between its confirmation and its answer; a
  second apply only starts after the first is answered (`Busy`). `WrittenIsApproved`,
  `NotAppliedIsTrue`, `AnswersFindTheirWindow`, `PendingIsExact`.
- `guarded_live`: `WaitsEnd`, no window waits for ever, with the restore window alone (the windows
  are alike in this, and the tableau is smaller). Fairness: of the frame's own steps, `Poll` and
  `NoClick`, as a busy window asks for a frame every second (`request_repaint_after`) and a frame
  ends whether or not something is clicked; of `Serves`, as every command line the worker runs has a
  time limit; of `Closes`, the end of a thread that is unwinding. No click and no event of the world
  is claimed to come.
- `undo_elsewhere`: a finding, see below.

`Unaimed` is empty in the instances: a row a write is refused for only disables buttons.

Proved (`GuardedWindow_proof`, for any windows, snapshots, rows, directories and bounds): the types
and the four properties of `guarded_window`. The invariant follows each apply from its confirmation
as a command, in the worker's hand and as an answer: it is in one place only, the places are in the
order of the ids (`InOrder`), and its window waits. `DirOn` says which directory the worker will be
in when it comes to a command of the queue: that of the settings when the command was sent, because
a change of directory goes through the same channel. `PendingIsExact` counts that queue (`Pended`).
`WaitsEnd` is liveness.

## Parts with a state of their own

Six parts share no state with each other or with the rest. `Parts` is their composition: a behaviour
is one part's, chosen at the start, and the modules' variables are the slots `x1` to `x13`. They are
checked in one run, `parts` (`MCParts` has the values). `Alike` is sound because no module tells its
processes, process ids, servers or binaries apart; `UntilReported` ends a behaviour of `Diagnostics`
when its report is made, which is what its property is about. The deadlock check is off: every part
ends at its bounds.

The proofs (`Parts_proof`) are about `Parts` as well, one chapter per part: the part's invariant
holds of the slots while the behaviour is that part's, and the theorem is about the property the run
checks. Three assumptions are needed. `PartsAssumption`: the ring keeps some entries, and no file's
contents are those of one that is not there or does not parse. `DiagAssumption`: a process id, which
is a number, is none of the names of the other places in `Diagnostics`, and no file is `None`.
`PropertyAssumption`: the values of snapshots and bodies are as the SDK decodes them, see below.

**`FirmwareArchive`**: one entry (`firmware.bin`, its `.part`, the page, `metadata.json`) and two
commands at a time out of fetch, add, pin and the GUI's import, none of which takes a lock, each
step apart; three commands, one fault. `ListedIsTrue`: an entry that lists as archived holds the
binary its metadata describes, but for the named races (`doubts`). `RetryIsNotRefused`: fetches of
one binary never stand in each other's way. `RefusedLeavesNothing`: a command that works alone and
is refused leaves the entry as it found it. Three commands are two that overlap and one that meets
what they left. The download, the archives' own format and symbolic links are left out. Proved for
any binaries, commands, overlaps and faults: all three. `Own` says of a command that works alone
what the files hold at every point of its way, as it found them or as it made them, so that a
refusal can take back exactly what it made; the others, which overlap, are known only to hold their
open files (`Open`), and what they can spoil is a named race. `OneBinary` says that while all were
fetches of one binary, one after the other, the binary on disk is that one or none, and so is the
metadata unless it was cut off in its write.

**`Diagnostics`**: the in-flight and ring files of three processes with two process ids, from
`Diag::new` to an exit or a kill, and a report of one of them. `VerdictIsTrue`: a report does not
call a process that exited cleanly killed, nor the reverse, with the spans that were open.
`PruneSparesRunning`: pruning never removes the file of a process that was running when it looked.
The budgets are three alternatives, since all of it at once is past what can be enumerated: three
processes and a span without a report, which is what pruning and a reused process id take; three
without spans and a report; two with two spans, a failed write and a report, as a report is about
one process and at most one that has its id again. Proved for any processes, ids, reuse of them,
deaths and failed writes, whether or not the system tells when a process started: both. `Owned` says
whose a file is and that a process past its start owns the files under its id; `Told` says what they
tell of it while no file operation failed; `Reported` says that a report has what the files held,
and, while nothing moved, what they hold. That a prune spares who runs is in `Courses`: of the files
it chose, none was owned by a running process. A ring file may be
cut to nothing by a process that dies before its first entry (`start`), or whose recorder stays off
because the trace file could not be opened: such a ring tells no start (`dated`), and a reused id
reads as the process that has it now. Left out: entries after the exit entry, the slack of
a second in the test for a reused process id, fields set while a span is open, the trace file,
temporary files.

**`DiagRing`**: one ring, in memory (two entries) and on disk (up to four lines), six entries of
four ranks, one failing write. `ImportantIsOnDisk`: no failure that memory would keep is missing
from the file. Two entries are enough to evict one of another rank; six are two compactions.
Proved for a ring of any size, any entries and failing writes: an entry of a rank of which there are
few is never the one that goes, because a full ring without it would make them many (`RingCrowd`
counts them), and the file is never behind the memory but for what `excused` names.

**`SessionNote`**: the marker of a lost apply, two servers on one data directory, three lost
applies, one failing file operation. `LostIsNotForgotten`: a recorded loss stays the marker, or in
the hands of a server that will send it, until a client was told. Two servers are what it takes for
one to rename the other's marker. Proved for any servers, losses and faults: the invariant adds
where a note that was taken from the marker is.

**`FtpTest`**: the steps of a server's test over both protocols; the server refuses, fails, answers
late or not at all. `FileIsAccounted`: a file the test may have left is named, except in the two
cases `mistaken` and `refused` describe. Proved whatever the server answers, and when.

**`TransplantPlan`, `SnapshotEdit`**: one property from a capture through an editable copy and its
edits to another body. `TransplantPlan` has the planner's pure functions: the labels in a table of
bytes (`Options`), the match of an option by its label or its code (`EnumFits`, `EnumOut`), the
scale of a range (`RangeFits`, `RangeOut`), when two readings are one position (`RangeValuesAgree`),
the gates and what is said of a change. `SnapshotEdit` composes them: `CopyForEdit`, the edits,
`Transplant` (read the body and plan), `Write` (the body takes the value, ignores it, or lands a
step beside it; a range is read back). `MeaningIsKept`: what is planned means what the snapshot
showed or the last edit asked for, and a range that counts as copied holds it. `ChangesAreTrue`: a
plan that says "no change" leaves the body meaning what it does, one that says "change" does not,
and without the opt-in no raw code or number is a change. What a value means (`Meaning`) is told
from its bytes by a definition of its own, which counts NULs where the planner reads letter by
letter: the planner's functions are not used to judge the planner. The tolerance of a twentieth
of a step around a number that was entered (`IsStill`) is that of the edit.

The instance has 31 values, which are every snapshot and every body: label tables in two orders and
both layouts, with and without the last NUL, with a label that occurs twice, one the SDK did not
resolve and one that is no text; raw codes, one of them twice; one defect of each kind; a stepped
range both ways up, at its top and past it, a continuous one, one without a span, one without steps.
Two edits are one and another over it. Bounds that are also abstractions: scales have whole steps
and positions are whole numbers, so the spelling of numbers and the float tolerances are left out; a
stepped range read back has a meaningless `value`, as the SDK's have. What the tables say of a code
on two models is one of four answers (`gate`), chosen freely. Left out: the reason of a skip, the
sections of the models and their names, edits of texts and lists, the comparison of snapshots.

Proved for tables of any length, order and layout, scales of any whole step, any bodies and any
edits: both properties. The loop of `packed_string_options` is a recursive function here
(`Reading`), so that it can be reasoned about: `OptionsAreTheLabels` says that what it returns at an
index is the label the bytes spell there, by a least counterexample, as the provers have no
induction. The labels end at the NULs, and the n-th NUL is the end of the n-th label (`Ended`,
`IsRun`, `HasRead` in the proof). With it, an option named once on either side keeps its meaning
(`EnumsKeepMeaning`). For ranges, `NearestIs` says that the nearest grid point of a value on the
grid is that point, `AgreeIsSame` that two positions less than half a step apart are one, so a range
that was read back and agrees holds what was planned. `MeaningIsKept` and `ChangesAreTrue` together
are nearly inductive: what `IInv` adds is that the value in the snapshot means what was asked for at
every point of its edits, that an edit leaves it a value a body could hold (`IsGenuine`), and that a
planned range is on the scale of the body it is written to (`SameScale`).

What `PropertyAssumption` asks of the values, and why the code may:
- with one byte per element an element is a letter or a NUL (`IsDecoded`): that is what the layout
  is. Scales have whole steps: an abstraction, named above;
- the codes of a table without a type are numbers, the elements of a packed one strings, so none of
  one equals one of the other (`IsGenuine`). `translate_enum` says so in a comment ("a string label
  never equals a numeric code") and relies on it where one side has no type; `set_enum_value` takes
  a code as a number. The code does not check it: a snapshot made by hand, without a type and with
  strings for codes, could be matched with single letters of a packed table, as a value without a
  type is refused only if it has one byte per element itself. Where both sides have a type nothing
  is assumed of their elements;
- a range that is not stepped holds a number between its ends. `translate_range` clamps, so a
  captured one outside of them would be written as another number.

## Findings

Two places where a comment says more than the code does, each a run that TLC finds violated;
`PROJECT.json` has the quotes.

- `marker_missed`: a server that exits while `writing` is flushed but not yet read leaves no marker
  for an apply that goes on writing.
- `undo_elsewhere`: the undo of a result that is still shown after the data directory was changed is
  planned in the new directory: `start_undo_in` refuses another directory than the apply's, but the
  offer it is given was made with the directory of the moment (`gui/src/guarded.rs`, 452 and 612).

Seen while modelling, and checked by no run:

- a restore writes a range although its live scale could not be read, an undo set can name a
  property that the undo cannot write, and an extended restore deletes a stored FTP profile that
  does not decode, which its undo refuses to write back;
- a worker can flush `writing` between the decision to cancel and the SIGKILL (the call ends as
  indeterminate, although `mcp/src/supervisor.rs` says a cancellation kills only before `writing`);
- `camera_busy` can be the fault of a worker of this very server, abandoned by the call before (the
  same file says it means a holder outside);
- planning and applying a verified transplant again makes another restore point when it has a text
  or a boolean (`src/ops/apply.rs` says a retry is a no-op);
- an extended undo writes in the order of the restore, so it empties the presets before it sets
  their selector back, which the camera may refuse, and what comes after is not attempted;
- a list that was empty and failed among its adds is reported failed, although the comment on
  `ItemOutcome::Failed` knows one exception only, a list that was deleted;
- the import of an archive over an entry whose binary is there and whose metadata is not completes
  it with the binary it found, although `gui/src/main.rs` says an entry is imported only whole; two
  ingests of one version share `firmware.bin.part`; and a death in `save_meta` leaves a
  `metadata.json` that no later ingest repairs;
- an operation leaves the in-flight file before it enters the ring, so a report made between the two
  finds it in neither and calls the process killed between operations; a prune that looks before a
  process has made its file can remove it after;
- the acknowledgment of a note renames whatever marker is there, so a later one can be marked seen
  untold, and a result that is not sent after the rename loses the note (the doc says "renamed to
  once a session has been told about it");
- the FTP test can take a late `250` of the transfer it gave up for the answer to its delete, and
  takes an upload that was denied to have left nothing.

## What is proved and what is only checked

TLAPS proves safety for every value of the constants, under the assumptions named in the modules
(`...Assumption`), which TLC evaluates in every run. Its theorems are listed in `PROJECT.json`.

Every safety and action property of the passing runs is a theorem, and so are the two refinements.
Checked on the instances only is liveness, which is out of the prover's reach: `CallsAreAnswered`,
`Freed`, `WaitsEnd`.

The bounds on faults, runs, commands and edits, and the sets of processes, values and files are what
the theorems do without; what they keep is the models' abstractions, named with each model.

## Not modelled

- *The extended section's comparison and layout* (`extended_diff.rs`, `extended_restore_input.rs`,
  the decoders in `ptp_usb.rs`): byte layouts and pure comparisons. `ExtendedRestore` has what they
  answer.
- *Edits of the extended section* (owner texts, IPTC presets, `ftp_edit.rs`): planned as
  `ProfileList`.
- *Tables and names* (`code_policy.rs`, `range_policy.rs`, `maid_layer.rs`): data; every answer they
  can give is a choice of the models. `diff.rs` compares two stored snapshots and decides no write.
- *Property sweep* (`prop_sweep.rs`): a loop that reads and gives up. It writes nothing; planned
  last.
- *SDK bridge* (`sdk.rs`): calls into a closed library, whose behaviour is the environment of the
  models.
- *GUI drawing and forms*: what a click does to the worker is in `GuardedWindow`, what is drawn is
  not. The extended window runs the same stages, with a tick for each line.
- *Command line, views, rendering, MCP guidance*: argument parsing and text.
- *The download, the pages of the sources and the embedded browser* of the firmware archive: the
  network's answers are a choice of `FirmwareArchive`.
