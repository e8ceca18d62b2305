------------------------------- MODULE Parts -------------------------------
(***************************************************************************)
(* The parts that share no state with each other, in one specification: an *)
(* entry of the firmware archive, the diagnostics files of several         *)
(* processes, the ring of one, the marker of a lost apply, the test file   *)
(* on an FTP server and a property on its way from a snapshot to another   *)
(* body.  A behaviour is one part's, chosen at the start, and its          *)
(* variables are the x1, x2, ... (a part with fewer leaves the last ones   *)
(* alone).                                                                 *)
(***************************************************************************)
EXTENDS Integers, FiniteSets, Sequences

CONSTANTS
    Writers, Binaries, MaxStarts,                       \* FirmwareArchive
    Processes, Pids, Keep, CanTellStart, Budgets,       \* Diagnostics
    Cap, MaxEntries,                                    \* DiagRing
    Servers, MaxLost,                                   \* SessionNote
    Protocols,                                          \* FtpTest
    Odd, Unresolved, Letters, Captured, Answered, Codes, Positions, Numbers, MaxEdits,  \* SnapshotEdit
    MaxFaults, None, Absent, Torn, Hole, Spans, Elsewhere

\* The ring keeps some entries (MIN_RING_CAP); no number is None, and no file's contents are those
\* of a file that is not there or of one that does not parse.
ASSUME PartsAssumption ==
    /\ Cap \in Nat \ {0} /\ None \notin Nat
    /\ Absent \notin Binaries \cup {Torn} /\ Absent \notin (Binaries \cup {Hole}) \X (Binaries \cup {Hole})
    /\ Torn \notin Binaries

VARIABLES part, x1, x2, x3, x4, x5, x6, x7, x8, x9, x10, x11, x12, x13
vars == <<part, x1, x2, x3, x4, x5, x6, x7, x8, x9, x10, x11, x12, x13>>

Firmware == INSTANCE FirmwareArchive
    WITH Procs <- Writers, Bytes <- Binaries,
         bin <- x1, part <- x2, page <- x3, meta <- x4, work <- x5, starts <- x6,
         faults <- x7, begun <- x8, doubts <- x9
Diag == INSTANCE Diagnostics
    WITH Procs <- Processes,
         life <- x1, pid <- x2, pc <- x3, open <- x4, said <- x5, inflight <- x6,
         ring <- x7, linked <- x8, prunes <- x9, robbed <- x10, report <- x11, budget <- x12,
         faulted <- x13
Ring == INSTANCE DiagRing
    WITH ring <- x1, file <- x2, handle <- x3, torn <- x4, lines <- x5, ever <- x6,
         excused <- x7, faults <- x8
Session == INSTANCE SessionNote
    WITH Nothing <- None,
         marker <- x1, seen <- x2, state <- x3, note <- x4, hand <- x5, shown <- x6,
         step <- x7, lost <- x8, told <- x9, excused <- x10, faults <- x11
Server == INSTANCE FtpTest
    WITH protocol <- x1, fileCheck <- x2, at <- x3, outcome <- x4, refused <- x5,
         file <- x6, late <- x7, named <- x8, mistaken <- x9
Property == INSTANCE SnapshotEdit
    WITH value <- x1, gate <- x2, editable <- x3, edits <- x4, asked <- x5, body <- x6, plan <- x7

\* A pid is a number: none of the other places of Diagnostics, nor None, which is no file either.
ASSUME DiagAssumption ==
    /\ Pids \cap Diag!Places = {}
    /\ None \notin Pids \cup Diag!InFiles \cup Diag!RingFiles

\* Values are as a body and its snapshots hold them; None is no number and no label.
ASSUME PropertyAssumption ==
    /\ None \notin Int /\ None \notin Seq(Letters) /\ Numbers \subseteq Int
    /\ \A v \in Captured : Property!IsGenuine(v)
    /\ \A b \in Answered : Property!IsDecoded(b)

Init ==
    \/ part = "firmware" /\ Firmware!Init /\ x10 = 0 /\ x11 = 0 /\ x12 = 0 /\ x13 = 0
    \/ part = "diag" /\ Diag!Init
    \/ part = "ring" /\ Ring!Init /\ x9 = 0 /\ x10 = 0 /\ x11 = 0 /\ x12 = 0 /\ x13 = 0
    \/ part = "session" /\ Session!Init /\ x12 = 0 /\ x13 = 0
    \/ part = "server" /\ Server!Init /\ x10 = 0 /\ x11 = 0 /\ x12 = 0 /\ x13 = 0
    \/ part = "property" /\ Property!Init /\ x8 = 0 /\ x9 = 0 /\ x10 = 0 /\ x11 = 0 /\ x12 = 0 /\ x13 = 0

FirmwareStep == part = "firmware" /\ Firmware!Next /\ UNCHANGED <<part, x10, x11, x12, x13>>
DiagStep == part = "diag" /\ Diag!Next /\ UNCHANGED <<part>>
RingStep == part = "ring" /\ Ring!Next /\ UNCHANGED <<part, x9, x10, x11, x12, x13>>
SessionStep == part = "session" /\ Session!Next /\ UNCHANGED <<part, x12, x13>>
ServerStep == part = "server" /\ Server!Next /\ UNCHANGED <<part, x10, x11, x12, x13>>
PropertyStep == part = "property" /\ Property!Next /\ UNCHANGED <<part, x8, x9, x10, x11, x12, x13>>

Next == FirmwareStep \/ DiagStep \/ RingStep \/ SessionStep \/ ServerStep \/ PropertyStep
Spec == Init /\ [][Next]_vars

-----------------------------------------------------------------------------
\* The properties of the parts, each explained in its module.

\* A firmware entry that lists as archived holds the binary its metadata describes (ingest_bundle).
ListedIsTrue == part = "firmware" => Firmware!ListedIsTrue

\* Fetches of one binary never stand in each other's way (ingest_bundle).
RetryIsNotRefused == part = "firmware" => Firmware!RetryIsNotRefused

\* A command that is refused leaves the entry as it found it (import_archive, ingest_bundle).
RefusedLeavesNothing == [][part = "firmware" => Firmware!RefusalLeavesNothing]_vars

\* What a report says of a process was so (diag.rs, verdict).
VerdictIsTrue == part = "diag" => Diag!VerdictIsTrue

\* A prune spares the processes that run (diag.rs, prune_with).
PruneSparesRunning == [][part = "diag" => Diag!SparesRunning]_vars

\* Routine entries push no failure out of the ring file (diag.rs, push and compact).
ImportantIsOnDisk == part = "ring" => Ring!ImportantIsOnDisk

\* A recorded lost apply waits until a client was told of it (server.rs, report_previous_session).
LostIsNotForgotten == part = "session" => Session!LostIsNotForgotten

\* A file the test may have left on the server is named (ftp_test.rs, run_test).
FileIsAccounted == part = "server" => Server!FileIsAccounted

\* A transplant writes what the snapshot showed or the edit asked for (transplant.rs, snapshot_edit.rs).
MeaningIsKept == part = "property" => Property!MeaningIsKept

\* What a plan says of a change is so (transplant.rs, write_changes and the gates).
ChangesAreTrue == part = "property" => Property!ChangesAreTrue
=============================================================================
