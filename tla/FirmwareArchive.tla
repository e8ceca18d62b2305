-------------------------- MODULE FirmwareArchive --------------------------
(***************************************************************************)
(* One entry of the firmware archive, `firmware/<model>/<version>/`, and   *)
(* the processes that write it: the ingest behind a fetch (firmware.rs,    *)
(* `ingest_bundle`), `fleet firmware add` and `pin` (main.rs), and the     *)
(* import of an exported archive (gui main.rs, `import_archive`).  None of *)
(* them takes a lock, each writes three files one after the other, and any *)
(* of them can fail or die between two steps.                              *)
(*                                                                         *)
(* A file's contents are two halves, so that a partial file and one that   *)
(* two writers mixed are told apart from a whole one; a file that is       *)
(* renamed or removed takes its open descriptors with it.                  *)
(***************************************************************************)
EXTENDS Naturals, FiniteSets

CONSTANTS
    Procs,      \* processes that may work on the entry
    Bytes,      \* firmware binaries; a binary stands for its SHA-256 too
    Absent,     \* no such file
    Torn,       \* a metadata.json that is cut off: it does not parse
    Hole,       \* a half that was not written
    MaxStarts,  \* commands begun (a bound)
    MaxFaults   \* writes that fail and processes that die (a bound)

VARIABLES
    bin,        \* firmware.bin: Absent or its two halves
    part,       \* firmware.bin.part
    page,       \* source-page.html: "none", "torn" or "whole"
    meta,       \* metadata.json: Absent, Torn, or the binary whose digest it states
    work,       \* the command each process runs, or ran last
    starts, faults,
    begun,      \* history: Absent, the one binary all commands fetched, or Torn if there is none
    doubts      \* history: what happened that may leave a false entry

vars == <<bin, part, page, meta, work, starts, faults, begun, doubts>>

Commands == {"fetch", "add", "import", "pin"}
Whole(b) == <<b, b>>
Empty == <<Hole, Hole>>
Contents == {Absent} \cup ((Bytes \cup {Hole}) \X (Bytes \cup {Hole}))

Steps == {"idle", "look", "bin", "copy", "write", "check", "page", "page2", "rename", "meta", "meta2"}
Ends == {"none", "died", "io", "corrupt", "lost", "checksum", "content", "incomplete", "refused",
         "rejected", "aborted", "present", "archived"}
Nothing == [kind |-> "pin", src |-> Absent, sha |-> Absent, pc |-> "idle", fd |-> "none", n |-> 0,
            adopt |-> FALSE, made |-> {}, found |-> <<Absent, "none", Absent>>, solo |-> TRUE, end |-> "none"]

Active == {p \in Procs : work[p].pc # "idle"}
At(p, kinds, pc) == work[p].kind \in kinds /\ work[p].pc = pc

Init ==
    /\ bin = Absent /\ part = Absent /\ page = "none" /\ meta = Absent
    /\ work = [p \in Procs |-> Nothing]
    /\ starts = 0 /\ faults = 0 /\ begun = Absent /\ doubts = {}

\* A step of p's own: its command goes on at pc, or ends.
Goes(p, pc) == work' = [work EXCEPT ![p].pc = pc]
Ended(end) == [Nothing EXCEPT !.end = end]
Finishes(p, end) == work' = [work EXCEPT ![p] = Ended(end)]
Faulty == faults < MaxFaults /\ faults' = faults + 1
Sound == faults' = faults

\* A command begins; src is the file it copies, sha the digest its metadata will state.  They
\* differ only in an exported archive whose binary is not the one it describes.
Begin(p, kind, src, sha) ==
    /\ work[p].pc = "idle" /\ starts < MaxStarts /\ starts' = starts + 1
    /\ src = sha \/ kind = "import"
    /\ work' = [q \in Procs |->
                  IF q = p THEN [Nothing EXCEPT !.kind = kind, !.src = src, !.sha = sha, !.pc = "look",
                                                !.found = <<bin, page, meta>>, !.solo = Active = {}]
                  ELSE [work[q] EXCEPT !.solo = @ /\ q \notin Active]]
    /\ begun' = IF kind = "fetch" /\ begun \in {Absent, src} THEN src ELSE Torn
    /\ doubts' = IF Active = {} THEN doubts ELSE doubts \cup {"overlap"}
    /\ UNCHANGED <<bin, part, page, meta, faults>>

\* ingest_bundle: an entry with metadata is compared, never replaced.
Judge(p) ==
    IF meta = Torn THEN "corrupt"
    ELSE IF bin = Absent THEN "lost"
    ELSE IF bin # Whole(meta) THEN "checksum"
    ELSE IF meta = work[p].sha THEN "present" ELSE "content"

FetchLook(p) ==
    /\ At(p, {"fetch"}, "look")
    /\ IF meta = Absent THEN Goes(p, "bin") ELSE Finishes(p, Judge(p))
    /\ Sound /\ UNCHANGED <<bin, part, page, meta, starts, begun, doubts>>

\* Plausible bug: a binary left without metadata is adopted whatever it is.
FetchBinAny(p) ==
    /\ At(p, {"fetch"}, "bin")
    /\ IF bin = Absent THEN Goes(p, "copy")
       ELSE work' = [work EXCEPT ![p] = [@ EXCEPT !.pc = "page", !.adopt = TRUE]]
    /\ Sound /\ UNCHANGED <<bin, part, page, meta, starts, begun, doubts>>

\* A binary without metadata is completed only if it is the one being archived.
FetchBin(p) ==
    /\ At(p, {"fetch"}, "bin")
    /\ IF bin = Absent THEN Goes(p, "copy")
       ELSE IF bin = Whole(work[p].sha)
            THEN work' = [work EXCEPT ![p] = [@ EXCEPT !.pc = "page", !.adopt = TRUE]]
            ELSE Finishes(p, "incomplete")
    /\ Sound /\ UNCHANGED <<bin, part, page, meta, starts, begun, doubts>>

\* add: an archived version is refused unless --force was given.
AddLook(p) ==
    /\ At(p, {"add"}, "look")
    /\ \/ Goes(p, "copy")
       \/ meta # Absent /\ Finishes(p, "refused")
    /\ Sound /\ UNCHANGED <<bin, part, page, meta, starts, begun, doubts>>

\* import_one: a file that is there, or an entry with metadata, is left as it is.
ImportLook(p) ==
    /\ At(p, {"import"}, "look")
    /\ IF meta # Absent THEN Finishes(p, "present") /\ UNCHANGED doubts
       ELSE IF bin # Absent THEN Goes(p, "page") /\ doubts' = doubts \cup {"leftover"}
       ELSE UNCHANGED doubts /\ (Goes(p, "copy") \/ Finishes(p, "rejected"))
    /\ Sound /\ UNCHANGED <<bin, part, page, meta, starts, begun>>

\* pin reads the metadata and writes it back with the snapshot's path in it.
PinLook(p) ==
    /\ At(p, {"pin"}, "look")
    /\ IF meta \in Bytes THEN work' = [work EXCEPT ![p] = [@ EXCEPT !.pc = "meta", !.sha = meta]]
       ELSE Finishes(p, "refused")
    /\ Sound /\ UNCHANGED <<bin, part, page, meta, starts, begun, doubts>>

\* Plausible bug: a fetch copies to firmware.bin itself.
OpensPartNever(p) == FALSE

\* The copy opens its target: cut to nothing if it is there (fs::copy), or only if it is not
\* (create_new, the import; someone else's file is then left alone).
OpensPart(p) == work[p].kind = "fetch"
OpenCopy(p) ==
    /\ work[p].pc = "copy" /\ Sound
    /\ IF work[p].kind = "import" /\ bin # Absent
       THEN Goes(p, "page") /\ UNCHANGED <<bin, part>>
       ELSE /\ IF OpensPart(p) THEN part' = Empty /\ UNCHANGED bin ELSE bin' = Empty /\ UNCHANGED part
            /\ work' = [work EXCEPT ![p] = [@ EXCEPT !.pc = "write",
                                              !.fd = IF OpensPart(p) THEN "part" ELSE "bin"]]
    /\ doubts' = doubts \cup (IF work[p].kind = "add" /\ meta # Absent THEN {"force"} ELSE {})
                        \cup (IF work[p].kind = "import" /\ bin # Absent THEN {"leftover"} ELSE {})
    /\ UNCHANGED <<page, meta, starts, begun>>

Written(p, file) == [file EXCEPT ![work[p].n + 1] = work[p].src]
WriteHalf(p) ==
    /\ work[p].pc = "write" /\ Sound
    /\ part' = IF work[p].fd = "part" THEN Written(p, part) ELSE part
    /\ bin' = IF work[p].fd = "bin" THEN Written(p, bin) ELSE bin
    /\ work' = [work EXCEPT ![p] = IF @.n = 0 THEN [@ EXCEPT !.n = 1]
                                   ELSE [@ EXCEPT !.n = 2, !.fd = "none", !.pc = "check"]]
    /\ UNCHANGED <<page, meta, starts, begun, doubts>>

\* A name is removed: whoever has the file open writes on into a file nobody sees.
Unlinked(p, name, end) ==
    work' = [q \in Procs |->
        IF q = p THEN Ended(end) ELSE [work[q] EXCEPT !.fd = IF @ = name THEN "gone" ELSE @]]
DropsPart(p, end) == part' = Absent /\ Unlinked(p, "part", end) /\ UNCHANGED bin
DropsBin(p, end) == bin' = Absent /\ Unlinked(p, "bin", end) /\ UNCHANGED part

\* The copy fails: a fetch drops the staged file, an import the file it made, add leaves its own.
WriteFails(p) ==
    /\ work[p].pc = "write" /\ Faulty
    /\ CASE work[p].kind = "fetch" -> DropsPart(p, "io")
         [] work[p].kind = "import" -> DropsBin(p, "aborted") \/ DropsBin(p, "rejected")
         [] OTHER -> Finishes(p, "io") /\ UNCHANGED <<bin, part>>
    /\ UNCHANGED <<page, meta, starts, begun, doubts>>

\* A fetch hashes the staged copy, an import what it wrote; add trusts its copy.
FetchCheck(p) ==
    /\ At(p, {"fetch"}, "check") /\ Sound
    /\ IF part = Whole(work[p].sha) THEN Goes(p, "page") /\ UNCHANGED <<bin, part>>
       ELSE IF part = Absent THEN Finishes(p, "io") /\ UNCHANGED <<bin, part>>
       ELSE DropsPart(p, "checksum")
    /\ UNCHANGED <<page, meta, starts, begun, doubts>>

ImportCheck(p) ==
    /\ At(p, {"import"}, "check") /\ Sound
    /\ IF bin = Whole(work[p].sha)
       THEN /\ work' = [work EXCEPT ![p] = [@ EXCEPT !.pc = "page", !.made = {"bin"}]]
            /\ UNCHANGED <<bin, part>>
       ELSE IF bin = Absent THEN Finishes(p, "aborted") /\ UNCHANGED <<bin, part>>
       ELSE DropsBin(p, "rejected")
    /\ UNCHANGED <<page, meta, starts, begun, doubts>>

AddCheck(p) ==
    /\ At(p, {"add"}, "check") /\ Sound
    /\ Goes(p, "meta")
    /\ UNCHANGED <<bin, part, page, meta, starts, begun, doubts>>

AfterPage(p) ==
    IF work[p].kind = "import" \/ work[p].adopt THEN "meta" ELSE "rename"

\* The source page: there may be none, and an import keeps one that is there.
SkipPage(p) ==
    /\ work[p].pc = "page" /\ Sound
    /\ Goes(p, AfterPage(p))
    /\ UNCHANGED <<bin, part, page, meta, starts, begun, doubts>>

OpenPage(p) ==
    /\ work[p].pc = "page" /\ Sound
    /\ work[p].kind = "import" => page = "none" /\ meta = Absent
    /\ page' = "torn"
    /\ Goes(p, "page2")
    /\ UNCHANGED <<bin, part, meta, starts, begun, doubts>>

ClosePage(p) ==
    /\ work[p].pc = "page2" /\ Sound
    /\ page' = "whole"
    /\ work' = [work EXCEPT ![p] = [work[p] EXCEPT !.pc = AfterPage(p), !.made = @ \cup {"page"}]]
    /\ UNCHANGED <<bin, part, meta, starts, begun, doubts>>

PageFails(p) ==
    /\ work[p].pc = "page2" /\ Faulty
    /\ IF work[p].kind = "import" THEN page' = "none" /\ Finishes(p, "aborted") /\ UNCHANGED <<bin, part>>
       ELSE IF work[p].adopt THEN Finishes(p, "io") /\ UNCHANGED <<bin, part, page>>
       ELSE DropsPart(p, "io") /\ UNCHANGED page
    /\ UNCHANGED <<meta, starts, begun, doubts>>

\* Plausible bug: only the binary is taken back, and the page of the rejected entry stays.
TakesBackBinary(p) ==
    /\ bin' = IF "bin" \in work[p].made THEN Absent ELSE bin
    /\ Unlinked(p, IF "bin" \in work[p].made THEN "bin" ELSE "none", "rejected")
    /\ UNCHANGED page

\* import_archive: a page or metadata that is rejected (unreadable, or over a limit) takes back
\* what this import wrote of the entry; a file that is gone by then stops the import.
TakesBack(p) ==
    LET made == work[p].made
        stuck == "bin" \in made /\ bin = Absent
    IN  /\ bin' = IF "bin" \in made THEN Absent ELSE bin
        /\ page' = IF "page" \in made /\ ~stuck THEN "none" ELSE page
        /\ Unlinked(p, IF "bin" \in made THEN "bin" ELSE "none", IF stuck THEN "aborted" ELSE "rejected")
ImportRejects(p) ==
    /\ work[p].kind = "import" /\ work[p].pc \in {"page", "meta"} /\ Sound
    /\ meta = Absent
    /\ work[p].pc = "page" => page = "none"
    /\ TakesBack(p)
    /\ UNCHANGED <<part, meta, starts, begun, doubts>>

\* The staged copy becomes firmware.bin; whoever has it open writes on into firmware.bin.
Rename(p) ==
    /\ work[p].pc = "rename" /\ Sound
    /\ IF part = Absent THEN Finishes(p, "io") /\ UNCHANGED <<bin, part>>
       ELSE /\ bin' = part /\ part' = Absent
            /\ work' = [q \in Procs |->
                 IF q = p THEN [work[p] EXCEPT !.pc = "meta"]
                 ELSE [work[q] EXCEPT !.fd = CASE @ = "part" -> "bin" [] @ = "bin" -> "gone" [] OTHER -> @]]
    /\ UNCHANGED <<page, meta, starts, begun, doubts>>

\* save_meta writes in place; the import creates the file or keeps the one that is there.
OpenMeta(p) ==
    /\ work[p].pc = "meta" /\ Sound
    /\ IF work[p].kind = "import" /\ meta # Absent THEN Finishes(p, "present") /\ UNCHANGED meta
       ELSE meta' = Torn /\ Goes(p, "meta2")
    /\ UNCHANGED <<bin, part, page, starts, begun, doubts>>

CloseMeta(p) ==
    /\ work[p].pc = "meta2" /\ Sound
    /\ meta' = work[p].sha
    /\ Finishes(p, "archived")
    /\ UNCHANGED <<bin, part, page, starts, begun, doubts>>

MetaFails(p) ==
    /\ work[p].pc = "meta2" /\ Faulty
    /\ IF work[p].kind = "import" THEN meta' = Absent /\ Finishes(p, "aborted")
       ELSE Finishes(p, "io") /\ UNCHANGED meta
    /\ UNCHANGED <<bin, part, page, starts, begun, doubts>>

\* The process dies where it stands; what it wrote stays.
Dies(p) ==
    /\ work[p].pc # "idle" /\ Faulty
    /\ Finishes(p, "died")
    /\ UNCHANGED <<bin, part, page, meta, starts, begun, doubts>>

Next == \E p \in Procs :
    \/ \E kind \in Commands, src \in Bytes, sha \in Bytes : Begin(p, kind, src, sha)
    \/ FetchLook(p) \/ FetchBin(p) \/ AddLook(p) \/ ImportLook(p) \/ PinLook(p)
    \/ OpenCopy(p) \/ WriteHalf(p) \/ WriteFails(p)
    \/ FetchCheck(p) \/ ImportCheck(p) \/ AddCheck(p)
    \/ SkipPage(p) \/ OpenPage(p) \/ ClosePage(p) \/ PageFails(p) \/ ImportRejects(p)
    \/ Rename(p) \/ OpenMeta(p) \/ CloseMeta(p) \/ MetaFails(p) \/ Dies(p)

Spec == Init /\ [][Next]_vars

-----------------------------------------------------------------------------
TypeOK ==
    /\ bin \in Contents /\ part \in Contents
    /\ page \in {"none", "torn", "whole"}
    /\ meta \in {Absent, Torn} \cup Bytes
    /\ \A p \in Procs : work[p].pc \in Steps /\ work[p].end \in Ends /\ work[p].n \in 0..2
    /\ doubts \subseteq {"overlap", "force", "leftover"}

\* An entry that lists as archived, with a binary that is not the one its metadata describes
\* (scan_archives lists it with the recorded digest and does not hash the file).
False(b, m) == m \in Bytes /\ b # Absent /\ b # Whole(m)

\* Whatever fails or dies between two steps, a listed entry holds the binary its metadata
\* describes, unless two commands worked on the entry at once, an archived version was
\* overwritten with --force, or an import met a binary left without metadata
\* (ingest_bundle's order of the three files, and its rule for a binary without metadata).
ListedIsTrue == False(bin, meta) => doubts # {}

\* Fetches of one binary, however often they fail or die, never stand in each other's way: one
\* that works alone is never refused for what another left (`.part` files are overwritten, a
\* binary without metadata is completed), but for a metadata.json cut off in its write.
RetryIsNotRefused ==
    begun \in Bytes /\ "overlap" \notin doubts
    => \A p \in Procs : work[p].end \notin {"checksum", "content", "incomplete", "lost"}

\* A command that works alone and is refused leaves the entry's files as it found them: an
\* import takes back what it created (import_archive), and a binary that is not the one being
\* archived is "never adopted, never replaced" (ingest_bundle).
Refusals == {"corrupt", "lost", "checksum", "content", "incomplete", "refused", "rejected"}
RefusalLeavesNothing ==
    \A p \in Active :
        work[p].solo /\ work'[p].end \in Refusals => <<bin', page', meta'>> = work[p].found
RefusedLeavesNothing == [][RefusalLeavesNothing]_vars

-----------------------------------------------------------------------------
(* The inductive invariant. *)

Jobs == [kind : Commands, src : {Absent} \cup Bytes, sha : {Absent} \cup Bytes, pc : Steps,
         fd : {"none", "part", "bin", "gone"}, n : 0..2, adopt : BOOLEAN, made : SUBSET {"bin", "page"},
         found : Contents \X {"none", "torn", "whole"} \X ({Absent, Torn} \cup Bytes),
         solo : BOOLEAN, end : Ends]
Types ==
    /\ bin \in Contents /\ part \in Contents /\ page \in {"none", "torn", "whole"}
    /\ meta \in {Absent, Torn} \cup Bytes /\ begun \in {Absent, Torn} \cup Bytes
    /\ work \in [Procs -> Jobs]

\* A file that is open is there.
Open == \A p \in Procs :
    /\ work[p].fd = "part" => part # Absent
    /\ work[p].fd = "bin" => bin # Absent
    /\ work[p].pc # "write" => work[p].fd \notin {"part", "bin"}

\* One that works alone is the only one that works, and all do while no two overlapped.
Turns ==
    \A p \in Active :
        /\ work[p].end = "none" /\ {work[p].src, work[p].sha} \subseteq Bytes
        /\ work[p].kind \in {"fetch", "add"} => work[p].src = work[p].sha
        /\ work[p].solo => Active = {p}
        /\ "overlap" \notin doubts => work[p].solo

\* Where a command of a kind can be.
Places(w) ==
    /\ w.kind = "pin" => w.pc \in {"look", "meta", "meta2"}
    /\ w.kind = "add" => w.pc \in {"look", "copy", "write", "check", "meta", "meta2"}
    /\ w.kind = "import" => w.pc \notin {"bin", "rename"}
    /\ w.pc \in {"look", "bin", "copy", "write", "check"} => w.made = {} /\ ~w.adopt
    /\ w.pc \in {"page", "page2"} => w.made \subseteq {"bin"}
    /\ w.pc = "rename" => ~w.adopt
    /\ w.pc \in {"look", "bin", "copy"} => w.n = 0

\* What one that works alone has made of the binary,
Binary(w) ==
    LET file == IF w.kind = "fetch" THEN part ELSE bin IN
    /\ w.pc = "write" => /\ w.fd = (IF w.kind = "fetch" THEN "part" ELSE "bin")
                         /\ (w.n = 0 /\ file = Empty) \/ (w.n = 1 /\ file = <<w.src, Hole>>)
    /\ w.pc = "check" => file = Whole(w.src)
    /\ w.kind = "fetch" /\ w.pc \in {"page", "page2", "rename"} =>
          IF w.adopt THEN bin = Whole(w.sha) ELSE part = Whole(w.sha)
    /\ w.kind \in {"fetch", "add"} /\ w.pc \in {"meta", "meta2"} => bin = Whole(w.sha)
    /\ "bin" \in w.made => bin = Whole(w.sha)

\* of the metadata,
Metadata(w) ==
    /\ w.kind \in {"fetch", "import"} /\ w.pc \notin {"look", "meta2"} => meta = Absent
    /\ w.kind = "pin" /\ w.pc = "meta" => meta = w.sha
    /\ w.pc = "meta2" => meta = Torn

\* and of the files as it found them.
AsFound(w) ==
    /\ w.pc \in {"look", "bin", "copy"} \/ (w.kind = "fetch" /\ w.pc \in {"write", "check"})
          => w.found = <<bin, page, meta>>
    /\ w.kind = "import" /\ w.pc \in {"write", "check"} => w.found = <<Absent, page, meta>>
    /\ w.kind = "import" /\ w.pc \in {"page", "page2", "meta"} =>
          /\ w.found[1] = (IF "bin" \in w.made THEN Absent ELSE bin)
          /\ w.found[2] = (IF "page" \in w.made \/ w.pc = "page2" THEN "none" ELSE page)
          /\ w.found[3] = meta

\* While nothing is in doubt, what is to be described is the binary that will be.
Undoubted(w) ==
    doubts = {} =>
        /\ w.kind = "add" /\ w.pc \in {"write", "check", "meta"} => meta = Absent
        /\ w.kind = "import" /\ w.pc \in {"page", "page2", "meta", "meta2"} => "bin" \in w.made
        /\ w.kind = "pin" /\ w.pc \in {"meta", "meta2"} => bin \in {Absent, Whole(w.sha)}

Own(w) == Places(w) /\ Binary(w) /\ Metadata(w) /\ AsFound(w) /\ Undoubted(w)

\* Fetches of one binary leave nothing but that, and metadata only beside it.
OnlyThat(b) ==
    /\ bin \in {Absent, Whole(b)} /\ meta \in {Absent, Torn, b}
    /\ meta # Absent => bin = Whole(b)
OneBinary ==
    begun # Torn /\ "overlap" \notin doubts =>
        /\ \A p \in Active : work[p].kind = "fetch" /\ work[p].sha = begun
        /\ \A p \in Procs : work[p].end \notin {"checksum", "content", "incomplete", "lost"}
        /\ IF begun = Absent THEN bin = Absent /\ meta = Absent ELSE OnlyThat(begun)

IInv ==
    /\ Types /\ Open /\ Turns /\ OneBinary /\ ListedIsTrue
    /\ \A p \in Active : work[p].solo => Own(work[p])
=============================================================================
