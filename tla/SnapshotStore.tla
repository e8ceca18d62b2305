---------------------------- MODULE SnapshotStore ----------------------------
(***************************************************************************)
(* The snapshots directory and the processes that write to it: captures    *)
(* (src/ops/capture_snapshot.rs, cmd_snapshot of src/main.rs), restore     *)
(* points (src/ops/apply.rs, src/ops/restore_extended.rs), edited copies   *)
(* (src/ops/edit_snapshot.rs), the caps of src/ops/retention.rs, and the   *)
(* two ways a file is written: save_new and save_to_file (src/snapshot.rs, *)
(* src/ops/paths.rs).                                                      *)
(*                                                                         *)
(* Captures and restore points are made under the camera lock; edits are   *)
(* made under no lock.  A process may die anywhere.  The user may remove   *)
(* files by hand.                                                          *)
(***************************************************************************)
EXTENDS Naturals, FiniteSets

CONSTANTS
    Procs,         \* CLI, GUI and MCP worker processes
    CaptureNames,  \* file names of captures and restore points
    CopyNames,     \* file names of edited copies
    Cap,           \* the cap on each kind of counted file, for the one camera
    HardLinks,     \* whether the file system never refuses a hard link as unsupported
    MaxEdits,      \* edits made in one behaviour
    Nobody, NoFile, Torn

Names == CaptureNames \cup CopyNames

ASSUME NamesAssumption ==
    IsFiniteSet(Names) /\ CaptureNames \cap CopyNames = {}
ASSUME StoreAssumption ==
    Nobody \notin Procs /\ Cap \in Nat /\ MaxEdits \in Nat /\ HardLinks \in BOOLEAN

\* What a label marks (kind_of_label): an MCP capture, a restore point, or nothing;
\* a copy's label never is a counted one.
Counted == {"capture", "point"}
Content == [kind : Counted \cup {"plain", "copy"}, edits : SUBSET (1..MaxEdits)]
ASSUME SpecialAssumption == NoFile \notin Content /\ Torn \notin Content /\ NoFile # Torn

VARIABLES
    disk,    \* disk[n]: the content of file n, Torn if not all of it, or NoFile
    pc,      \* pc[p]: where process p is
    name,    \* name[p]: the file it is making or editing, or NoFile
    text,    \* text[p]: the content it is to write; for an edit, first the one it read
    capped,  \* capped[p]: it holds its file to the cap (a capture of the CLI is not)
    temp,    \* temp[p]: its temporary file: NoFile, Torn or a content
    lock,    \* the process with the camera lock, or Nobody
    edits,   \* edits made so far
    kept,    \* <<e, n>>: edit e was written to file n, which has not been removed since
    raced    \* edits written while another edit of the file was past its comparison

vars == <<disk, pc, name, text, capped, temp, lock, edits, kept, raced>>

NoText == [kind |-> "plain", edits |-> {}]

Init ==
    /\ disk = [n \in Names |-> NoFile]
    /\ pc = [p \in Procs |-> "idle"]
    /\ name = [p \in Procs |-> NoFile]
    /\ text = [p \in Procs |-> NoText]
    /\ capped = [p \in Procs |-> FALSE]
    /\ temp = [p \in Procs |-> NoFile]
    /\ lock = Nobody
    /\ edits = 0
    /\ kept = {}
    /\ raced = {}

Goto(p, next) == pc' = [pc EXCEPT ![p] = next]

Job(p, n, c, isCapped) ==
    /\ name' = [name EXCEPT ![p] = n]
    /\ text' = [text EXCEPT ![p] = c]
    /\ capped' = [capped EXCEPT ![p] = isCapped]

\* The call returns, or the process dies: its lock is free, what it staged is no file of the store.
Ends(p) ==
    /\ Goto(p, "idle")
    /\ Job(p, NoFile, NoText, FALSE)
    /\ temp' = [temp EXCEPT ![p] = NoFile]
    /\ lock' = IF lock = p THEN Nobody ELSE lock

-----------------------------------------------------------------------------
(* Captures, restore points and copies. *)

\* Plausible bug: the files are counted without the camera lock.
StartUnlocked(p) ==
    /\ pc[p] = "idle"
    /\ \E n \in CaptureNames, k \in Counted : Job(p, n, [kind |-> k, edits |-> {}], TRUE)
    /\ Goto(p, "locked")
    /\ UNCHANGED <<disk, temp, lock, edits, kept, raced>>

\* A capture or an apply begins: the camera lock first, a refusal if it is held.
\* The CLI takes any label for a capture, also one that counts, and does not look at the cap.
Start(p) ==
    /\ pc[p] = "idle"
    /\ lock = Nobody
    /\ lock' = p
    /\ \E n \in CaptureNames, k \in Counted \cup {"plain"}, isCapped \in BOOLEAN :
          /\ k = "plain" => ~isCapped
          /\ Job(p, n, [kind |-> k, edits |-> {}], isCapped)
    /\ Goto(p, "locked")
    /\ UNCHANGED <<disk, temp, edits, kept, raced>>

\* count_for_camera: the readable files with such a label, by their content.
Those(kind) == {n \in Names : disk[n] \notin {NoFile, Torn} /\ disk[n].kind = kind}
CountOf(kind) == Cardinality(Those(kind))

HasRoom(kind) == CountOf(kind) < Cap

\* One more file fits under the cap; the camera is read after this.
CountFiles(p) ==
    /\ pc[p] = "locked"
    /\ capped[p] => HasRoom(text[p].kind)
    /\ Goto(p, "counted")
    /\ UNCHANGED <<disk, name, text, capped, temp, lock, edits, kept, raced>>

\* Refused: at the cap, an incomplete capture, no such file, an apply that is stale, ...
Refuse(p) ==
    /\ pc[p] \in {"locked", "counted", "editing"}
    /\ Ends(p)
    /\ UNCHANGED <<disk, edits, kept, raced>>

\* create_edit_copy: any whole file is copied, its edits included.
Copy(p) ==
    /\ pc[p] = "idle"
    /\ \E source \in Names, n \in CopyNames :
          /\ disk[source] \notin {NoFile, Torn}
          /\ Job(p, n, [kind |-> "copy", edits |-> disk[source].edits], FALSE)
    /\ Goto(p, "counted")
    /\ UNCHANGED <<disk, temp, lock, edits, kept, raced>>

\* The temporary file is created, under a name no lister looks at; ...
Stage(p) ==
    /\ pc[p] \in {"counted", "compared"}
    /\ temp' = [temp EXCEPT ![p] = Torn]
    /\ Goto(p, IF pc[p] = "counted" THEN "staging" ELSE "restaging")
    /\ UNCHANGED <<disk, name, text, capped, lock, edits, kept, raced>>

\* Plausible bug: a write that fails half way is not noticed.
FillHalf(p) ==
    /\ pc[p] \in {"staging", "restaging"}
    /\ \/ temp' = [temp EXCEPT ![p] = text[p]]
       \/ UNCHANGED temp
    /\ Goto(p, IF pc[p] = "staging" THEN "staged" ELSE "restaged")
    /\ UNCHANGED <<disk, name, text, capped, lock, edits, kept, raced>>

\* ... filled and synced.
Fill(p) ==
    /\ pc[p] \in {"staging", "restaging"}
    /\ temp' = [temp EXCEPT ![p] = text[p]]
    /\ Goto(p, IF pc[p] = "staging" THEN "staged" ELSE "restaged")
    /\ UNCHANGED <<disk, name, text, capped, lock, edits, kept, raced>>

\* A step of save_new or write_atomic fails: the temporary file is removed, nothing is published.
Fails(p) ==
    /\ pc[p] \in {"counted", "staging", "staged", "free", "compared", "restaging", "restaged"}
    /\ Ends(p)
    /\ UNCHANGED <<disk, edits, kept, raced>>

\* The file gets its name.
Publish(p) ==
    /\ disk' = [disk EXCEPT ![name[p]] = temp[p]]
    /\ Ends(p)
    /\ UNCHANGED edits

\* Plausible bug: the staged file is renamed over whatever has the name.
LinkReplaces(p) ==
    /\ pc[p] = "staged"
    /\ Publish(p)
    /\ UNCHANGED <<kept, raced>>

\* save_new: a hard link, which fails if the name is taken.
Link(p) ==
    /\ pc[p] = "staged"
    /\ disk[name[p]] = NoFile
    /\ Publish(p)
    /\ UNCHANGED <<kept, raced>>

\* Where the link is refused as unsupported (no hard links here, or too many): the name is looked
\* up ...
CheckName(p) ==
    /\ pc[p] = "staged"
    /\ ~HardLinks
    /\ disk[name[p]] = NoFile
    /\ Goto(p, "free")
    /\ UNCHANGED <<disk, name, text, capped, temp, lock, edits, kept, raced>>

\* ... and the file renamed to it.
RenameNew(p) ==
    /\ pc[p] = "free"
    /\ Publish(p)
    /\ kept' = {k \in kept : k[2] # name[p]}
    /\ UNCHANGED raced

-----------------------------------------------------------------------------
(* edit_in_place. *)

\* The copy is read, once; what is not a copy is refused.
ReadCopy(p) ==
    /\ pc[p] = "idle"
    /\ \E n \in Names :
          /\ disk[n] \notin {NoFile, Torn} /\ disk[n].kind = "copy"
          /\ Job(p, n, disk[n], FALSE)
    /\ Goto(p, "editing")
    /\ UNCHANGED <<disk, temp, lock, edits, kept, raced>>

\* The text of p with one more edit.
Edited(p) == [kind |-> text[p].kind, edits |-> text[p].edits \cup {edits + 1}]

\* Plausible bug: the file is not looked at again before it is replaced.
CompareNothing(p) ==
    /\ pc[p] = "editing"
    /\ edits < MaxEdits
    /\ edits' = edits + 1
    /\ text' = [text EXCEPT ![p] = Edited(p)]
    /\ Goto(p, "compared")
    /\ UNCHANGED <<disk, name, capped, temp, lock, kept, raced>>

\* The edit changes something, and the file still reads as it did.
Compare(p) ==
    /\ pc[p] = "editing"
    /\ disk[name[p]] = text[p]
    /\ edits < MaxEdits
    /\ edits' = edits + 1
    /\ text' = [text EXCEPT ![p] = Edited(p)]
    /\ Goto(p, "compared")
    /\ UNCHANGED <<disk, name, capped, temp, lock, kept, raced>>

\* Another edit of the file has compared and not yet replaced it.
Racing(p) ==
    \E q \in Procs \ {p} :
        name[q] = name[p] /\ pc[q] \in {"compared", "restaging", "restaged"}

\* write_atomic: the staged file is renamed over the copy.
Replace(p) ==
    /\ pc[p] = "restaged"
    /\ Publish(p)
    /\ kept' = kept \cup {<<e, name[p]>> : e \in text[p].edits}
    /\ raced' = IF Racing(p) THEN raced \cup text[p].edits ELSE raced

-----------------------------------------------------------------------------
\* The process dies, or is killed.
Dies(p) ==
    /\ pc[p] # "idle"
    /\ Ends(p)
    /\ UNCHANGED <<disk, edits, kept, raced>>

\* The user removes a file by hand.
Removed(n) ==
    /\ disk[n] # NoFile
    /\ disk' = [disk EXCEPT ![n] = NoFile]
    /\ kept' = {k \in kept : k[2] # n}
    /\ UNCHANGED <<pc, name, text, capped, temp, lock, edits, raced>>

Next ==
    \/ \E p \in Procs :
          \/ Start(p) \/ CountFiles(p) \/ Refuse(p) \/ Copy(p)
          \/ Stage(p) \/ Fill(p) \/ Fails(p) \/ Link(p) \/ CheckName(p) \/ RenameNew(p)
          \/ ReadCopy(p) \/ Compare(p) \/ Replace(p)
          \/ Dies(p)
    \/ \E n \in Names : Removed(n)

Spec == Init /\ [][Next]_vars
-----------------------------------------------------------------------------
(* Properties. *)

Locked == {"locked", "counted", "staging", "staged", "free"}
Editing == {"editing", "compared", "restaging", "restaged"}

TypeOK ==
    /\ disk \in [Names -> Content \cup {NoFile, Torn}]
    /\ pc \in [Procs -> {"idle"} \cup Locked \cup Editing]
    /\ name \in [Procs -> Names \cup {NoFile}]
    /\ text \in [Procs -> Content]
    /\ capped \in [Procs -> BOOLEAN]
    /\ temp \in [Procs -> Content \cup {NoFile, Torn}]
    /\ lock \in Procs \cup {Nobody}
    /\ edits \in 0..MaxEdits
    /\ kept \subseteq (1..MaxEdits) \X Names
    /\ raced \subseteq 1..MaxEdits

\* A file of the store is whole whenever it can be seen, wherever the writers fail or die
\* (snapshot.rs, publish_new; paths.rs, write_atomic).
FilesAreWhole == \A n \in Names : disk[n] # Torn

\* A capture, a restore point or a reading of any kind is never changed or replaced, by any
\* interleaving of captures, copies and edits (where links may be refused: but for the window
\* between the lookup of the name and the rename; snapshot.rs, save_new).
OriginalsAreNeverChanged ==
    [][\A n \in Names :
        /\ disk[n] \notin {NoFile, Torn} /\ disk[n].kind # "copy"
        /\ disk'[n] \notin {disk[n], NoFile}
        => ~HardLinks /\ \E p \in Procs : pc[p] = "free" /\ name[p] = n]_vars

\* A file that is held to the cap never takes its kind over the cap, however many processes
\* capture, apply and remove files: the camera lock covers the count and the save
\* (retention.rs; capture_snapshot.rs, apply.rs and restore_extended.rs).
CapsAreKept ==
    [][\A p \in Procs, k \in Counted :
        /\ pc[p] \in {"staged", "free"} /\ capped[p] /\ text[p].kind = k
        /\ disk' # disk /\ pc'[p] = "idle"
        => CountOf(k)' <= Cap]_vars

\* An edit that was written is still in the file, unless another edit of it was already past its
\* comparison when it was written (edit_snapshot.rs, edit_in_place).
OnlyRacingEditsAreLost ==
    \A k \in kept :
        /\ disk[k[2]] # NoFile
        /\ k[1] \in disk[k[2]].edits \cup raced

\* The inductive invariant behind the theorems of SnapshotStore_proof.
\* Files hold whole contents, and copies are the files with the names of copies; ...
DiskInv ==
    \A n \in Names : disk[n] # NoFile =>
        disk[n] \in Content /\ (disk[n].kind = "copy" <=> n \in CopyNames)

\* ... a process makes a file of its own sort, under the lock if it is no copy, has staged all of
\* it before it publishes it, and renames a new file only where links may be refused; ...
JobInv ==
    \A p \in Procs :
        /\ pc[p] # "idle" => name[p] \in Names /\ (text[p].kind = "copy" <=> name[p] \in CopyNames)
        /\ pc[p] \in Editing => text[p].kind = "copy"
        /\ pc[p] \in Locked /\ text[p].kind # "copy" => lock = p
        /\ pc[p] \in {"staged", "free", "restaged"} => temp[p] = text[p]
        /\ pc[p] = "free" => ~HardLinks

\* ... and, once it has counted, there is room for the file until it is published.
RoomInv ==
    \A p \in Procs, k \in Counted :
        pc[p] \in Locked \ {"locked"} /\ capped[p] /\ text[p].kind = k => CountOf(k) < Cap

IInv == TypeOK /\ DiskInv /\ JobInv /\ RoomInv

\* An edit past its comparison brings every written edit of its file with it, but for those that
\* were written since the comparison: they raced.
EditsInv ==
    \A p \in Procs, k \in kept :
        pc[p] \in Editing \ {"editing"} /\ name[p] = k[2] => k[1] \in text[p].edits \cup raced
=============================================================================
