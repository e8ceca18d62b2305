------------------------ MODULE SnapshotStore_proof ------------------------
(***************************************************************************)
(* Proofs about SnapshotStore, for any processes, files, caps and number   *)
(* of edits, with hard links or without.                                   *)
(*                                                                         *)
(* The cap is the part with an argument: who counts holds the camera lock  *)
(* until it has published, whoever publishes a counted file holds it too,  *)
(* and everything else only keeps the count or lowers it.                  *)
(***************************************************************************)
EXTENDS SnapshotStore, FiniteSetTheorems, TLAPS

LEMMA InitHolds == Init => IInv
<1> SUFFICES ASSUME Init PROVE IInv
  OBVIOUS
<1>1. NoText \in Content
  BY DEF NoText, Content
<1>2. TypeOK
  BY <1>1, StoreAssumption DEF Init, TypeOK
<1>3. DiskInv
  BY DEF Init, DiskInv
<1>4. JobInv /\ RoomInv
  BY DEF Init, JobInv, RoomInv, Editing, Locked
<1> QED
  BY <1>2, <1>3, <1>4 DEF IInv

-----------------------------------------------------------------------------
(* Counting. *)

\* The files of a kind are finitely many, before a step and after it.
LEMMA Counts ==
    ASSUME NEW k
    PROVE  IsFiniteSet(Those(k)) /\ CountOf(k) \in Nat /\ CountOf(k)' \in Nat
<1>1. IsFiniteSet(Those(k))
  BY NamesAssumption, FS_Subset DEF Those
<1>2. IsFiniteSet(Those(k)')
  BY NamesAssumption, FS_Subset DEF Those
<1>3. Cardinality(Those(k)) \in Nat /\ Cardinality(Those(k)') \in Nat
  BY <1>1, <1>2, FS_CardinalityType
<1> QED
  BY <1>1, <1>3 DEF CountOf

\* A step that adds no file of a kind does not raise its count.
LEMMA CountKept ==
    ASSUME NEW k, Those(k)' \subseteq Those(k)
    PROVE  CountOf(k)' <= CountOf(k)
<1>1. IsFiniteSet(Those(k))
  BY Counts
<1>2. IsFiniteSet(Those(k)') /\ Cardinality(Those(k)') <= Cardinality(Those(k))
  BY <1>1, FS_Subset
<1> QED
  BY <1>2 DEF CountOf

\* A step that adds one file raises it by at most one.
LEMMA CountPlusOne ==
    ASSUME NEW k, NEW n, Those(k)' \subseteq Those(k) \cup {n}
    PROVE  CountOf(k)' <= CountOf(k) + 1
<1>1. IsFiniteSet(Those(k)) /\ Cardinality(Those(k)) \in Nat
  BY Counts DEF CountOf
<1>2. /\ IsFiniteSet(Those(k) \cup {n})
      /\ Cardinality(Those(k) \cup {n}) = IF n \in Those(k) THEN Cardinality(Those(k))
                                          ELSE Cardinality(Those(k)) + 1
  BY <1>1, FS_AddElement
<1>3. Cardinality(Those(k)') <= Cardinality(Those(k) \cup {n})
  BY <1>2, FS_Subset
<1>4. IsFiniteSet(Those(k)')
  BY <1>2, FS_Subset
<1>5. Cardinality(Those(k)') \in Nat
  BY <1>4, FS_CardinalityType
<1> QED
  BY <1>1, <1>2, <1>3, <1>5 DEF CountOf

\* A step that touches no file keeps every count.
LEMMA CountSame ==
    ASSUME NEW k, disk' = disk
    PROVE  CountOf(k)' = CountOf(k)
BY DEF CountOf, Those

-----------------------------------------------------------------------------
(* Types. *)

LEMMA TypeStep ==
    ASSUME IInv, [Next]_vars
    PROVE  TypeOK'
<1> USE DEF IInv, TypeOK, Goto, Locked, Editing
<1>n. NoText \in Content
  BY DEF NoText, Content
<1>1. CASE UNCHANGED vars
  BY <1>1 DEF vars
<1>e. ASSUME NEW p \in Procs, Ends(p)
      PROVE  /\ pc' \in [Procs -> {"idle"} \cup Locked \cup Editing]
             /\ name' \in [Procs -> Names \cup {NoFile}]
             /\ text' \in [Procs -> Content]
             /\ capped' \in [Procs -> BOOLEAN]
             /\ temp' \in [Procs -> Content \cup {NoFile, Torn}]
             /\ lock' \in Procs \cup {Nobody}
  BY <1>e, <1>n DEF Ends, Job
<1>p. ASSUME NEW p \in Procs, Publish(p), temp[p] \in Content, name[p] \in Names
      PROVE  disk' \in [Names -> Content \cup {NoFile, Torn}]
  BY <1>p DEF Publish
<1>2. ASSUME NEW p \in Procs, Start(p) PROVE TypeOK'
  <2>1. PICK n \in CaptureNames, k \in Counted \cup {"plain"}, c \in BOOLEAN :
           Job(p, n, [kind |-> k, edits |-> {}], c)
    BY <1>2 DEF Start
  <2>2. [kind |-> k, edits |-> {}] \in Content
    BY DEF Content
  <2> QED
    BY <1>2, <2>1, <2>2 DEF Start, Job, Names
<1>3. ASSUME NEW p \in Procs, CountFiles(p) PROVE TypeOK'
  BY <1>3 DEF CountFiles
<1>4. ASSUME NEW p \in Procs, Refuse(p) \/ Fails(p) \/ Dies(p) PROVE TypeOK'
  BY <1>4, <1>e DEF Refuse, Fails, Dies
<1>5. ASSUME NEW p \in Procs, Copy(p) PROVE TypeOK'
  <2>1. PICK m \in Names, n \in CopyNames :
           /\ disk[m] \notin {NoFile, Torn}
           /\ Job(p, n, [kind |-> "copy", edits |-> disk[m].edits], FALSE)
    BY <1>5 DEF Copy
  <2>2. [kind |-> "copy", edits |-> disk[m].edits] \in Content
    BY <2>1 DEF Content
  <2> QED
    BY <1>5, <2>1, <2>2 DEF Copy, Job, Names
<1>6. ASSUME NEW p \in Procs, Stage(p) \/ Fill(p) PROVE TypeOK'
  BY <1>6 DEF Stage, Fill
<1>7. ASSUME NEW p \in Procs, Link(p) PROVE TypeOK'
  <2>1. temp[p] \in Content /\ name[p] \in Names
    BY <1>7 DEF Link, JobInv
  <2> QED
    BY <1>7, <2>1, <1>p, <1>e DEF Link, Publish
<1>8. ASSUME NEW p \in Procs, CheckName(p) PROVE TypeOK'
  BY <1>8 DEF CheckName
<1>9. ASSUME NEW p \in Procs, RenameNew(p) PROVE TypeOK'
  <2>1. temp[p] \in Content /\ name[p] \in Names
    BY <1>9 DEF RenameNew, JobInv
  <2>2. kept' \subseteq kept
    BY <1>9 DEF RenameNew
  <2> QED
    BY <1>9, <2>1, <2>2, <1>p, <1>e DEF RenameNew, Publish
<1>10. ASSUME NEW p \in Procs, ReadCopy(p) PROVE TypeOK'
  <2>1. PICK n \in Names : disk[n] \notin {NoFile, Torn} /\ Job(p, n, disk[n], FALSE)
    BY <1>10 DEF ReadCopy
  <2> QED
    BY <1>10, <2>1 DEF ReadCopy, Job
<1>11. ASSUME NEW p \in Procs, Compare(p) PROVE TypeOK'
  <2>1. edits + 1 \in 1..MaxEdits
    BY <1>11, StoreAssumption DEF Compare
  <2>2. Edited(p) \in Content
    BY <2>1 DEF Edited, Content
  <2> QED
    BY <1>11, <2>1, <2>2, StoreAssumption DEF Compare
<1>12. ASSUME NEW p \in Procs, Replace(p) PROVE TypeOK'
  <2>1. temp[p] \in Content /\ name[p] \in Names
    BY <1>12 DEF Replace, JobInv
  <2>2. text[p].edits \subseteq 1..MaxEdits
    BY DEF Content
  <2>3. kept' \subseteq (1..MaxEdits) \X Names
    BY <1>12, <2>1, <2>2 DEF Replace
  <2>4. raced' \subseteq 1..MaxEdits
    BY <1>12, <2>2 DEF Replace
  <2> QED
    BY <1>12, <2>1, <2>3, <2>4, <1>p, <1>e DEF Replace, Publish
<1>13. ASSUME NEW n \in Names, Removed(n) PROVE TypeOK'
  <2>1. kept' \subseteq kept
    BY <1>13 DEF Removed
  <2> QED
    BY <1>13, <2>1 DEF Removed
<1> QED
  BY <1>1, <1>2, <1>3, <1>4, <1>5, <1>6, <1>7, <1>8, <1>9, <1>10, <1>11, <1>12, <1>13 DEF Next

-----------------------------------------------------------------------------
(* Files. *)

\* Only three actions give a file its content; the rest leave the files alone.
LEMMA DiskStep ==
    ASSUME IInv, [Next]_vars
    PROVE  DiskInv'
<1> USE DEF IInv, TypeOK
<1>1. CASE disk' = disk
  BY <1>1 DEF DiskInv
<1>2. ASSUME NEW p \in Procs, Publish(p), pc[p] \in {"staged", "free", "restaged"}
      PROVE  DiskInv'
  <2>1. name[p] \in Names /\ (text[p].kind = "copy" <=> name[p] \in CopyNames) /\ temp[p] = text[p]
    BY <1>2 DEF JobInv
  <2> QED
    BY <1>2, <2>1 DEF Publish, DiskInv
<1>3. ASSUME NEW n \in Names, Removed(n) PROVE DiskInv'
  BY <1>3 DEF Removed, DiskInv
<1>4. ASSUME NEW p \in Procs, Link(p) \/ RenameNew(p) \/ Replace(p) PROVE DiskInv'
  BY <1>4, <1>2 DEF Link, RenameNew, Replace
<1> QED
  BY <1>1, <1>3, <1>4 DEF Next, vars, Start, CountFiles, Refuse, Copy, Stage, Fill, Fails,
     CheckName, ReadCopy, Compare, Dies

-----------------------------------------------------------------------------
(* Jobs. *)

LEMMA JobStep ==
    ASSUME IInv, [Next]_vars
    PROVE  JobInv'
<1> USE DEF IInv, TypeOK, Goto, Locked, Editing
<1> DEFINE J(q) ==
      /\ pc[q] # "idle" => name[q] \in Names /\ (text[q].kind = "copy" <=> name[q] \in CopyNames)
      /\ pc[q] \in Editing => text[q].kind = "copy"
      /\ pc[q] \in Locked /\ text[q].kind # "copy" => lock = q
      /\ pc[q] \in {"staged", "free", "restaged"} => temp[q] = text[q]
      /\ pc[q] = "free" => ~HardLinks
<1> SUFFICES ASSUME NEW q \in Procs PROVE J(q)'
  BY DEF JobInv
<1>j. J(q)
  BY DEF JobInv
<1>1. CASE UNCHANGED vars
  BY <1>1, <1>j DEF vars
<1>e. ASSUME NEW p \in Procs, Ends(p) PROVE J(q)'
  <2>1. CASE q = p
    BY <1>e, <2>1 DEF Ends
  <2>2. CASE q # p
    BY <1>e, <2>2, <1>j DEF Ends, Job
  <2> QED
    BY <2>1, <2>2
<1>2. ASSUME NEW p \in Procs, Start(p) PROVE J(q)'
  <2>1. PICK n \in CaptureNames, k \in Counted \cup {"plain"}, c \in BOOLEAN :
           Job(p, n, [kind |-> k, edits |-> {}], c)
    BY <1>2 DEF Start
  <2>2. n \in Names /\ n \notin CopyNames /\ k # "copy"
    BY NamesAssumption DEF Names, Counted
  <2>3. CASE q = p
    BY <1>2, <2>1, <2>2, <2>3 DEF Start, Job
  <2>4. CASE q # p
    BY <1>2, <2>1, <2>4, <1>j, StoreAssumption DEF Start, Job
  <2> QED
    BY <2>3, <2>4
<1>3. ASSUME NEW p \in Procs, CountFiles(p) PROVE J(q)'
  BY <1>3, <1>j DEF CountFiles
<1>4. ASSUME NEW p \in Procs, Refuse(p) \/ Fails(p) \/ Dies(p) PROVE J(q)'
  BY <1>4, <1>e DEF Refuse, Fails, Dies
<1>5. ASSUME NEW p \in Procs, Copy(p) PROVE J(q)'
  <2>1. PICK m \in Names, n \in CopyNames :
           Job(p, n, [kind |-> "copy", edits |-> disk[m].edits], FALSE)
    BY <1>5 DEF Copy
  <2>2. CASE q = p
    BY <1>5, <2>1, <2>2 DEF Copy, Job, Names
  <2>3. CASE q # p
    BY <1>5, <2>1, <2>3, <1>j DEF Copy, Job
  <2> QED
    BY <2>2, <2>3
<1>6. ASSUME NEW p \in Procs, Stage(p) PROVE J(q)'
  BY <1>6, <1>j DEF Stage
<1>7. ASSUME NEW p \in Procs, Fill(p) PROVE J(q)'
  BY <1>7, <1>j DEF Fill
<1>8. ASSUME NEW p \in Procs, Link(p) \/ RenameNew(p) \/ Replace(p) PROVE J(q)'
  BY <1>8, <1>e DEF Link, RenameNew, Replace, Publish
<1>9. ASSUME NEW p \in Procs, CheckName(p) PROVE J(q)'
  BY <1>9, <1>j DEF CheckName
<1>10. ASSUME NEW p \in Procs, ReadCopy(p) PROVE J(q)'
  <2>1. PICK n \in Names : /\ disk[n] # NoFile /\ disk[n].kind = "copy"
                           /\ Job(p, n, disk[n], FALSE)
    BY <1>10 DEF ReadCopy
  <2>2. n \in CopyNames
    BY <2>1 DEF DiskInv
  <2>3. CASE q = p
    BY <1>10, <2>1, <2>2, <2>3 DEF ReadCopy, Job
  <2>4. CASE q # p
    BY <1>10, <2>1, <2>4, <1>j DEF ReadCopy, Job
  <2> QED
    BY <2>3, <2>4
<1>11. ASSUME NEW p \in Procs, Compare(p) PROVE J(q)'
  <2>1. Edited(p).kind = text[p].kind
    BY DEF Edited
  <2>2. CASE q = p
    BY <1>11, <2>1, <2>2, <1>j DEF Compare
  <2>3. CASE q # p
    BY <1>11, <2>3, <1>j DEF Compare
  <2> QED
    BY <2>2, <2>3
<1>12. ASSUME NEW n \in Names, Removed(n) PROVE J(q)'
  BY <1>12, <1>j DEF Removed
<1> QED
  BY <1>1, <1>2, <1>3, <1>4, <1>5, <1>6, <1>7, <1>8, <1>9, <1>10, <1>11, <1>12 DEF Next

-----------------------------------------------------------------------------
(* Room. *)

\* Publishing a file adds it to the files of its kind and to no others.
LEMMA PublishCounts ==
    ASSUME IInv, NEW p \in Procs, Publish(p), pc[p] \in {"staged", "free", "restaged"}, NEW k
    PROVE  /\ Those(k)' \subseteq Those(k) \cup {name[p]}
           /\ text[p].kind # k => Those(k)' \subseteq Those(k)
<1>1. name[p] \in Names /\ temp[p] = text[p] /\ disk \in [Names -> Content \cup {NoFile, Torn}]
  BY DEF IInv, JobInv, TypeOK
<1>2. \A n \in Names : disk'[n] = IF n = name[p] THEN text[p] ELSE disk[n]
  BY <1>1 DEF Publish
<1> QED
  BY <1>2 DEF Those

LEMMA RoomStep ==
    ASSUME IInv, [Next]_vars
    PROVE  RoomInv'
<1> USE DEF IInv, TypeOK, Goto, Locked, Editing
<1> DEFINE R(q, k) ==
      pc[q] \in Locked \ {"locked"} /\ capped[q] /\ text[q].kind = k => CountOf(k) < Cap
<1> SUFFICES ASSUME NEW q \in Procs, NEW k \in Counted PROVE R(q, k)'
  BY DEF RoomInv
<1>r. R(q, k)
  BY DEF RoomInv
<1>n. CountOf(k) \in Nat /\ CountOf(k)' \in Nat /\ Cap \in Nat /\ k # "copy"
  BY Counts, StoreAssumption DEF Counted
<1>s. ASSUME disk' = disk PROVE CountOf(k)' = CountOf(k)
  BY <1>s, CountSame
<1>u. ASSUME disk' = disk, pc'[q] = pc[q], capped'[q] = capped[q], text'[q] = text[q]
      PROVE  R(q, k)'
  BY <1>u, <1>r, <1>s
<1>1. CASE UNCHANGED vars
  BY <1>1, <1>u DEF vars
<1>2. ASSUME NEW p \in Procs, Start(p) \/ Refuse(p) \/ Fails(p) \/ Dies(p) \/ ReadCopy(p)
      PROVE  R(q, k)'
  <2>1. CASE q = p
    BY <1>2, <2>1 DEF Start, Refuse, Fails, Dies, Ends, ReadCopy
  <2>2. CASE q # p
    BY <1>2, <2>2, <1>u DEF Start, Refuse, Fails, Dies, Ends, Job, ReadCopy
  <2> QED
    BY <2>1, <2>2
<1>3. ASSUME NEW p \in Procs, CountFiles(p) PROVE R(q, k)'
  <2>1. CASE q = p
    BY <1>3, <2>1, <1>s DEF CountFiles, HasRoom
  <2>2. CASE q # p
    BY <1>3, <2>2, <1>u DEF CountFiles
  <2> QED
    BY <2>1, <2>2
<1>4. ASSUME NEW p \in Procs, Copy(p) PROVE R(q, k)'
  <2>1. PICK m \in Names, n \in CopyNames :
           Job(p, n, [kind |-> "copy", edits |-> disk[m].edits], FALSE)
    BY <1>4 DEF Copy
  <2>2. CASE q = p
    BY <1>4, <1>n, <2>1, <2>2 DEF Copy, Job
  <2>3. CASE q # p
    BY <1>4, <2>1, <2>3, <1>u DEF Copy, Job
  <2> QED
    BY <2>2, <2>3
<1>5. ASSUME NEW p \in Procs, Stage(p) \/ Fill(p) \/ CheckName(p) PROVE R(q, k)'
  <2>1. CASE q = p
    BY <1>5, <2>1, <1>r, <1>s DEF Stage, Fill, CheckName
  <2>2. CASE q # p
    BY <1>5, <2>2, <1>u DEF Stage, Fill, CheckName
  <2> QED
    BY <2>1, <2>2
<1>6. ASSUME NEW p \in Procs, Compare(p) PROVE R(q, k)'
  <2>1. CASE q = p
    BY <1>6, <2>1 DEF Compare
  <2>2. CASE q # p
    BY <1>6, <2>2, <1>u DEF Compare
  <2> QED
    BY <2>1, <2>2
<1>7. ASSUME NEW p \in Procs, Publish(p), pc[p] \in {"staged", "free", "restaged"} PROVE R(q, k)'
  <2>1. CASE q = p
    BY <1>7, <2>1 DEF Publish, Ends
  <2>2. CASE q # p /\ text[p].kind = k
    <3>1. pc[p] \in Locked => lock = p
      BY <2>2, <1>n DEF JobInv
    <3>2. pc[p] \in Locked
      BY <1>7, <2>2, <1>n DEF JobInv
    <3>3. ~(pc[q] \in Locked /\ text[q].kind = k)
      BY <3>1, <3>2, <2>2, <1>n DEF JobInv
    <3> QED
      BY <3>3, <1>7, <2>2 DEF Publish, Ends, Job
  <2>3. CASE q # p /\ text[p].kind # k
    <3>1. CountOf(k)' <= CountOf(k)
      BY <1>7, <2>3, PublishCounts, CountKept
    <3>2. pc'[q] = pc[q] /\ capped'[q] = capped[q] /\ text'[q] = text[q]
      BY <1>7, <2>3 DEF Publish, Ends, Job
    <3> QED
      BY <3>1, <3>2, <1>r, <1>n
  <2> QED
    BY <2>1, <2>2, <2>3
<1>8. ASSUME NEW p \in Procs, Link(p) \/ RenameNew(p) \/ Replace(p) PROVE R(q, k)'
  BY <1>8, <1>7 DEF Link, RenameNew, Replace
<1>9. ASSUME NEW n \in Names, Removed(n) PROVE R(q, k)'
  <2>1. Those(k)' \subseteq Those(k)
    BY <1>9 DEF Removed, Those
  <2>2. CountOf(k)' <= CountOf(k)
    BY <2>1, CountKept
  <2> QED
    BY <2>2, <1>9, <1>r, <1>n DEF Removed
<1> QED
  BY <1>1, <1>2, <1>3, <1>4, <1>5, <1>6, <1>8, <1>9 DEF Next

-----------------------------------------------------------------------------
(* Edits. *)

\* The two facts about written edits: each is in its file, and in every edit about to replace it.
LEMMA EditsInit == Init => OnlyRacingEditsAreLost /\ EditsInv
BY DEF Init, OnlyRacingEditsAreLost, EditsInv

\* A file published in place of nothing, or of a file whose edits are no longer claimed, and one
\* that replaces a copy.
LEMMA EditsStep ==
    ASSUME IInv, OnlyRacingEditsAreLost, EditsInv, [Next]_vars
    PROVE  OnlyRacingEditsAreLost' /\ EditsInv'
<1> USE DEF IInv, TypeOK, Goto, Editing
<1> DEFINE D(k) == disk[k[2]] # NoFile /\ k[1] \in disk[k[2]].edits \cup raced
           E(p, k) == pc[p] \in Editing \ {"editing"} /\ name[p] = k[2]
                        => k[1] \in text[p].edits \cup raced
<1>d. \A k \in kept : D(k) /\ k[2] \in Names
  BY DEF OnlyRacingEditsAreLost
<1>e. \A p \in Procs, k \in kept : E(p, k)
  BY DEF EditsInv
<1>g. ASSUME \A k \in kept' : D(k)', \A p \in Procs, k \in kept' : E(p, k)'
      PROVE  OnlyRacingEditsAreLost' /\ EditsInv'
  BY <1>g DEF OnlyRacingEditsAreLost, EditsInv
\* A process that leaves, enters or moves before its comparison brings nothing.
<1>q. ASSUME NEW p \in Procs, pc'[p] \in Editing \ {"editing"} => pc[p] \in Editing \ {"editing"},
             pc'[p] \in Editing \ {"editing"} => name'[p] = name[p] /\ text'[p] = text[p],
             \A q \in Procs \ {p} : pc'[q] = pc[q] /\ name'[q] = name[q] /\ text'[q] = text[q],
             UNCHANGED <<disk, kept, raced>>
      PROVE  OnlyRacingEditsAreLost' /\ EditsInv'
  <2>1. ASSUME NEW r \in Procs, NEW k \in kept PROVE E(r, k)'
    <3>1. E(r, k)
      BY <1>e
    <3> QED
      BY <3>1, <1>q
  <2> QED
    BY <2>1, <1>d, <1>q, <1>g
<1>1. CASE UNCHANGED vars
  BY <1>1, <1>d, <1>e, <1>g DEF vars
<1>2. ASSUME NEW p \in Procs, Start(p) \/ Copy(p) \/ ReadCopy(p) \/ CountFiles(p) \/ CheckName(p)
      PROVE  OnlyRacingEditsAreLost' /\ EditsInv'
  BY <1>2, <1>q DEF Start, Copy, ReadCopy, CountFiles, CheckName, Job
<1>3. ASSUME NEW p \in Procs, Refuse(p) \/ Fails(p) \/ Dies(p)
      PROVE  OnlyRacingEditsAreLost' /\ EditsInv'
  BY <1>3, <1>q DEF Refuse, Fails, Dies, Ends, Job
<1>6. ASSUME NEW p \in Procs, Fill(p)
      PROVE  OnlyRacingEditsAreLost' /\ EditsInv'
  BY <1>6, <1>q DEF Fill
<1>7. ASSUME NEW p \in Procs, Stage(p)
      PROVE  OnlyRacingEditsAreLost' /\ EditsInv'
  BY <1>7, <1>q DEF Stage
\* At the comparison the text is what the file holds.
<1>8. ASSUME NEW p \in Procs, Compare(p)
      PROVE  OnlyRacingEditsAreLost' /\ EditsInv'
  <2>1. ASSUME NEW r \in Procs, NEW k \in kept PROVE E(r, k)'
    <3>1. CASE r = p
      <4>1. Edited(p).edits = text[p].edits \cup {edits + 1} /\ text'[p] = Edited(p)
        BY <1>8 DEF Compare, Edited
      <4>2. name[p] = k[2] => k[1] \in text[p].edits \cup raced
        BY <1>8, <1>d DEF Compare
      <4> QED
        BY <1>8, <3>1, <4>1, <4>2 DEF Compare
    <3>2. CASE r # p
      BY <1>8, <3>2, <1>e DEF Compare
    <3> QED
      BY <3>1, <3>2
  <2> QED
    BY <2>1, <1>8, <1>d, <1>g DEF Compare
\* What holds of the process that publishes and of the others, after it has.
<1>p. ASSUME NEW p \in Procs, Publish(p), pc[p] \in {"staged", "free", "restaged"}
      PROVE  /\ name[p] \in Names
             /\ disk'[name[p]] = text[p] /\ text[p] \in Content /\ text[p] # NoFile
             /\ \A n \in Names \ {name[p]} : disk'[n] = disk[n]
             /\ pc'[p] = "idle"
             /\ \A q \in Procs \ {p} : pc'[q] = pc[q] /\ name'[q] = name[q] /\ text'[q] = text[q]
  BY <1>p, SpecialAssumption DEF Publish, Ends, Job, JobInv
\* A new file: nothing is claimed of its name before, or no longer after.
<1>9. ASSUME NEW p \in Procs, Publish(p), pc[p] \in {"staged", "free", "restaged"},
             \A k \in kept' : k \in kept /\ k[2] # name[p], raced' = raced
      PROVE  OnlyRacingEditsAreLost' /\ EditsInv'
  <2>1. ASSUME NEW k \in kept' PROVE D(k)'
    <3>1. disk'[k[2]] = disk[k[2]] /\ D(k)
      BY <1>9, <1>p, <1>d
    <3> QED
      BY <3>1, <1>9
  <2>2. ASSUME NEW r \in Procs, NEW k \in kept' PROVE E(r, k)'
    <3>1. E(r, k)
      BY <1>9, <1>e
    <3> QED
      BY <3>1, <1>9, <1>p
  <2> QED
    BY <2>1, <2>2, <1>g
<1>10. ASSUME NEW p \in Procs, Link(p)
       PROVE  OnlyRacingEditsAreLost' /\ EditsInv'
  BY <1>10, <1>9, <1>d DEF Link
<1>11. ASSUME NEW p \in Procs, RenameNew(p)
       PROVE  OnlyRacingEditsAreLost' /\ EditsInv'
  BY <1>11, <1>9 DEF RenameNew
\* An edit that replaces its file: who is past its own comparison makes it a race.
<1>12. ASSUME NEW p \in Procs, Replace(p)
       PROVE  OnlyRacingEditsAreLost' /\ EditsInv'
  <2>0. Publish(p) /\ pc[p] = "restaged" /\ raced \subseteq raced'
    BY <1>12 DEF Replace
  <2>1. ASSUME NEW k \in kept'
        PROVE  (k \in kept /\ k[2] \in Names) \/ (k[1] \in text[p].edits /\ k[2] = name[p])
    BY <2>1, <1>12, <1>d DEF Replace
  <2>2. ASSUME NEW k \in kept' PROVE D(k)'
    <3>1. CASE k[2] = name[p]
      <4>1. k[1] \in text[p].edits \cup raced
        BY <2>0, <2>1, <3>1, <1>e
      <4> QED
        BY <4>1, <3>1, <2>0, <1>p
    <3>2. CASE k[2] # name[p]
      <4>1. disk'[k[2]] = disk[k[2]] /\ D(k)
        BY <3>2, <2>0, <2>1, <1>p, <1>d
      <4> QED
        BY <4>1, <2>0
    <3> QED
      BY <3>1, <3>2
  <2>3. ASSUME NEW r \in Procs, NEW k \in kept' PROVE E(r, k)'
    <3>1. CASE r = p
      BY <3>1, <2>0, <1>p
    <3>2. CASE r # p
      <4>1. pc'[r] = pc[r] /\ name'[r] = name[r] /\ text'[r] = text[r]
        BY <3>2, <2>0, <1>p
      <4>2. CASE k \in kept
        BY <4>1, <4>2, <2>0, <1>e
      <4>3. CASE k \notin kept
        <5>1. SUFFICES ASSUME pc[r] \in Editing \ {"editing"}, name[r] = k[2]
                       PROVE  k[1] \in raced'
          BY <4>1
        <5>2. k[1] \in text[p].edits /\ k[2] = name[p]
          BY <2>1, <4>3
        <5>3. Racing(p)
          BY <5>1, <5>2, <3>2 DEF Racing
        <5> QED
          BY <5>2, <5>3, <1>12 DEF Replace
      <4> QED
        BY <4>2, <4>3
    <3> QED
      BY <3>1, <3>2
  <2> QED
    BY <2>2, <2>3, <1>g
<1>13. ASSUME NEW n \in Names, Removed(n)
       PROVE  OnlyRacingEditsAreLost' /\ EditsInv'
  <2>1. \A k \in kept' : k \in kept /\ k[2] # n
    BY <1>13 DEF Removed
  <2>2. ASSUME NEW k \in kept' PROVE D(k)'
    <3>1. disk'[k[2]] = disk[k[2]] /\ D(k)
      BY <2>1, <1>13, <1>d DEF Removed
    <3> QED
      BY <3>1, <1>13 DEF Removed
  <2>3. ASSUME NEW r \in Procs, NEW k \in kept' PROVE E(r, k)'
    BY <2>1, <1>13, <1>e DEF Removed
  <2> QED
    BY <2>2, <2>3, <1>g
<1> QED
  BY <1>1, <1>2, <1>3, <1>6, <1>7, <1>8, <1>10, <1>11, <1>12, <1>13 DEF Next

-----------------------------------------------------------------------------
(* The theorems. *)

LEMMA Invariant == Spec => []IInv
<1>1. Init => IInv
  BY InitHolds
<1>2. IInv /\ [Next]_vars => IInv'
  BY TypeStep, DiskStep, JobStep, RoomStep DEF IInv
<1> QED
  BY <1>1, <1>2, PTL DEF Spec

\* Every variable of the store keeps its type.
THEOREM TypeCorrect == Spec => []TypeOK
<1>1. IInv => TypeOK
  BY DEF IInv
<1> QED
  BY Invariant, <1>1, PTL

\* No reader ever sees part of a file, wherever its writer fails or dies.
THEOREM FilesWhole == Spec => []FilesAreWhole
<1>1. IInv => FilesAreWhole
  BY SpecialAssumption DEF IInv, DiskInv, FilesAreWhole
<1> QED
  BY Invariant, <1>1, PTL

\* What one step may do to a file that is no copy.
LEMMA OriginalStep ==
    ASSUME IInv, [Next]_vars, NEW n \in Names,
           disk[n] \notin {NoFile, Torn}, disk[n].kind # "copy", disk'[n] \notin {disk[n], NoFile}
    PROVE  ~HardLinks /\ \E p \in Procs : pc[p] = "free" /\ name[p] = n
<1> USE DEF IInv, TypeOK
<1>1. n \notin CopyNames
  BY DEF DiskInv
<1>2. disk' # disk
  OBVIOUS
<1>3. ASSUME NEW m \in Names, Removed(m) PROVE FALSE
  BY <1>3 DEF Removed
<1>4. ASSUME NEW p \in Procs, Link(p) PROVE FALSE
  BY <1>4 DEF Link, Publish
<1>5. ASSUME NEW p \in Procs, Replace(p) PROVE FALSE
  <2>1. name[p] \in CopyNames
    BY <1>5 DEF Replace, JobInv, Editing
  <2> QED
    BY <1>5, <2>1, <1>1 DEF Replace, Publish
<1>6. ASSUME NEW p \in Procs, RenameNew(p) PROVE ~HardLinks /\ pc[p] = "free" /\ name[p] = n
  BY <1>6 DEF RenameNew, Publish, JobInv
<1>7. \/ \E m \in Names : Removed(m)
      \/ \E p \in Procs : Link(p) \/ Replace(p) \/ RenameNew(p)
  BY <1>2 DEF Next, vars, Start, CountFiles, Refuse, Copy, Stage, Fill, Fails, CheckName,
     ReadCopy, Compare, Dies
<1> QED
  BY <1>3, <1>4, <1>5, <1>6, <1>7

\* A file that is no copy is never changed; without hard links, but for the one window.
THEOREM OriginalsKept == Spec => OriginalsAreNeverChanged
<1>1. IInv /\ [Next]_vars =>
        [\A n \in Names :
            /\ disk[n] \notin {NoFile, Torn} /\ disk[n].kind # "copy"
            /\ disk'[n] \notin {disk[n], NoFile}
            => ~HardLinks /\ \E p \in Procs : pc[p] = "free" /\ name[p] = n]_vars
  BY OriginalStep
<1> QED
  BY Invariant, <1>1, PTL DEF Spec, OriginalsAreNeverChanged

\* What the step that publishes a capped file leaves.
LEMMA CapStep ==
    ASSUME IInv, [Next]_vars, NEW p \in Procs, NEW k \in Counted,
           pc[p] \in {"staged", "free"}, capped[p], text[p].kind = k,
           disk' # disk, pc'[p] = "idle"
    PROVE  CountOf(k)' <= Cap
<1> USE DEF IInv, TypeOK
<1>1. CountOf(k) < Cap
  BY DEF RoomInv, Locked
<1>2. pc'[p] # pc[p]
  OBVIOUS
<1>3. \A q \in Procs : Link(q) \/ RenameNew(q) \/ Replace(q) => q = p
  BY <1>2 DEF Link, RenameNew, Replace, Publish, Ends, Goto
<1>4. Publish(p)
  <2>1. ~ \E n \in Names : Removed(n)
    BY <1>2 DEF Removed
  <2>2. \E q \in Procs : Link(q) \/ RenameNew(q) \/ Replace(q)
    BY <2>1 DEF Next, vars, Start, CountFiles, Refuse, Copy, Stage, Fill, Fails, CheckName,
       ReadCopy, Compare, Dies
  <2> QED
    BY <2>2, <1>3 DEF Link, RenameNew, Replace
<1>5. CountOf(k)' <= CountOf(k) + 1
  BY <1>4, PublishCounts, CountPlusOne
<1> QED
  BY <1>1, <1>5, Counts, StoreAssumption

\* No interleaving takes a kind over its cap by a file that is held to it.
THEOREM CapsHold == Spec => CapsAreKept
<1>1. IInv /\ [Next]_vars =>
        [\A p \in Procs, k \in Counted :
            /\ pc[p] \in {"staged", "free"} /\ capped[p] /\ text[p].kind = k
            /\ disk' # disk /\ pc'[p] = "idle"
            => CountOf(k)' <= Cap]_vars
  BY CapStep
<1> QED
  BY Invariant, <1>1, PTL DEF Spec, CapsAreKept

\* Written edits stay written, but for a race of two edits of one file.
THEOREM EditsAreKept == Spec => []OnlyRacingEditsAreLost
<1>1. Init => OnlyRacingEditsAreLost /\ EditsInv
  BY EditsInit
<1>2. IInv /\ (OnlyRacingEditsAreLost /\ EditsInv) /\ [Next]_vars
        => (OnlyRacingEditsAreLost /\ EditsInv)'
  BY EditsStep
<1> QED
  BY Invariant, <1>1, <1>2, PTL DEF Spec
=============================================================================
