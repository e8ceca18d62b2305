------------------------------ MODULE DiagRing ------------------------------
(***************************************************************************)
(* The ring of completed entries of one process and its file (diag.rs,     *)
(* `push`, `ring_append`, `compact`).  Memory keeps the last Cap entries,  *)
(* the least important going first; the file is appended to and rewritten  *)
(* from memory when it has twice as many lines.  Every one of those writes *)
(* can fail, and a reader has only the file.                               *)
(***************************************************************************)
EXTENDS Naturals, FiniteSets, Sequences

CONSTANTS
    Cap,         \* entries kept (Config::ring_cap, at least MIN_RING_CAP)
    MaxEntries,  \* entries recorded (a bound)
    MaxFaults    \* writes that fail (a bound)

VARIABLES
    ring,     \* entries in memory, oldest first: [id, rank], the rank of eviction_rank
    file,     \* ids of the entries a reader finds in the ring file
    handle,   \* State::ring_file: "file" (the one a reader opens), "lost" (one without a
              \* name) or "none"
    torn,     \* the file ends in a line that was cut off
    lines,    \* State::ring_lines
    ever,     \* history: the entries recorded
    excused,  \* history: ids whose own write failed, or that landed on a cut line
    faults

vars == <<ring, file, handle, torn, lines, ever, excused, faults>>

\* eviction_rank: a leaf that succeeded, a top-level span that did, an event or a failed leaf, a
\* failed top-level span.
Ranks == 0..3
Entries == [id : 1..MaxEntries, rank : Ranks]

Init ==
    /\ ring = <<>> /\ file = {} /\ handle = "file" /\ torn = FALSE /\ lines = 0
    /\ ever = {} /\ excused = {} /\ faults = 0

\* push: the lowest rank goes, the oldest among equals.
Victim(r) ==
    CHOOSE i \in DOMAIN r : \A j \in DOMAIN r :
        r[i].rank < r[j].rank \/ (r[i].rank = r[j].rank /\ i <= j)
Without(r, i) == SubSeq(r, 1, i - 1) \o SubSeq(r, i + 1, Len(r))
Pushed(r, e) == Append(IF Len(r) >= Cap THEN Without(r, Victim(r)) ELSE r, e)
Ids(r) == {r[i].id : i \in DOMAIN r}

\* ring_append: reopens a lost handle first.  What fails may leave part of the line in the file,
\* and the next line is then glued to it.
Appends(e, spent) ==
    \/ /\ lines' = lines + 1 /\ handle' = (IF handle = "none" THEN "file" ELSE handle)
       /\ file' = IF handle = "lost" \/ torn THEN file ELSE file \cup {e.id}
       /\ torn' = (handle = "lost" /\ torn)
       /\ excused' = IF torn THEN excused \cup {e.id} ELSE excused
       /\ spent = 0
    \/ /\ handle = "none" /\ spent = 1
       /\ excused' = excused \cup {e.id}
       /\ UNCHANGED <<file, handle, torn, lines>>
    \/ /\ spent = 1 /\ lines' = lines + 1 /\ handle' = (IF handle = "none" THEN "file" ELSE handle)
       /\ excused' = excused \cup {e.id}
       /\ torn' \in {torn, TRUE}
       /\ UNCHANGED file

Push(rank) ==
    LET e == [id |-> Cardinality(ever) + 1, rank |-> rank] IN
    /\ Cardinality(ever) < MaxEntries /\ lines < Cap * 2
    /\ ring' = Pushed(ring, e)
    /\ ever' = ever \cup {e}
    /\ \E spent \in 0..1 :
         /\ faults + spent <= MaxFaults /\ faults' = faults + spent
         /\ Appends(e, spent)

\* compact follows in the same call when the file has Cap * 2 lines: the ring replaces the file,
\* and the handle has to be opened anew.
CompactWrites ==
    /\ file' = Ids(ring) /\ torn' = FALSE /\ lines' = Len(ring)
    /\ UNCHANGED <<ring, ever, excused>>
Due == lines >= Cap * 2

Compact == Due /\ CompactWrites /\ handle' = "file" /\ UNCHANGED faults

\* Nothing was replaced: the old handle stays right.
CompactFails ==
    /\ Due /\ faults < MaxFaults /\ faults' = faults + 1
    /\ lines' = Len(ring)
    /\ UNCHANGED <<ring, file, handle, torn, ever, excused>>

\* Plausible bug: the handle of the replaced file is kept.
AfterFailedReopenKept == "lost"

\* The file was replaced and could not be opened: the old handle names it no longer, and is dropped.
AfterFailedReopen == "none"
CompactReopenFails ==
    /\ Due /\ faults < MaxFaults /\ faults' = faults + 1
    /\ CompactWrites /\ handle' = AfterFailedReopen

Next == (\E rank \in Ranks : Push(rank)) \/ Compact \/ CompactFails \/ CompactReopenFails

Spec == Init /\ [][Next]_vars

-----------------------------------------------------------------------------
TypeOK ==
    /\ ring \in Seq(Entries) /\ Len(ring) <= Cap
    /\ file \subseteq 1..MaxEntries /\ excused \subseteq 1..MaxEntries
    /\ handle \in {"file", "lost", "none"} /\ torn \in BOOLEAN
    /\ lines \in 0..Cap * 2 /\ faults \in 0..MaxFaults

\* While fewer than Cap entries of a rank or above were recorded, a reader finds every one of them
\* in the file, whatever was recorded in between and however often the file was rewritten, but for
\* those whose own line could not be written: routine entries never push a failure out, and no
\* failed rewrite loses what follows it (push, compact).
AtLeast(rank) == {e \in ever : e.rank >= rank}
ImportantIsOnDisk ==
    \A rank \in Ranks :
        Cardinality(AtLeast(rank)) < Cap => \A e \in AtLeast(rank) : e.id \in file \cup excused

-----------------------------------------------------------------------------
(* The inductive invariant. *)

Numbered == IsFiniteSet(ever) /\ \A e \in ever : e.id \in 1..Cardinality(ever) /\ e.rank \in Ranks

\* Memory holds each entry once, and a reader's file is never written to by a handle it has lost.
Memory ==
    /\ ring \in Seq(ever) /\ Len(ring) <= Cap
    /\ \A i, j \in DOMAIN ring : ring[i] = ring[j] => i = j
    /\ handle \in {"file", "none"}

\* What is important enough is in memory too: a rewrite does not lose it.
ImportantIsKept ==
    \A rank \in Ranks :
        Cardinality(AtLeast(rank)) < Cap => \A e \in AtLeast(rank) : \E i \in DOMAIN ring : ring[i] = e

IInv == Numbered /\ Memory /\ ImportantIsKept /\ ImportantIsOnDisk
=============================================================================
