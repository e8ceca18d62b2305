-------------------------- MODULE MCSnapshotStore --------------------------
(* The symmetries of the run of SnapshotStore: processes, and names of captures. *)
EXTENDS SnapshotStore, TLC

Symmetry == Permutations(Procs) \cup Permutations(CaptureNames)
=============================================================================
