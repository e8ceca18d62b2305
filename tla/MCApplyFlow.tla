---------------------------- MODULE MCApplyFlow ----------------------------
(* Model values for the run of ApplyFlow: a label the body does not let one set, a raw code with two *)
(* option lists, in which every value has another position, and a range with two scales.           *)
EXTENDS ApplyFlow, TLC

CONSTANTS p, q, r

MCOrder == <<p, q, r>>
MCDependents == {<<p, q>>, <<q, p>>, <<q, r>>}
LabelsAndRange == p :> "label" @@ q :> "code" @@ r :> "range"
MCScalesOf == p :> {1} @@ q :> {1, 2} @@ r :> {1, 2}
MCPosition == 1 :> (1 :> 1 @@ 2 :> 2) @@ 2 :> (1 :> 2 @@ 2 :> 1)

\* Besides a sound snapshot there is one that holds a corrupt range.
At(v) == [v |-> v, s |-> Fixed]
MCSnapshots == {[x \in Props |-> At(1)], p :> At(1) @@ q :> At(1) @@ r :> At(NoPosition)}
=============================================================================
