---------------------------- MODULE SnapshotEdit ----------------------------
(***************************************************************************)
(* One property on its way from a captured snapshot to another body: an    *)
(* editable copy is made, its value is edited (snapshot_edit.rs), and a    *)
(* transplant plans it against what the body answers, writes it and, for a *)
(* range, reads it back (transplant.rs, `transplant_one`).  The edits name *)
(* a value, the snapshot holds an index, and the body has an order and a   *)
(* layout of its own.                                                      *)
(***************************************************************************)
EXTENDS TransplantPlan

CONSTANTS
    Captured,  \* values a snapshot may hold
    Answered,  \* values the body may hold
    Codes, Positions, Numbers,  \* what a person may enter
    MaxEdits   \* edits that change something (a bound)

VARIABLES
    value,     \* the property in the snapshot, and in its copy
    gate,      \* what the tables say of its code
    editable,  \* derived_from is there
    edits,     \* how many are recorded in it
    asked,     \* history: what the value showed, or what the last edit asked for
    body,      \* what the body holds
    plan       \* the outcome: none, planned, skipped, then copied or failed

vars == <<value, gate, editable, edits, asked, body, plan>>

NoPlan == [result |-> "none", value |-> None, changes |-> "unknown", optedIn |-> FALSE]
Skipped == [NoPlan EXCEPT !.result = "skipped"]

-----------------------------------------------------------------------------
(* What a value means, told from its bytes and not by the planner.         *)

\* The letters that have as many NULs before them as the index says.
Nuls(v) == {i \in DOMAIN v.values : v.values[i] = <<>>}
Written(v) == {i \in DOMAIN v.values \ Nuls(v) : Cardinality({j \in Nuls(v) : j < i}) = v.index}
Listed(v) == Cardinality(Nuls(v)) + (IF Len(v.values) \in Nuls(v) THEN 0 ELSE 1)
Label(v) ==
    IF v.index >= Listed(v) THEN None
    ELSE LET first == CHOOSE i \in Written(v) : \A j \in Written(v) : i <= j IN
         [k \in 1..Cardinality(Written(v)) |-> v.values[first + k - 1][1]]
Chosen(v) ==
    IF v.values = None \/ v.index = None THEN None
    ELSE IF IsLabel(v) /\ v.bytes = 1 THEN Label(v)
    ELSE IF v.index < Len(v.values) THEN v.values[v.index + 1] ELSE None
Position(v) ==
    IF v.steps # None /\ v.steps >= 2 /\ v.lower # v.upper
    THEN IF v.index \in 0..(v.steps - 1)
         THEN (v.lower * (v.steps - 1 - v.index) + v.upper * v.index) \div (v.steps - 1) ELSE None
    ELSE v.value
Meaning(v) == IF v.kind = "enum" THEN Chosen(v) ELSE IF v.kind = "range" THEN Position(v) ELSE v.value

-----------------------------------------------------------------------------
Init ==
    /\ value \in Captured /\ gate \in {"open", "unverified", "never", "shut"}
    /\ editable = FALSE /\ edits = 0 /\ asked = Meaning(value)
    /\ body = None /\ plan = NoPlan

CopyForEdit ==
    /\ plan = NoPlan /\ ~editable /\ editable' = TRUE
    /\ UNCHANGED <<value, gate, edits, asked, body, plan>>

\* ensure_editable and entry; an edit to what the copy holds already is not recorded (finish).
Edits(wanted, new) ==
    /\ plan = NoPlan /\ editable /\ gate # "never" /\ edits < MaxEdits
    /\ value' = new /\ asked' = wanted
    /\ edits' = IF new = value THEN edits ELSE edits + 1
    /\ UNCHANGED <<gate, editable, body, plan>>

SetEnumValue(code) ==
    /\ IsEnum(value) /\ value.values # None
    /\ LET places == Places(value.values, code) IN
       /\ places # {}
       /\ Edits(code, [value EXCEPT !.index = (CHOOSE i \in places : \A j \in places : i <= j) - 1])

\* A stepped range takes the grid point within GRID_TOLERANCE, a twentieth of a step.
SetRangeValue(x) ==
    /\ IsRange(value) /\ HasScale(value) /\ HasSpan(value) /\ x \in Lowest(value)..Highest(value)
    /\ LET i == Nearest(x, value) IN
       \/ /\ IsStepped(value) /\ 20 * Distance(ValueAt(value, i), x) <= Distance(Step(value), 0)
          /\ Edits(x, [value EXCEPT !.index = i])
       \/ ~IsStepped(value) /\ Edits(x, [value EXCEPT !.value = x])

\* set_number, set_bool.
SetScalar(n) == value.kind \in {"number", "bool"} /\ Edits(n, [value EXCEPT !.value = n])

Transplant(b, readable, optedIn) ==
    /\ plan = NoPlan /\ optedIn => IsGated(value)
    /\ body' = b
    /\ LET live == IF IsRead(value) /\ readable THEN b ELSE None IN
       plan' = IF Plans(value, live, gate, optedIn)
               THEN [result |-> "planned", value |-> Translated(value, live),
                     changes |-> Changes(value, live), optedIn |-> optedIn]
               ELSE Skipped
    /\ UNCHANGED <<value, gate, editable, edits, asked>>

\* The body takes the value, ignores it, or lands beside it; a stepped range comes back with junk
\* in its `value`.
Beside(v) ==
    IF ~IsRange(v) THEN {}
    ELSE IF IsStepped(v) THEN {[v EXCEPT !.index = i] : i \in {v.index - 1, v.index + 1} \cap 0..(v.steps - 1)}
    ELSE {[v EXCEPT !.value = @ + 1]}
Held(v) == IF IsRange(v) /\ IsStepped(v) THEN [v EXCEPT !.value = 0] ELSE v

\* verify_range_write; the write, or the read back, may fail.
IsVerified(v, readback) == IsRange(v) => IsRange(readback) /\ RangeValuesAgree(v, readback)
Write(fails) ==
    /\ plan.result = "planned"
    /\ body' \in {Held(v) : v \in {plan.value} \cup Beside(plan.value)} \cup {body}
    /\ plan' = [plan EXCEPT !.result = IF ~fails /\ IsVerified(plan.value, body') THEN "copied" ELSE "failed"]
    /\ UNCHANGED <<value, gate, editable, edits, asked>>

Next ==
    \/ CopyForEdit
    \/ \E c \in Codes : SetEnumValue(c)
    \/ \E x \in Positions : SetRangeValue(x)
    \/ \E n \in Numbers : SetScalar(n)
    \/ \E b \in Answered, readable, optedIn \in BOOLEAN : Transplant(b, readable, optedIn)
    \/ \E fails \in BOOLEAN : Write(fails)
Spec == Init /\ [][Next]_vars

-----------------------------------------------------------------------------
IsStill(v, m) ==
    Meaning(v) = m \/ (IsRange(v) /\ IsStepped(v) /\ 20 * Distance(Meaning(v), m) <= Distance(Step(v), 0))

\* What is planned means what the snapshot showed, or what the last edit asked for, whatever the
\* order, layout and index of the two bodies' tables; a range that counts as copied holds it
\* (set_*, translate_value, verify_range_write).
MeaningIsKept ==
    /\ plan.result \in {"planned", "copied"} => IsStill(plan.value, asked)
    /\ plan.result = "copied" /\ IsRange(value) => IsStill(body, asked)

\* A plan that says the property does not change leaves the body meaning what it does, one that says
\* it changes does not; and without the opt-in no raw code and no number is a change
\* (write_changes, raw_code_gate, literal_gate).
ChangesAreTrue ==
    plan.result = "planned" =>
        /\ plan.changes = "no" => Meaning(body) = Meaning(plan.value)
        /\ plan.changes = "yes" => Meaning(body) # Meaning(plan.value)
        /\ IsGated(value) /\ ~plan.optedIn => Meaning(body) = Meaning(plan.value)

-----------------------------------------------------------------------------
(* What holds of the values, and the inductive invariant.                  *)

Enums == [kind : {"enum"}, type : {"label", "raw", "none", "unknown"}, bytes : Nat,
          values : Seq(Seq(Letters)) \cup {None}, index : Nat \cup {None}, counted : BOOLEAN]
Scales == [kind : {"range"}, lower : Int, upper : Int, steps : Nat \cup {None},
           index : Nat \cup {None}, value : Int]
Plain == [kind : {"number", "bool", "text", "other"}, value : Int]
Values == Enums \cup Scales \cup Plain

IsTable(v) == IsEnum(v) /\ v.values # None
IsPacked(v) == IsTable(v) /\ IsLabel(v) /\ v.bytes = 1
IsUntyped(v) == IsTable(v) /\ v.type = "none" /\ IsSound(v)
Elements(v) == {v.values[i] : i \in DOMAIN v.values}

\* With one byte per element an element is at most a letter, and scales have whole steps.
IsDecoded(v) ==
    /\ v \in Values
    /\ IsPacked(v) => \A i \in DOMAIN v.values : Len(v.values[i]) <= 1
    /\ IsRange(v) /\ IsStepped(v) => Step(v) * (v.steps - 1) = v.upper - v.lower

\* A code is a number and a letter a string: set_enum_value takes it so, and so does translate_enum
\* where a value without a type is matched with one of labels.  A range that is not stepped holds a
\* number between its ends.
IsGenuine(v) ==
    /\ IsDecoded(v)
    /\ IsPacked(v) => Elements(v) \cap Codes = {}
    /\ IsUntyped(v) => \A b \in Answered : IsPacked(b) => Elements(v) \cap Elements(b) = {}
    /\ IsRange(v) /\ HasScale(v) /\ HasSpan(v) /\ ~IsStepped(v) => v.value \in Lowest(v)..Highest(v)

IsPlan(p) == p = [result |-> p.result, value |-> p.value, changes |-> p.changes, optedIn |-> p.optedIn]

SameScale(a, b) ==
    /\ a \in Scales /\ b \in Scales /\ IsDecoded(a) /\ HasScale(a) /\ HasSpan(a)
    /\ <<a.lower, a.upper, a.steps>> = <<b.lower, b.upper, b.steps>>

IInv ==
    /\ IsGenuine(value) /\ IsStill(value, asked)
    /\ IsPlan(plan)
    /\ plan.result = "planned" /\ IsRange(value) => SameScale(plan.value, body)
    /\ MeaningIsKept /\ ChangesAreTrue
=============================================================================
