--------------------------- MODULE TransplantPlan ---------------------------
(***************************************************************************)
(* What a transplant writes for one property, and whether it writes at all *)
(* (transplant.rs, value_shape.rs).  A value is what a snapshot stores or  *)
(* a body answers:                                                         *)
(*   enum   [kind, type, bytes, values, index, counted]: `values` are the  *)
(*          elements the SDK decoded (None: it could not), each a sequence *)
(*          of letters; `type` is elem_type, `bytes` elem_bytes (0: not    *)
(*          there), `counted` says that elem_count agrees with `values`;   *)
(*   range  [kind, lower, upper, steps, index, value], steps None if the   *)
(*          scale is not usable; scales have whole steps;                  *)
(*   number, bool, text  [kind, value];  other.                            *)
(* Which reason a property is skipped for is left out.                     *)
(***************************************************************************)
EXTENDS Integers, Sequences, FiniteSets

CONSTANTS
    None,        \* nothing there
    Letters,     \* what labels and codes are written with
    Odd,         \* the letter that stands for bytes that are no text (U+FFFD)
    Unresolved   \* UNRESOLVED_LABEL, what the SDK says of a label it did not find

IsEnum(v) == v.kind = "enum"
IsRange(v) == v.kind = "range"
IsLabel(v) == v.type = "label"
Distance(x, y) == IF x > y THEN x - y ELSE y - x

-----------------------------------------------------------------------------
(* Ranges (value_shape.rs). *)

HasScale(v) == v.steps # None
HasSpan(v) == v.lower # v.upper
IsStepped(v) == HasScale(v) /\ v.steps >= 2 /\ HasSpan(v)
Step(v) == (v.upper - v.lower) \div (v.steps - 1)
ValueAt(v, i) == v.lower + i * Step(v)

\* The number a range holds: a stepped one's is in its index, and its `value` is junk.
RangeValue(v) ==
    IF ~IsStepped(v) THEN v.value
    ELSE IF v.index # None /\ v.index < v.steps THEN ValueAt(v, v.index) ELSE None

\* Plausible bug: a tolerance relative to the value, which exceeds a step at the top of a scale.
AgreeRelatively(a, b) ==
    LET x == RangeValue(a)  y == RangeValue(b) IN
    x # None /\ y # None /\ 40 * Distance(x, y) <= Distance(x, 0)

\* range_values_agree: the same position, or the same number.
RangeValuesAgree(a, b) ==
    LET x == RangeValue(a)
        y == RangeValue(b)
        stepped == {v \in {a, b} : IsStepped(v)} IN
    /\ x # None /\ y # None
    /\ \A v \in stepped : 2 * Distance(x, y) < Distance(Step(v), 0)
    /\ stepped = {} => x = y

Lowest(v) == IF v.lower < v.upper THEN v.lower ELSE v.upper
Highest(v) == IF v.lower < v.upper THEN v.upper ELSE v.lower
Clamped(x, v) == IF x < Lowest(v) THEN Lowest(v) ELSE IF x > Highest(v) THEN Highest(v) ELSE x
\* The index of the position nearest to x, of two the one further on.
Nearest(x, v) == LET d == Distance(Step(v), 0) IN (2 * Distance(x, v.lower) + d) \div (2 * d)

\* check_range_scale and translate_range: a position is carried on one and the same scale only.
RangeFits(source, live) ==
    /\ HasScale(source) /\ HasSpan(source) /\ RangeValue(source) # None
    /\ IsRange(live) /\ HasScale(live)
    /\ <<live.lower, live.upper, live.steps>> = <<source.lower, source.upper, source.steps>>
RangeOut(source, live) ==
    LET x == Clamped(RangeValue(source), live)  i == Nearest(x, live) IN
    IF IsStepped(live) THEN [live EXCEPT !.index = i, !.value = ValueAt(live, i)]
                       ELSE [live EXCEPT !.index = 0, !.value = x]

-----------------------------------------------------------------------------
(* Enumerations. *)

\* Plausible bug (the one the code had): an index of the options is used on the elements.
ElementsAsOptions(v) == v.values

\* packed_string_options: with one byte per element, an element is a letter and the empty one the
\* NUL that ends a label; a last label need not have one.  Reading(values)[n] is what the loop holds
\* after n elements.
Reading(values) ==
    LET read[n \in 0..Len(values)] ==
            IF n = 0 THEN [done |-> <<>>, label |-> <<>>]
            ELSE IF values[n] = <<>> THEN [done |-> Append(read[n - 1].done, read[n - 1].label), label |-> <<>>]
            ELSE [done |-> read[n - 1].done, label |-> read[n - 1].label \o values[n]]
    IN read
Options(v) ==
    LET all == Reading(v.values)[Len(v.values)] IN
    IF v.bytes > 1 THEN v.values
    ELSE IF all.label = <<>> THEN all.done ELSE Append(all.done, all.label)

IsUsable(label) == label # Unresolved /\ \A i \in DOMAIN label : label[i] # Odd
Places(options, o) == {i \in DOMAIN options : options[i] = o}

\* What identifies an option of v, for a source that is matched by label or by code.
Names(v, byLabel) == IF byLabel THEN Options(v) ELSE v.values
IsSound(v) == v.values # None /\ v.counted /\ v.type # "unknown" /\ ~(v.type = "none" /\ v.bytes = 1)

\* translate_enum: the option is named once on either side, by a name that says which it is.
EnumFits(source, live) ==
    /\ IsEnum(live) /\ IsSound(source) /\ IsSound(live)
    /\ source.index \in 0..(Len(source.values) - 1)
    /\ "none" \notin {source.type, live.type} => (IsLabel(source) <=> IsLabel(live))
    /\ IsLabel(source) => source.bytes > 0 /\ live.bytes > 0
    /\ LET mine == Names(source, IsLabel(source)) IN
       /\ source.index < Len(mine)
       /\ IsLabel(source) => IsUsable(mine[source.index + 1])
       /\ Cardinality(Places(mine, mine[source.index + 1])) = 1
       /\ Cardinality(Places(Names(live, IsLabel(source)), mine[source.index + 1])) = 1
EnumOut(source, live) ==
    LET name == Names(source, IsLabel(source))[source.index + 1] IN
    [live EXCEPT !.index = (CHOOSE i \in Places(Names(live, IsLabel(source)), name) : TRUE) - 1]

-----------------------------------------------------------------------------
(* One property: what is read, what is written, and what is said of it. *)

\* What the tables and the body say of the code: "open", "unverified" (a range is copied between
\* models only if both are listed), "never" (NeverCopy) or "shut" (NeverTranslate, absent, another
\* setting by its names, read-only).
Prechecks(source, gate) == gate = "open" \/ (gate = "unverified" /\ ~IsRange(source))

NeedsLive(source) == IsEnum(source) \/ IsRange(source)
IsRead(source) == NeedsLive(source) \/ source.kind = "number"

Translates(source, live) ==
    \/ IsEnum(source) /\ live # None /\ EnumFits(source, live)
    \/ IsRange(source) /\ live # None /\ RangeFits(source, live)
    \/ source.kind \in {"number", "bool", "text"}
Translated(source, live) ==
    IF IsEnum(source) THEN EnumOut(source, live)
    ELSE IF IsRange(source) THEN RangeOut(source, live) ELSE source

\* The kinds whose numbers are said to mean the same on both bodies only by a person who opted in
\* (resolve_allow_raw_code).
IsGated(source) == (IsEnum(source) /\ ~IsLabel(source)) \/ source.kind = "number"

\* raw_code_gate and literal_gate.
PassesGates(source, live, optedIn) ==
    /\ source.kind = "number" /\ live # None => live.kind = "number"
    /\ \/ ~IsGated(source) \/ optedIn
       \/ IsEnum(source) /\ live.index = EnumOut(source, live).index
       \/ source.kind = "number" /\ live # None /\ live.value = source.value

\* write_changes.
Changes(source, live) ==
    LET out == Translated(source, live)
        Said(same) == IF same THEN "no" ELSE "yes" IN
    CASE IsEnum(source) -> Said(live.index = out.index)
      [] IsRange(source) /\ RangeValue(live) # None -> Said(RangeValuesAgree(out, live))
      [] source.kind = "number" /\ live # None -> Said(live.value = source.value)
      [] OTHER -> "unknown"

\* transplant_one up to the write.
Plans(source, live, gate, optedIn) ==
    Prechecks(source, gate) /\ Translates(source, live) /\ PassesGates(source, live, optedIn)
=============================================================================
