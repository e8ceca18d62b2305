------------------------------ MODULE MCParts ------------------------------
(* Model values for the run of Parts. *)
EXTENDS Parts, TLC

\* Values of one property, in a snapshot or a body.  A label's bytes are its letters and a NUL (<<>>).
EnumOf(type, bytes, values, index) ==
    [kind |-> "enum", type |-> type, bytes |-> bytes, values |-> values, index |-> index, counted |-> TRUE]
ScaleOf(from, to, steps, index, number) ==
    [kind |-> "range", lower |-> from, upper |-> to, steps |-> steps, index |-> index, value |-> number]
Tables == <<
    <<<<"a">>, <<"b">>, <<>>, <<"c">>, <<>>>>,                             \* ab, c
    <<<<"c">>, <<>>, <<"a">>, <<"b">>>>,                                   \* c, ab
    <<<<"?">>, <<>>, <<"b">>, <<"odd">>, <<>>, <<"?">>, <<>>>>,            \* labels that say nothing
    <<<<"c">>, <<>>, <<"c">>, <<>>, <<"a">>, <<"b">>, <<>>>> >>            \* c twice
Labels ==
    {EnumOf("label", 1, Tables[n], i) : n \in 1..4, i \in {0, 1}}
    \cup {EnumOf("label", 1, Tables[4], 2)}
    \cup {EnumOf("label", 2, <<<<"c">>, <<"a", "b">>>>, i) : i \in {0, 2}}
RawCodes ==
    {EnumOf("raw", 2, <<<<"5">>, <<"4">>>>, i) : i \in {0, None}}
    \cup {EnumOf("none", 2, <<<<"4">>, <<"5">>, <<"6">>>>, 1), EnumOf("raw", 2, <<<<"4">>, <<"5">>, <<"4">>>>, 2)}
Defects ==
    {EnumOf("none", 1, Tables[1], 1), EnumOf("unknown", 2, <<<<"4">>>>, 0), EnumOf("label", 0, Tables[1], 1),
     EnumOf("raw", 2, None, 0), [EnumOf("raw", 2, <<<<"4">>, <<"5">>>>, 1) EXCEPT !.counted = FALSE]}
Ranges ==
    {ScaleOf(1000, 1060, 4, 3, 0), ScaleOf(1000, 1060, 4, 2, 0), ScaleOf(1060, 1000, 4, 2, 0), ScaleOf(1000, 1060, 4, 4, 0),
     ScaleOf(1000, 1060, 0, 0, 1010), ScaleOf(1000, 1000, 0, 0, 1000), ScaleOf(1000, 1060, None, 0, 1010)}
MCValues ==
    Labels \cup RawCodes \cup Defects \cup Ranges
    \cup {[kind |-> k, value |-> 1] : k \in {"number", "bool", "text", "other"}}

MCBudgets ==
    {[starts |-> 3, spans |-> 1, faults |-> 0, reports |-> 0],
     [starts |-> 3, spans |-> 0, faults |-> 0, reports |-> 1],
     [starts |-> 2, spans |-> 2, faults |-> 1, reports |-> 1]}
MCLetters == {"a", "b", "c", "?", "odd", "4", "5", "6"}
MCCodes == {<<"4">>, <<"5">>}
MCUnresolved == <<"?">>

\* Writers, pids, servers, binaries and processes are alike, and a report that was made is judged
\* and done.
Alike == Permutations(Writers) \cup Permutations(Processes) \cup Permutations(Binaries)
UntilReported == part = "diag" => x11.step # "done"
=============================================================================
