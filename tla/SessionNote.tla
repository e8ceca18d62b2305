---------------------------- MODULE SessionNote ----------------------------
(***************************************************************************)
(* The marker of a lost apply and the servers that tell of it              *)
(* (mcp supervisor.rs, server.rs).  A server that exits with an apply in   *)
(* its writes leaves `in-flight-apply.json`; a server that starts reads    *)
(* it, hangs the note on its first result that can carry one and renames   *)
(* the file.  Servers of two clients may share the data directory, and     *)
(* tasks go on answering while an exit is recorded.                        *)
(***************************************************************************)
EXTENDS Naturals

CONSTANTS
    Servers,   \* server slots; one that ended may start again
    Nothing,   \* no marker, no note
    MaxLost,   \* applies lost to an exit (a bound)
    MaxFaults  \* file operations that fail (a bound)

VARIABLES
    marker,   \* MARKER_FILE: the lost apply it tells of, or Nothing
    seen,     \* MARKER_SEEN_FILE
    state,    \* per server: "off", "up" or "leaving" (its exit is recorded)
    note,     \* per server: FleetMcp::previous_session
    hand,     \* per server: the note it has given to a result that was not sent yet
    shown,    \* per server: that result carries it
    step,     \* per server: "idle", "rename" or "send"
    lost,     \* how many applies were recorded as lost; they are numbered
    told,     \* history: those a client was told of
    excused,  \* history: those replaced by a later one, marked as seen by a server that told of
              \* another, or on a result its server never sent
    faults

vars == <<marker, seen, state, note, hand, shown, step, lost, told, excused, faults>>

Init ==
    /\ marker = Nothing /\ seen = Nothing
    /\ state = [s \in Servers |-> "off"] /\ step = [s \in Servers |-> "idle"]
    /\ note = [s \in Servers |-> Nothing] /\ hand = [s \in Servers |-> Nothing]
    /\ shown = [s \in Servers |-> FALSE]
    /\ lost = 0 /\ told = {} /\ excused = {} /\ faults = 0

Faulty == faults < MaxFaults /\ faults' = faults + 1

\* FleetMcp::new reads the marker and leaves it where it is.
Start(s) ==
    /\ state[s] = "off"
    /\ state' = [state EXCEPT ![s] = "up"]
    /\ note' = [note EXCEPT ![s] = marker]
    /\ UNCHANGED <<marker, seen, hand, shown, step, lost, told, excused, faults>>

\* Plausible bug: the note counts as delivered on any result.
CarriesAny(object) == TRUE

\* attach_previous_session: a result without a structured object cannot carry the note.
Carries(object) == object
Attach(s, object) ==
    /\ state[s] # "off" /\ step[s] = "idle" /\ note[s] # Nothing
    /\ Carries(object)
    /\ hand' = [hand EXCEPT ![s] = note[s]]
    /\ shown' = [shown EXCEPT ![s] = object]
    /\ note' = [note EXCEPT ![s] = Nothing]
    /\ step' = [step EXCEPT ![s] = "rename"]
    /\ UNCHANGED <<marker, seen, state, lost, told, excused, faults>>

\* acknowledge_previous_session renames whatever marker is there now; a rename that fails is only
\* logged.
Acknowledge(s) ==
    /\ state[s] # "off" /\ step[s] = "rename"
    /\ step' = [step EXCEPT ![s] = "send"]
    /\ \/ /\ marker # Nothing
          /\ seen' = marker /\ marker' = Nothing
          /\ excused' = IF marker # hand[s] THEN excused \cup {marker} ELSE excused
          /\ UNCHANGED faults
       \/ marker = Nothing /\ UNCHANGED <<marker, seen, excused, faults>>
       \/ marker # Nothing /\ Faulty /\ UNCHANGED <<marker, seen, excused>>
    /\ UNCHANGED <<state, note, hand, shown, lost, told>>

Send(s) ==
    /\ state[s] # "off" /\ step[s] = "send"
    /\ told' = IF shown[s] THEN told \cup {hand[s]} ELSE told
    /\ hand' = [hand EXCEPT ![s] = Nothing]
    /\ step' = [step EXCEPT ![s] = "idle"]
    /\ UNCHANGED <<marker, seen, state, note, shown, lost, excused, faults>>

\* record_in_flight_at_exit for an apply in its writes: an earlier marker is replaced.
Loses(s) ==
    /\ state[s] = "up"
    /\ state' = [state EXCEPT ![s] = "leaving"]
    /\ \/ /\ lost < MaxLost /\ lost' = lost + 1
          /\ marker' = lost + 1
          /\ excused' = excused \cup ({marker} \ {Nothing})
          /\ UNCHANGED faults
       \/ Faulty /\ UNCHANGED <<marker, lost, excused>>
    /\ UNCHANGED <<seen, note, hand, shown, step, told>>

\* The process ends: after its exit was recorded, with nothing to record, or killed.
Ends(s) ==
    /\ state[s] # "off"
    /\ state' = [state EXCEPT ![s] = "off"]
    /\ excused' = IF step[s] = "send" /\ shown[s] THEN excused \cup {hand[s]} ELSE excused
    /\ note' = [note EXCEPT ![s] = Nothing]
    /\ hand' = [hand EXCEPT ![s] = Nothing]
    /\ step' = [step EXCEPT ![s] = "idle"]
    /\ UNCHANGED <<marker, seen, shown, lost, told, faults>>

Next == \E s \in Servers :
    \/ Start(s) \/ (\E object \in BOOLEAN : Attach(s, object)) \/ Acknowledge(s) \/ Send(s)
    \/ Loses(s) \/ Ends(s)

Spec == Init /\ [][Next]_vars

-----------------------------------------------------------------------------
TypeOK ==
    /\ {marker, seen} \cup {note[s] : s \in Servers} \subseteq {Nothing} \cup 1..MaxLost
    /\ told \cup excused \subseteq 1..MaxLost

\* A recorded lost apply waits as the marker until a client was told of it, whatever renames fail
\* and whoever dies or starts in between (previous_session_note, report_previous_session): but for
\* one that a later lost apply replaced, one recorded while a server still had an earlier note to
\* tell (its acknowledgment takes the later marker away), and one on a result that its server
\* did not live to send.
LostIsNotForgotten ==
    \A id \in 1..lost :
        id \in told \cup excused \/ id = marker \/ \E s \in Servers : hand[s] = id

-----------------------------------------------------------------------------
(* The inductive invariant. *)

Types ==
    /\ lost \in Nat
    /\ hand \in [Servers -> {Nothing} \cup Nat]
    /\ note \in [Servers -> {Nothing} \cup Nat]
    /\ marker \in {Nothing} \cup Nat
    /\ DOMAIN step = Servers
    /\ DOMAIN shown = Servers

\* A server waits to send only what will carry its note.
Promised == \A s \in Servers : step[s] \in {"rename", "send"} => shown[s]

\* A note that was taken but not acknowledged counts for nothing: its marker is still there, or
\* another server has acknowledged it, or it is excused.
Waits ==
    \A id \in 1..lost :
        \/ id \in told \cup excused
        \/ id = marker
        \/ \E s \in Servers : step[s] = "send" /\ hand[s] = id

IInv == Types /\ Promised /\ Waits
=============================================================================
