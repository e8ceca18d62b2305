----------------------------- MODULE Parts_proof -----------------------------
(***************************************************************************)
(* Proofs about the parts, each for any values of its constants.  A part's *)
(* inductive invariant is in its module (IInv); here are its steps.  The   *)
(* variables are those of the composition, in the order in which Parts     *)
(* gives them to the part.                                                 *)
(***************************************************************************)
EXTENDS Parts, TLAPS, FiniteSetTheorems, WellFoundedInduction

-----------------------------------------------------------------------------
(* The marker of a lost apply (SessionNote). *)

LEMMA SessionInit == Session!Init => Session!IInv
  BY SMT DEF Session!Init, Session!IInv, Session!Types, Session!Promised, Session!Waits

LEMMA SessionStart ==
    ASSUME Session!IInv, NEW s \in Servers, Session!Start(s)
    PROVE Session!IInv'
  <1>1. Session!Types'
    BY DEF Session!IInv, Session!Types, Session!Start
  <1>2. Session!Promised' /\ Session!Waits'
    BY DEF Session!IInv, Session!Promised, Session!Waits, Session!Start
  <1> QED BY <1>1, <1>2 DEF Session!IInv

LEMMA SessionAttach ==
    ASSUME Session!IInv, NEW s \in Servers, NEW object \in BOOLEAN, Session!Attach(s, object)
    PROVE Session!IInv'
  <1>1. Session!Types'
    BY DEF Session!IInv, Session!Types, Session!Attach
  <1>2. Session!Promised'
    BY DEF Session!IInv, Session!Types, Session!Promised, Session!Attach, Session!Carries
  <1>3. Session!Waits'
    BY DEF Session!IInv, Session!Types, Session!Waits, Session!Attach
  <1> QED BY <1>1, <1>2, <1>3 DEF Session!IInv

\* The marker that goes was the note of this server, or is excused.
LEMMA SessionAcknowledge ==
    ASSUME Session!IInv, NEW s \in Servers, Session!Acknowledge(s)
    PROVE Session!IInv'
  <1> DEFINE marker == x1  hand == x5  step == x7  lost == x8  told == x9  excused == x10
  <1>1. Session!Types'
    BY DEF Session!IInv, Session!Types, Session!Acknowledge, Session!Faulty
  <1>2. Session!Promised'
    BY DEF Session!IInv, Session!Types, Session!Promised, Session!Acknowledge
  <1>3. Session!Waits'
    <2> SUFFICES ASSUME NEW id \in 1..lost
                 PROVE \/ id \in told \cup excused'
                       \/ id = marker'
                       \/ \E t \in Servers : step'[t] = "send" /\ hand[t] = id
      BY DEF Session!Waits, Session!Acknowledge
    <2>1. step' = [step EXCEPT ![s] = "send"] /\ step[s] = "rename"
      BY DEF Session!Acknowledge
    <2>2. \A t \in Servers : step[t] = "send" => step'[t] = "send"
      BY <2>1 DEF Session!IInv, Session!Types
    <2>3. step'[s] = "send"
      BY <2>1 DEF Session!IInv, Session!Types
    <2>4. excused \subseteq excused' /\ (marker' = marker \/ marker \in excused' \/ marker = hand[s])
      BY DEF Session!Acknowledge
    <2> QED BY <2>2, <2>3, <2>4 DEF Session!IInv, Session!Waits
  <1> QED BY <1>1, <1>2, <1>3 DEF Session!IInv

LEMMA SessionSend ==
    ASSUME Session!IInv, NEW s \in Servers, Session!Send(s)
    PROVE Session!IInv'
  <1> DEFINE hand == x5  told == x9
  <1>1. Session!Types'
    BY DEF Session!IInv, Session!Types, Session!Send
  <1>2. Session!Promised'
    BY DEF Session!IInv, Session!Types, Session!Promised, Session!Send
  <1>3. told' = told \cup {hand[s]}
    BY DEF Session!IInv, Session!Promised, Session!Send
  <1>4. Session!Waits'
    BY <1>3 DEF Session!IInv, Session!Types, Session!Waits, Session!Send
  <1> QED BY <1>1, <1>2, <1>4 DEF Session!IInv

\* A marker that is replaced is excused: it is no number that means nothing.
LEMMA SessionLoses ==
    ASSUME Session!IInv, NEW s \in Servers, Session!Loses(s)
    PROVE Session!IInv'
  <1> DEFINE marker == x1  hand == x5  step == x7  lost == x8  told == x9  excused == x10
  <1>1. Session!Types'
    BY DEF Session!IInv, Session!Types, Session!Loses, Session!Faulty
  <1>2. Session!Promised'
    BY DEF Session!IInv, Session!Promised, Session!Loses
  <1>3. Session!Waits'
    <2>1. CASE lost' = lost + 1 /\ marker' = lost + 1 /\ excused' = excused \cup ({marker} \ {None})
      <3> SUFFICES ASSUME NEW id \in 1..lost'
                   PROVE \/ id \in told \cup excused'
                         \/ id = marker'
                         \/ \E t \in Servers : step[t] = "send" /\ hand[t] = id
        BY DEF Session!Waits, Session!Loses
      <3>1. id = lost + 1 \/ id \in 1..lost
        BY <2>1 DEF Session!IInv, Session!Types
      <3>2. id # None
        BY <2>1, PartsAssumption DEF Session!IInv, Session!Types
      <3> QED BY <3>1, <3>2, <2>1 DEF Session!IInv, Session!Waits
    <2>2. CASE UNCHANGED <<marker, lost, excused>>
      BY <2>2 DEF Session!IInv, Session!Waits, Session!Loses
    <2> QED BY <2>1, <2>2 DEF Session!Loses
  <1> QED BY <1>1, <1>2, <1>3 DEF Session!IInv

\* A server that ends before it sent takes a note with it that is then excused.
LEMMA SessionEnds ==
    ASSUME Session!IInv, NEW s \in Servers, Session!Ends(s)
    PROVE Session!IInv'
  <1> DEFINE hand == x5  step == x7  excused == x10
  <1>1. Session!Types'
    BY DEF Session!IInv, Session!Types, Session!Ends
  <1>2. Session!Promised'
    BY DEF Session!IInv, Session!Types, Session!Promised, Session!Ends
  <1>3. step[s] = "send" => hand[s] \in excused'
    BY DEF Session!IInv, Session!Promised, Session!Ends
  <1>4. excused \subseteq excused'
    BY DEF Session!Ends
  <1>5. \A t \in Servers : t # s => step'[t] = step[t] /\ hand'[t] = hand[t]
    BY DEF Session!Ends, Session!IInv, Session!Types
  <1>6. Session!Waits'
    BY <1>3, <1>4, <1>5 DEF Session!IInv, Session!Waits, Session!Ends
  <1> QED BY <1>1, <1>2, <1>6 DEF Session!IInv

LEMMA SessionNext ==
    ASSUME Session!IInv, [Session!Next]_Session!vars
    PROVE Session!IInv'
  <1>1. CASE Session!Next
    BY <1>1, SessionStart, SessionAttach, SessionAcknowledge, SessionSend, SessionLoses, SessionEnds DEF Session!Next
  <1>2. CASE UNCHANGED Session!vars
    BY <1>2 DEF Session!vars, Session!IInv, Session!Types, Session!Promised, Session!Waits
  <1> QED BY <1>1, <1>2

\* What waits for a client is never dropped: a recorded lost apply stays the marker, or in the
\* hands of a server that will send it, until a client was told, but for the cases `excused' names,
\* for any servers and faults (previous_session_note, report_previous_session,
\* record_in_flight_at_exit).
THEOREM LostStaysKnown == Spec => []LostIsNotForgotten
  <1> DEFINE Inv == part = "session" => Session!IInv
  <1>1. Init => Inv
    BY SessionInit DEF Init
  <1>2. Inv /\ [Next]_vars => Inv'
    <2> SUFFICES ASSUME Inv, [Next]_vars, part' = "session"
                 PROVE  Session!IInv'
      OBVIOUS
    <2>1. part = "session" /\ [Session!Next]_Session!vars
      BY DEF Next, vars, Session!vars, FirmwareStep, DiagStep, RingStep, SessionStep, ServerStep, PropertyStep
    <2> QED
      BY <2>1, SessionNext
  <1>3. Inv => LostIsNotForgotten
    BY DEF LostIsNotForgotten, Session!LostIsNotForgotten, Session!IInv, Session!Waits
  <1> QED BY <1>1, <1>2, <1>3, PTL DEF Spec

-----------------------------------------------------------------------------
(* The test file on an FTP server (FtpTest). *)

\* What the proofs need of the plan: its steps differ, and the four about the file are its last.
LEMMA ServerPlan ==
    \E n \in Nat :
        /\ n > 1 /\ DOMAIN Server!plan = 1..(n + 3) /\ Len(Server!plan) = n + 3
        /\ Server!plan[1] = "resolve" /\ Server!plan[n] = "upload" /\ Server!plan[n + 1] = "download"
        /\ Server!plan[n + 2] = "compare" /\ Server!plan[n + 3] = "delete"
        /\ \A i \in 1..(n - 1) : Server!plan[i] \in Server!Early
        /\ \A i, j \in 1..(n + 3) : Server!plan[i] = Server!plan[j] => i = j
  <1>1. CASE x1 = "ftp"
    <2>1. Server!plan = <<"resolve", "connect", "login", "folder", "upload", "download", "compare", "delete">>
      BY <1>1 DEF Server!plan
    <2> WITNESS 5 \in Nat
    <2> QED BY <2>1 DEF Server!Early
  <1>2. CASE x1 # "ftp"
    <2>1. Server!plan = <<"resolve", "connect", "handshake", "login", "folder", "upload", "download", "compare", "delete">>
      BY <1>2 DEF Server!plan
    <2> WITNESS 6 \in Nat
    <2> QED BY <2>1 DEF Server!Early
  <1> QED BY <1>1, <1>2

\* After an early step comes the next of the plan.
LEMMA ServerAfter ==
    ASSUME NEW s \in Server!Early, NEW k \in DOMAIN Server!plan, Server!plan[k] = s
    PROVE  /\ k + 1 \in DOMAIN Server!plan /\ Server!After(s) = Server!plan[k + 1]
           /\ Server!plan[k + 1] \in Server!Early \cup {"upload"}
  <1>1. PICK n \in Nat :
        /\ n > 1 /\ DOMAIN Server!plan = 1..(n + 3) /\ Len(Server!plan) = n + 3
        /\ Server!plan[1] = "resolve" /\ Server!plan[n] = "upload" /\ Server!plan[n + 1] = "download"
        /\ Server!plan[n + 2] = "compare" /\ Server!plan[n + 3] = "delete"
        /\ \A i \in 1..(n - 1) : Server!plan[i] \in Server!Early
        /\ \A i, j \in 1..(n + 3) : Server!plan[i] = Server!plan[j] => i = j
    BY ServerPlan
  <1> HIDE DEF Server!plan
  <1>2. k \in 1..(n - 1)
    BY <1>1 DEF Server!Early
  <1>3. (CHOOSE i \in DOMAIN Server!plan : Server!plan[i] = s) = k
    BY <1>1
  <1> QED BY <1>1, <1>2, <1>3 DEF Server!After

LEMMA ServerInit == Server!Init => Server!IInv
  <1> SUFFICES ASSUME Server!Init
               PROVE  Server!IInv
    OBVIOUS
  <1>1. Server!Steps = {Server!plan[i] : i \in DOMAIN Server!plan}
    BY DEF Server!Steps
  <1>2. "resolve" \in Server!Steps /\ "delete" \in Server!Steps
    BY <1>1, ServerPlan
  <1>3. Server!Behind
    BY ServerPlan DEF Server!Init, Server!Behind
  <1> QED BY <1>2, <1>3 DEF Server!Init, Server!IInv, Server!TypeOK, Server!Ahead, Server!FileIsAccounted

\* The plan is that of the protocol, which no step changes.
LEMMA ServerFixed ==
    ASSUME Server!Next \/ UNCHANGED Server!vars
    PROVE  /\ Server!plan' = Server!plan /\ Server!Steps' = Server!Steps
           /\ UNCHANGED <<x1, x2>>
  <1>1. UNCHANGED <<x1, x2>>
    BY DEF Server!Next, Server!vars, Server!env, Server!EarlyOk, Server!EarlyFails, Server!PutOk, Server!GetOk,
       Server!GetFails, Server!PutFails, Server!DeleteAnswered, Server!DeleteUnanswered, Server!DeleteMisread,
       Server!Deletes
  <1> QED BY <1>1 DEF Server!plan, Server!Steps

\* A test that ends before the upload.
LEMMA ServerEnds ==
    ASSUME Server!IInv, Server!Next, NEW what \in {"ok", "failed"}, x3 \in Server!Early,
           x4' = Server!SkipUnrecorded(Server!Recorded(x4, x3, what)), x3' = "done",
           UNCHANGED <<x5, x6, x7, x8, x9>>
    PROVE  Server!IInv'
  <1>1. Server!plan' = Server!plan /\ Server!Steps' = Server!Steps
    BY ServerFixed
  <1>2. "delete" \in Server!Steps
    BY ServerPlan DEF Server!Steps
  <1>3. /\ x4' \in [Server!Steps -> {"none", "ok", "failed", "skipped"}]
        /\ \A s \in Server!Steps : x4'[s] # "none"
        /\ x4'["delete"] = "skipped"
    BY <1>2 DEF Server!IInv, Server!TypeOK, Server!Ahead, Server!SkipUnrecorded, Server!Recorded, Server!Early
  <1>4. Server!Behind'
    BY <1>1, <1>3 DEF Server!Behind, Server!Steps
  <1> QED BY <1>1, <1>3, <1>4 DEF Server!IInv, Server!TypeOK, Server!Ahead, Server!FileIsAccounted, Server!Early

LEMMA ServerEarly ==
    ASSUME Server!IInv, Server!EarlyOk \/ Server!EarlyFails
    PROVE  Server!IInv'
  <1>0. Server!Next /\ x3 \in Server!Early /\ UNCHANGED <<x5, x6, x7, x8, x9>>
    BY DEF Server!Next, Server!EarlyOk, Server!EarlyFails, Server!server
  <1>1. CASE Server!EarlyFails
    BY <1>0, <1>1, ServerEnds DEF Server!EarlyFails
  <1>2. CASE Server!EarlyOk /\ x3 = "folder" /\ ~x2
    BY <1>0, <1>2, ServerEnds DEF Server!EarlyOk
  <1>3. CASE Server!EarlyOk /\ ~(x3 = "folder" /\ ~x2)
    <2>1. x4' = Server!Recorded(x4, x3, "ok") /\ x3' = Server!After(x3)
      BY <1>3 DEF Server!EarlyOk
    <2>2. Server!plan' = Server!plan /\ Server!Steps' = Server!Steps
      BY <1>0, ServerFixed
    <2>3. PICK k \in DOMAIN Server!plan : Server!plan[k] = x3
      BY <1>0 DEF Server!IInv, Server!TypeOK, Server!Steps, Server!Early
    <2>4. /\ k + 1 \in DOMAIN Server!plan /\ x3' = Server!plan[k + 1]
          /\ x3' \in Server!Early \cup {"upload"} /\ x3' \in Server!Steps
      BY <1>0, <2>1, <2>3, ServerAfter DEF Server!Steps
    <2>5. /\ x4' \in [Server!Steps -> {"none", "ok", "failed", "skipped"}]
          /\ x4'[x3] = "ok" /\ \A s \in Server!Steps : s # x3 => x4'[s] = x4[s]
          /\ x4'["delete"] = x4["delete"]
      BY <1>0, <2>1, <2>3 DEF Server!IInv, Server!TypeOK, Server!Recorded, Server!Steps, Server!Early
    <2>6. Server!Behind'
      <3> SUFFICES ASSUME NEW i \in DOMAIN Server!plan, NEW j \in DOMAIN Server!plan, i < j, Server!plan[j] = x3'
                   PROVE  x4'[Server!plan[i]] # "none"
        BY <2>2 DEF Server!Behind
      <3>1. DOMAIN Server!plan \subseteq Nat /\ j = k + 1
        BY <2>4, ServerPlan
      <3>2. i = k \/ i < k
        BY <3>1
      <3>3. i < k => x4[Server!plan[i]] # "none"
        BY <2>3 DEF Server!IInv, Server!Behind
      <3> QED BY <2>3, <2>5, <3>2, <3>3 DEF Server!Steps
    <2> QED
      BY <1>0, <2>2, <2>4, <2>5, <2>6
      DEF Server!IInv, Server!TypeOK, Server!Ahead, Server!FileIsAccounted, Server!Early
  <1> QED BY <1>1, <1>2, <1>3

\* The steps of the file, in their places: what comes before each.
LEMMA ServerFileSteps ==
    ASSUME Server!IInv, x3 \in {"upload", "download", "delete"}
    PROVE  /\ \A s \in Server!Steps \ {"upload", "download", "compare", "delete"} : x4[s] # "none"
           /\ x3 # "upload" => x4["upload"] # "none"
           /\ x3 = "delete" => x4["download"] # "none" /\ x4["compare"] # "none"
           /\ {"upload", "download", "compare", "delete"} \subseteq Server!Steps
  <1>1. PICK n \in Nat :
        /\ n > 1 /\ DOMAIN Server!plan = 1..(n + 3) /\ Len(Server!plan) = n + 3
        /\ Server!plan[1] = "resolve" /\ Server!plan[n] = "upload" /\ Server!plan[n + 1] = "download"
        /\ Server!plan[n + 2] = "compare" /\ Server!plan[n + 3] = "delete"
        /\ \A i \in 1..(n - 1) : Server!plan[i] \in Server!Early
        /\ \A i, j \in 1..(n + 3) : Server!plan[i] = Server!plan[j] => i = j
    BY ServerPlan
  <1> HIDE DEF Server!plan
  <1>2. PICK k \in {n, n + 1, n + 3} :
           Server!plan[k] = x3 /\ \A i \in DOMAIN Server!plan : i < k => x4[Server!plan[i]] # "none"
    BY <1>1 DEF Server!IInv, Server!Behind
  <1>3. ASSUME NEW s \in Server!Steps \ {"upload", "download", "compare", "delete"}
        PROVE  x4[s] # "none"
    <2>1. PICK i \in 1..(n + 3) : Server!plan[i] = s
      BY <1>1 DEF Server!Steps
    <2>2. i < n
      BY <1>1, <2>1
    <2> QED BY <1>1, <1>2, <2>1, <2>2
  <1>4. {"upload", "download", "compare", "delete"} \subseteq Server!Steps
    BY <1>1 DEF Server!Steps
  <1>5. /\ x3 # "upload" => k # n
        /\ x3 = "delete" => k = n + 3
    BY <1>1, <1>2
  <1> QED BY <1>1, <1>2, <1>3, <1>4, <1>5

\* A step that leaves the test at the download or the delete, with what was before it recorded.
LEMMA ServerBehind ==
    ASSUME x3' \in {"download", "delete"}, Server!plan' = Server!plan,
           \A s \in Server!Steps \ {"upload", "download", "compare", "delete"} : x4'[s] # "none",
           x4'["upload"] # "none", x3' = "delete" => x4'["download"] # "none" /\ x4'["compare"] # "none"
    PROVE  Server!Behind'
  <1>1. PICK n \in Nat :
        /\ n > 1 /\ DOMAIN Server!plan = 1..(n + 3) /\ Len(Server!plan) = n + 3
        /\ Server!plan[1] = "resolve" /\ Server!plan[n] = "upload" /\ Server!plan[n + 1] = "download"
        /\ Server!plan[n + 2] = "compare" /\ Server!plan[n + 3] = "delete"
        /\ \A i \in 1..(n - 1) : Server!plan[i] \in Server!Early
        /\ \A i, j \in 1..(n + 3) : Server!plan[i] = Server!plan[j] => i = j
    BY ServerPlan
  <1> HIDE DEF Server!plan
  <1> SUFFICES ASSUME NEW i \in DOMAIN Server!plan, NEW j \in DOMAIN Server!plan, i < j, Server!plan[j] = x3'
               PROVE  x4'[Server!plan[i]] # "none"
    BY DEF Server!Behind
  <1>2. i \in 1..(n - 1) => Server!plan[i] \in Server!Steps \ {"upload", "download", "compare", "delete"}
    BY <1>1 DEF Server!Steps, Server!Early
  <1>3. CASE x3' = "download"
    <2>1. j = n + 1
      BY <1>1, <1>3
    <2>2. i \in 1..(n - 1) \/ i = n
      BY <1>1, <2>1
    <2> QED BY <1>1, <1>2, <2>2
  <1>4. CASE x3' = "delete"
    <2>1. i \in 1..(n - 1) \/ i = n \/ i = n + 1 \/ i = n + 2
      BY <1>1, <1>4
    <2> QED BY <1>1, <1>2, <1>4, <2>1
  <1> QED BY <1>3, <1>4

LEMMA ServerPut ==
    ASSUME Server!IInv,
           Server!PutOk \/ \E kind \in {"permission_denied", "transfer_failed"} : Server!PutFails(kind)
    PROVE  Server!IInv'
  <1>0. /\ Server!Next /\ x3 = "upload" /\ x4 \in [Server!Steps -> {"none", "ok", "failed", "skipped"}]
        /\ ~x9 /\ x4["delete"] = "none" /\ x6 = "none"
    BY DEF Server!Next, Server!PutOk, Server!PutFails, Server!IInv, Server!TypeOK, Server!Ahead, Server!Early
  <1>1. Server!plan' = Server!plan /\ Server!Steps' = Server!Steps
    BY <1>0, ServerFixed
  <1>2. /\ \A s \in Server!Steps \ {"upload", "download", "compare", "delete"} : x4[s] # "none"
        /\ {"upload", "download", "compare", "delete"} \subseteq Server!Steps
    BY <1>0, ServerFileSteps
  <1>3. CASE Server!PutOk
    <2>1. /\ x4' = [x4 EXCEPT !["upload"] = "ok"] /\ x3' = "download" /\ x6' \in {"some", "altered"}
          /\ UNCHANGED <<x7, x8, x9>>
      BY <1>0, <1>3 DEF Server!PutOk, Server!Recorded
    <2>2. Server!Behind'
      BY <1>0, <1>1, <1>2, <2>1, ServerBehind
    <2> QED BY <1>0, <1>1, <1>2, <2>1, <2>2
        DEF Server!IInv, Server!TypeOK, Server!Ahead, Server!FileIsAccounted, Server!Early
  <1>4. CASE Server!PutFails("transfer_failed")
    <2>1. /\ x4' = [[[x4 EXCEPT !["upload"] = "failed"] EXCEPT !["download"] = "skipped"] EXCEPT !["compare"] = "skipped"]
          /\ x3' = "delete" /\ x6' \in {"none", "some"} /\ x7' \in {"none", "completed", "other"}
          /\ UNCHANGED <<x8, x9>>
      BY <1>4 DEF Server!PutFails, Server!Recorded, Server!MayHaveLeft, Server!Unanswered
    <2>2. Server!Behind'
      BY <1>0, <1>1, <1>2, <2>1, ServerBehind
    <2> QED BY <1>0, <1>1, <1>2, <2>1, <2>2
        DEF Server!IInv, Server!TypeOK, Server!Ahead, Server!FileIsAccounted, Server!Early
  <1>5. CASE Server!PutFails("permission_denied")
    <2>1. /\ x4' = Server!SkipUnrecorded([x4 EXCEPT !["upload"] = "failed"])
          /\ x3' = "done" /\ x5' = TRUE /\ x6' \in {"none", "some"}
          /\ UNCHANGED <<x7, x8, x9>>
      BY <1>5 DEF Server!PutFails, Server!Recorded, Server!MayHaveLeft
    <2>2. /\ x4' \in [Server!Steps -> {"none", "ok", "failed", "skipped"}]
          /\ \A s \in Server!Steps : x4'[s] # "none"
          /\ x4'["delete"] = "skipped"
      BY <1>0, <1>2, <2>1 DEF Server!SkipUnrecorded
    <2>3. Server!Behind'
      BY <1>1, <2>2 DEF Server!Behind, Server!Steps
    <2> QED BY <1>0, <1>1, <2>1, <2>2, <2>3
        DEF Server!IInv, Server!TypeOK, Server!Ahead, Server!FileIsAccounted, Server!Early
  <1> QED BY <1>3, <1>4, <1>5

LEMMA ServerGet ==
    ASSUME Server!IInv, Server!GetOk \/ Server!GetFails
    PROVE  Server!IInv'
  <1>0. /\ Server!Next /\ x3 = "download" /\ x4 \in [Server!Steps -> {"none", "ok", "failed", "skipped"}]
        /\ ~x9 /\ x4["delete"] = "none"
    BY DEF Server!Next, Server!GetOk, Server!GetFails, Server!IInv, Server!TypeOK, Server!Ahead
  <1>1. Server!plan' = Server!plan /\ Server!Steps' = Server!Steps
    BY <1>0, ServerFixed
  <1>2. /\ \A s \in Server!Steps \ {"upload", "download", "compare", "delete"} : x4[s] # "none"
        /\ x4["upload"] # "none" /\ {"upload", "download", "compare", "delete"} \subseteq Server!Steps
    BY <1>0, ServerFileSteps
  <1>3. PICK got, same \in {"ok", "failed", "skipped"} :
           x4' = [[x4 EXCEPT !["download"] = got] EXCEPT !["compare"] = same]
    BY DEF Server!GetOk, Server!GetFails, Server!Recorded
  <1>4. x3' = "delete" /\ UNCHANGED <<x6, x8, x9>> /\ x7' \in {"none", "completed", "other"}
    BY DEF Server!GetOk, Server!GetFails, Server!Unanswered, Server!server, Server!IInv, Server!TypeOK
  <1>5. Server!Behind'
    BY <1>0, <1>1, <1>2, <1>3, <1>4, ServerBehind
  <1> QED BY <1>0, <1>1, <1>2, <1>3, <1>4, <1>5
      DEF Server!IInv, Server!TypeOK, Server!Ahead, Server!FileIsAccounted, Server!Early

LEMMA ServerDelete ==
    ASSUME Server!IInv, Server!DeleteAnswered \/ Server!DeleteUnanswered \/ Server!DeleteMisread
    PROVE  Server!IInv'
  <1>0. /\ Server!Next /\ x3 = "delete" /\ x4 \in [Server!Steps -> {"none", "ok", "failed", "skipped"}]
        /\ x6 \in {"none", "some", "altered"} /\ x7 \in {"none", "completed", "other"} /\ ~x9
    BY DEF Server!Next, Server!DeleteAnswered, Server!DeleteUnanswered, Server!DeleteMisread, Server!Deletes,
       Server!IInv, Server!TypeOK, Server!Ahead
  <1>1. Server!plan' = Server!plan /\ Server!Steps' = Server!Steps
    BY <1>0, ServerFixed
  <1>2. \A s \in Server!Steps \ {"delete"} : x4[s] # "none"
    BY <1>0, ServerFileSteps
  <1>3. PICK done \in BOOLEAN, answer \in {"completed", "other"} :
           /\ Server!Deletes(done, answer)
           /\ answer = "completed" => done \/ x9'
    <2>1. CASE Server!DeleteAnswered
      BY <2>1 DEF Server!DeleteAnswered
    <2>2. CASE Server!DeleteUnanswered
      BY <2>2 DEF Server!DeleteUnanswered
    <2>3. CASE Server!DeleteMisread
      BY <1>0, <2>3 DEF Server!DeleteMisread
    <2> QED BY <2>1, <2>2, <2>3
  <1>4. /\ x3' = "done" /\ x7' = x7 /\ x6' = (IF done THEN "none" ELSE x6)
        /\ x4' = [x4 EXCEPT !["delete"] = IF answer = "completed" THEN "ok" ELSE "failed"]
        /\ x8' = (answer # "completed")
    BY <1>3 DEF Server!Deletes, Server!Recorded
  <1>5. "delete" \in Server!Steps
    BY <1>0, ServerFileSteps
  <1>6. \A s \in Server!Steps : x4'[s] # "none"
    BY <1>0, <1>2, <1>4
  <1>7. Server!Behind'
    BY <1>1, <1>6 DEF Server!Behind, Server!Steps
  <1> QED BY <1>0, <1>1, <1>3, <1>4, <1>5, <1>6, <1>7
      DEF Server!IInv, Server!TypeOK, Server!Ahead, Server!FileIsAccounted, Server!Early

LEMMA ServerNext ==
    ASSUME Server!IInv, [Server!Next]_Server!vars
    PROVE  Server!IInv'
  <1>1. CASE Server!Next
    BY <1>1, ServerEarly, ServerPut, ServerGet, ServerDelete DEF Server!Next
  <1>2. CASE UNCHANGED Server!vars
    <2>1. Server!plan' = Server!plan /\ Server!Steps' = Server!Steps
      BY <1>2, ServerFixed
    <2> QED BY <1>2, <2>1
        DEF Server!vars, Server!IInv, Server!TypeOK, Server!Behind, Server!Ahead, Server!FileIsAccounted
  <1> QED BY <1>1, <1>2

\* A test that ended has an outcome for every step, and names the file it may have left, however
\* transfers fail and answers are lost or late (ftp_test.rs, run_test).
THEOREM LeftFilesAreNamed == Spec => []FileIsAccounted
  <1> DEFINE Inv == part = "server" => Server!IInv
  <1>1. Init => Inv
    BY ServerInit DEF Init
  <1>2. Inv /\ [Next]_vars => Inv'
    <2> SUFFICES ASSUME Inv, [Next]_vars, part' = "server"
                 PROVE  Server!IInv'
      OBVIOUS
    <2>1. part = "server" /\ [Server!Next]_Server!vars
      BY DEF Next, vars, Server!vars, FirmwareStep, DiagStep, RingStep, SessionStep, ServerStep, PropertyStep
    <2> QED
      BY <2>1, ServerNext
  <1>3. Inv => FileIsAccounted
    BY DEF FileIsAccounted, Server!IInv
  <1> QED BY <1>1, <1>2, <1>3, PTL DEF Spec

-----------------------------------------------------------------------------
(* The ring of completed entries (DiagRing). *)

LEMMA LessIsWellFounded ==
    \E Less : IsWellFoundedOn(Less, Nat) /\ \A k, m \in Nat : <<k, m>> \in Less <=> k < m
  <1>1. IsWellFoundedOn(OpToRel(<, Nat), Nat)
    BY NatLessThanWellFounded
  <1>2. \A k, m \in Nat : <<k, m>> \in OpToRel(<, Nat) <=> k < m
    BY DEF OpToRel
  <1> QED BY <1>1, <1>2

\* A set of numbers that is not empty has a least one.
LEMMA Least ==
    ASSUME NEW T, T \subseteq Nat, T # {}
    PROVE  \E m \in T : \A k \in T : m <= k
  <1>1. PICK Less : IsWellFoundedOn(Less, Nat) /\ \A k, m \in Nat : <<k, m>> \in Less <=> k < m
    BY LessIsWellFounded
  <1>2. IsWellFoundedOn(Less, Nat) /\ T \subseteq Nat /\ T # {}
    BY <1>1
  <1>3. \E m \in T : \A k \in T : ~(<<k, m>> \in Less)
    BY <1>2, WFMin
  <1>4. PICK m \in T : \A k \in T : ~(<<k, m>> \in Less)
    BY <1>3
  <1>5. \A k \in T : k \in Nat /\ m \in Nat /\ ~(k < m)
    BY <1>1, <1>4
  <1>6. \A k \in T : m <= k
    BY <1>5
  <1> QED BY <1>6

\* The entry that goes is one of the ring, and none is less important.
LEMMA RingVictim ==
    ASSUME NEW E, \A e \in E : e.rank \in Ring!Ranks, NEW r \in Seq(E), Len(r) > 0
    PROVE  /\ Ring!Victim(r) \in DOMAIN r
           /\ \A j \in DOMAIN r : r[Ring!Victim(r)].rank <= r[j].rank
  <1> DEFINE ranks == {r[i].rank : i \in DOMAIN r}
             First(i) == \A j \in DOMAIN r :
                            r[i].rank < r[j].rank \/ (r[i].rank = r[j].rank /\ i <= j)
  <1>1. \A i \in DOMAIN r : r[i].rank \in Nat /\ i \in Nat
    BY DEF Ring!Ranks
  <1>2. ranks \subseteq Nat /\ ranks # {}
    BY <1>1
  <1>3. PICK low \in ranks : \A k \in ranks : low <= k
    BY <1>2, Least
  <1> DEFINE lowest == {i \in DOMAIN r : r[i].rank = low}
  <1>4. lowest \subseteq Nat /\ lowest # {}
    BY <1>1
  <1>5. PICK i \in lowest : \A k \in lowest : i <= k
    BY <1>4, Least
  <1>6. First(i)
    <2> SUFFICES ASSUME NEW j \in DOMAIN r
                 PROVE  low < r[j].rank \/ (low = r[j].rank /\ i <= j)
      BY <1>5
    <2>1. low <= r[j].rank /\ low \in Nat /\ r[j].rank \in Nat
      BY <1>1, <1>2, <1>3
    <2>2. low = r[j].rank => i <= j
      BY <1>5
    <2> QED BY <2>1, <2>2
  <1>7. Ring!Victim(r) = CHOOSE k \in DOMAIN r : First(k)
    BY DEF Ring!Victim
  <1>8. Ring!Victim(r) \in DOMAIN r /\ First(Ring!Victim(r))
    BY <1>6, <1>7
  <1> QED BY <1>1, <1>8

LEMMA RingWithout ==
    ASSUME NEW E, NEW r \in Seq(E), NEW i \in 1..Len(r)
    PROVE  /\ Ring!Without(r, i) \in Seq(E) /\ Len(Ring!Without(r, i)) = Len(r) - 1
           /\ \A k \in 1..(Len(r) - 1) : Ring!Without(r, i)[k] = IF k < i THEN r[k] ELSE r[k + 1]
  <1> DEFINE a == SubSeq(r, 1, i - 1)
             b == SubSeq(r, i + 1, Len(r))
  <1>1. a \in Seq(E) /\ Len(a) = i - 1 /\ \A k \in 1..(i - 1) : a[k] = r[k]
    OBVIOUS
  <1>2. b \in Seq(E) /\ Len(b) = Len(r) - i /\ \A k \in 1..(Len(r) - i) : b[k] = r[i + k]
    OBVIOUS
  <1>3. Ring!Without(r, i) = a \o b
    BY DEF Ring!Without
  <1> HIDE DEF a, b
  <1>4. a \o b \in Seq(E) /\ Len(a \o b) = Len(r) - 1
    <2>0. a \in Seq(E) /\ b \in Seq(E)
      BY <1>1, <1>2
    <2>1. a \o b \in Seq(E) /\ Len(a \o b) = Len(a) + Len(b)
      BY <2>0
    <2>2. Len(r) \in Nat
      OBVIOUS
    <2> QED BY <1>1, <1>2, <2>1, <2>2
  <1>5. ASSUME NEW k \in 1..(Len(r) - 1)
        PROVE  (a \o b)[k] = IF k < i THEN r[k] ELSE r[k + 1]
    <2>0. Len(r) \in Nat
      OBVIOUS
    <2>1. (a \o b)[k] = IF k <= Len(a) THEN a[k] ELSE b[k - Len(a)]
      BY <1>1, <1>2, <2>0
    <2>2. CASE k < i
      BY <1>1, <2>0, <2>1, <2>2
    <2>3. CASE ~(k < i)
      <3>1. k - (i - 1) \in 1..(Len(r) - i) /\ i + (k - (i - 1)) = k + 1 /\ ~(k <= i - 1)
        BY <2>0, <2>3
      <3> QED BY <1>1, <1>2, <2>1, <2>3, <3>1
    <2> QED BY <2>2, <2>3
  <1> QED BY <1>3, <1>4, <1>5

\* What is recorded is in the ring, and all that was, but for the least important of a full ring.
LEMMA RingPushed ==
    ASSUME NEW E, \A e \in E : e.rank \in Ring!Ranks,
           NEW r \in Seq(E), Len(r) <= Cap, \A i, j \in DOMAIN r : r[i] = r[j] => i = j,
           NEW e, e \notin E
    PROVE  LET p == Ring!Pushed(r, e) IN
           /\ p \in Seq(E \cup {e}) /\ Len(p) <= Cap
           /\ \A i, j \in DOMAIN p : p[i] = p[j] => i = j
           /\ \E i \in DOMAIN p : p[i] = e
           /\ Len(r) < Cap => \A k \in DOMAIN r : \E i \in DOMAIN p : p[i] = r[k]
           /\ \A k \in DOMAIN r \ {Ring!Victim(r)} : \E i \in DOMAIN p : p[i] = r[k]
  <1>0. Cap \in Nat \ {0}
    BY PartsAssumption
  <1>1. ASSUME NEW w \in Seq(E), Len(w) < Cap, \A i, j \in DOMAIN w : w[i] = w[j] => i = j
        PROVE  LET p == Append(w, e) IN
               /\ p \in Seq(E \cup {e}) /\ Len(p) <= Cap /\ DOMAIN p = 1..(Len(w) + 1)
               /\ \A i, j \in DOMAIN p : p[i] = p[j] => i = j
               /\ p[Len(w) + 1] = e
               /\ \A k \in DOMAIN w : k \in DOMAIN p /\ p[k] = w[k]
    <2> DEFINE p == Append(w, e)
    <2>1. w \in Seq(E \cup {e})
      OBVIOUS
    <2>2. /\ p \in Seq(E \cup {e}) /\ Len(p) = Len(w) + 1 /\ DOMAIN p = 1..(Len(w) + 1)
          /\ p[Len(w) + 1] = e /\ \A k \in 1..Len(w) : p[k] = w[k] /\ w[k] \in E
      BY <2>1
    <2> HIDE DEF p
    <2>3. \A i, j \in DOMAIN p : p[i] = p[j] => i = j
      BY <1>1, <2>2
    <2> QED BY <1>0, <1>1, <2>2, <2>3 DEF p
  <1>2. CASE Len(r) < Cap
    <2>1. Ring!Pushed(r, e) = Append(r, e)
      BY <1>0, <1>2 DEF Ring!Pushed
    <2>2. /\ Append(r, e) \in Seq(E \cup {e}) /\ Len(Append(r, e)) <= Cap
          /\ \A i, j \in DOMAIN Append(r, e) : Append(r, e)[i] = Append(r, e)[j] => i = j
          /\ Len(r) + 1 \in DOMAIN Append(r, e) /\ Append(r, e)[Len(r) + 1] = e
          /\ \A k \in DOMAIN r : k \in DOMAIN Append(r, e) /\ Append(r, e)[k] = r[k]
      BY <1>1, <1>2
    <2> QED BY <2>1, <2>2
  <1>3. CASE Len(r) = Cap
    <2> DEFINE v == Ring!Victim(r)
               w == Ring!Without(r, v)
    <2>1. v \in 1..Len(r)
      BY <1>0, <1>3, RingVictim
    <2>2. /\ w \in Seq(E) /\ Len(w) = Len(r) - 1
          /\ \A k \in 1..(Len(r) - 1) : w[k] = IF k < v THEN r[k] ELSE r[k + 1]
      BY <2>1, RingWithout
    <2>3. Ring!Pushed(r, e) = Append(w, e)
      BY <1>0, <1>3 DEF Ring!Pushed
    <2> HIDE DEF v, w
    <2>4. \A i, j \in DOMAIN w : w[i] = w[j] => i = j
      <3> SUFFICES ASSUME NEW i \in 1..(Len(r) - 1), NEW j \in 1..(Len(r) - 1), w[i] = w[j]
                   PROVE  i = j
        BY <2>2
      <3> DEFINE m == IF i < v THEN i ELSE i + 1
                 n == IF j < v THEN j ELSE j + 1
      <3>1. m \in 1..Len(r) /\ n \in 1..Len(r) /\ DOMAIN r = 1..Len(r)
        BY <2>1
      <3>2. w[i] = r[m] /\ w[j] = r[n]
        BY <2>2
      <3>3. i \in Nat /\ j \in Nat /\ v \in Nat /\ (m = n => i = j)
        BY <2>1
      <3> HIDE DEF m, n
      <3>4. r[m] = r[n]
        BY <3>2
      <3> QED BY <3>1, <3>3, <3>4
    <2>5. \A k \in DOMAIN r \ {v} : \E i \in DOMAIN w : w[i] = r[k]
      <3> SUFFICES ASSUME NEW k \in DOMAIN r, k # v
                   PROVE  \E i \in DOMAIN w : w[i] = r[k]
        OBVIOUS
      <3>1. CASE k < v
        BY <2>1, <2>2, <3>1
      <3>2. CASE k > v
        <4>1. k - 1 \in 1..(Len(r) - 1) /\ ~(k - 1 < v) /\ (k - 1) + 1 = k
          BY <2>1, <3>2
        <4> QED BY <2>2, <4>1
      <3> QED BY <2>1, <3>1, <3>2
    <2>6. Len(w) < Cap
      BY <1>0, <1>3, <2>2
    <2>7. /\ Append(w, e) \in Seq(E \cup {e}) /\ Len(Append(w, e)) <= Cap
          /\ \A i, j \in DOMAIN Append(w, e) : Append(w, e)[i] = Append(w, e)[j] => i = j
          /\ Len(w) + 1 \in DOMAIN Append(w, e) /\ Append(w, e)[Len(w) + 1] = e
          /\ \A k \in DOMAIN w : k \in DOMAIN Append(w, e) /\ Append(w, e)[k] = w[k]
      BY <1>1, <2>2, <2>4, <2>6
    <2> QED BY <1>0, <1>3, <2>3, <2>5, <2>7 DEF v
  <1> QED BY <1>0, <1>2, <1>3

\* A full ring of entries of a rank or above: so many were recorded.
LEMMA RingCrowd ==
    ASSUME NEW S, IsFiniteSet(S), NEW r \in Seq(S), \A i, j \in DOMAIN r : r[i] = r[j] => i = j
    PROVE  Len(r) <= Cardinality(S)
  <1>1. r \in Injection(1..Len(r), S)
    BY DEF Injection, IsInjective
  <1>2. Cardinality(1..Len(r)) <= Cardinality(S)
    BY <1>1, FS_Injection
  <1>3. \A n \in Nat : Cardinality(1..n) = n
    <2> SUFFICES ASSUME NEW n \in Nat
                 PROVE  Cardinality(1..n) = n
      OBVIOUS
    <2>1. Cardinality(1..n) = IF 1 > n THEN 0 ELSE n - 1 + 1
      BY FS_Interval
    <2> QED BY <2>1
  <1>4. Len(r) \in Nat
    OBVIOUS
  <1> QED BY <1>2, <1>3, <1>4

LEMMA RingCounts ==
    ASSUME NEW S
    PROVE  Ring!Cardinality(S) = Cardinality(S) /\ (Ring!IsFiniteSet(S) <=> IsFiniteSet(S))
  <1>1. Ring!Cardinality(S) = Cardinality(S)
    BY DEF Ring!Cardinality, Cardinality
  <1>2. Ring!IsFiniteSet(S) <=> IsFiniteSet(S)
    BY DEF Ring!IsFiniteSet, IsFiniteSet
  <1> QED BY <1>1, <1>2

\* The invariant, before and after a step, counted as everywhere.
LEMMA RingSays ==
    /\ Ring!Numbered <=> /\ IsFiniteSet(x6)
                         /\ \A e \in x6 : e.id \in 1..Cardinality(x6) /\ e.rank \in Ring!Ranks
    /\ Ring!ImportantIsKept <=>
          \A rank \in Ring!Ranks : Cardinality(Ring!AtLeast(rank)) < Cap =>
              \A e \in Ring!AtLeast(rank) : \E i \in DOMAIN x1 : x1[i] = e
    /\ Ring!ImportantIsOnDisk <=>
          \A rank \in Ring!Ranks : Cardinality(Ring!AtLeast(rank)) < Cap =>
              \A e \in Ring!AtLeast(rank) : e.id \in x2 \cup x7
    /\ Ring!Numbered' <=> /\ IsFiniteSet(x6')
                          /\ \A e \in x6' : e.id \in 1..Cardinality(x6') /\ e.rank \in Ring!Ranks
    /\ Ring!ImportantIsKept' <=>
          \A rank \in Ring!Ranks : Cardinality(Ring!AtLeast(rank)') < Cap =>
              \A e \in Ring!AtLeast(rank)' : \E i \in DOMAIN x1' : x1'[i] = e
    /\ Ring!ImportantIsOnDisk' <=>
          \A rank \in Ring!Ranks : Cardinality(Ring!AtLeast(rank)') < Cap =>
              \A e \in Ring!AtLeast(rank)' : e.id \in x2' \cup x7'
  <1>1. Ring!Cardinality(x6) = Cardinality(x6) /\ (Ring!IsFiniteSet(x6) <=> IsFiniteSet(x6))
    BY RingCounts
  <1>2. Ring!Cardinality(x6') = Cardinality(x6') /\ (Ring!IsFiniteSet(x6') <=> IsFiniteSet(x6'))
    BY RingCounts
  <1>3. \A rank : Ring!Cardinality(Ring!AtLeast(rank)) = Cardinality(Ring!AtLeast(rank))
    BY RingCounts
  <1>4. \A rank : Ring!Cardinality(Ring!AtLeast(rank)') = Cardinality(Ring!AtLeast(rank)')
    BY RingCounts
  <1> QED BY <1>1, <1>2, <1>3, <1>4 DEF Ring!Numbered, Ring!ImportantIsKept, Ring!ImportantIsOnDisk

LEMMA RingInit == Ring!Init => Ring!IInv
  <1> SUFFICES ASSUME Ring!Init
               PROVE  Ring!IInv
    OBVIOUS
  <1>1. x1 = <<>> /\ x3 = "file" /\ x6 = {}
    BY DEF Ring!Init
  <1>2. Ring!Numbered /\ Ring!Memory
    BY <1>1, FS_EmptySet, PartsAssumption, RingSays DEF Ring!Memory
  <1>3. Ring!ImportantIsKept /\ Ring!ImportantIsOnDisk
    BY <1>1, RingSays DEF Ring!AtLeast
  <1> QED BY <1>2, <1>3 DEF Ring!IInv

\* An entry of a rank or above that is few is never the one that goes: a full ring of such would
\* make them many.
LEMMA RingSpares ==
    ASSUME Ring!IInv, NEW rank \in Ring!Ranks, Cardinality(Ring!AtLeast(rank)) < Cap,
           NEW k \in DOMAIN x1, x1[k] \in Ring!AtLeast(rank), Len(x1) = Cap
    PROVE  k # Ring!Victim(x1)
  <1>0. Cap \in Nat \ {0}
    BY PartsAssumption
  <1>1. IsFiniteSet(x6) /\ \A e \in x6 : e.rank \in Ring!Ranks
    BY RingSays DEF Ring!IInv
  <1>2. x1 \in Seq(x6) /\ \A i, j \in DOMAIN x1 : x1[i] = x1[j] => i = j
    BY DEF Ring!IInv, Ring!Memory
  <1> SUFFICES ASSUME k = Ring!Victim(x1)
               PROVE  FALSE
    OBVIOUS
  <1>3. \A j \in DOMAIN x1 : x1[k].rank <= x1[j].rank
    BY <1>0, <1>1, <1>2, RingVictim
  <1>4. \A j \in DOMAIN x1 : x1[j] \in Ring!AtLeast(rank)
    <2> SUFFICES ASSUME NEW j \in DOMAIN x1
                 PROVE  x1[j].rank >= rank
      BY <1>2 DEF Ring!AtLeast
    <2>1. x1[k].rank >= rank /\ x1[k].rank <= x1[j].rank
      BY <1>3 DEF Ring!AtLeast
    <2>2. x1[k].rank \in Nat /\ x1[j].rank \in Nat /\ rank \in Nat
      BY <1>1, <1>2 DEF Ring!Ranks
    <2> QED BY <2>1, <2>2
  <1>5. x1 \in Seq(Ring!AtLeast(rank))
    BY <1>2, <1>4
  <1>6. IsFiniteSet(Ring!AtLeast(rank)) /\ Cardinality(Ring!AtLeast(rank)) \in Nat
    BY <1>1, FS_Subset, FS_CardinalityType DEF Ring!AtLeast
  <1>7. Len(x1) <= Cardinality(Ring!AtLeast(rank))
    BY <1>2, <1>5, <1>6, RingCrowd
  <1> QED BY <1>0, <1>6, <1>7

LEMMA RingPush ==
    ASSUME Ring!IInv, NEW rank \in Ring!Ranks, Ring!Push(rank)
    PROVE  Ring!IInv'
  <1> DEFINE e == [id |-> Cardinality(x6) + 1, rank |-> rank]
  <1>0. Cap \in Nat \ {0}
    BY PartsAssumption
  <1>1. /\ IsFiniteSet(x6) /\ Cardinality(x6) \in Nat
        /\ \A f \in x6 : f.id \in 1..Cardinality(x6) /\ f.rank \in Ring!Ranks
    BY FS_CardinalityType, RingSays DEF Ring!IInv
  <1>2. x1 \in Seq(x6) /\ Len(x1) <= Cap /\ \A i, j \in DOMAIN x1 : x1[i] = x1[j] => i = j
    BY DEF Ring!IInv, Ring!Memory
  <1>3. e \notin x6 /\ e.rank = rank /\ e.id = Cardinality(x6) + 1
    BY <1>1
  <1>4. /\ x1' = Ring!Pushed(x1, e) /\ x6' = x6 \cup {e}
        /\ \E spent \in 0..1 : Ring!Appends(e, spent)
    <2>1. Ring!Cardinality(x6) = Cardinality(x6)
      BY RingCounts
    <2> QED BY <2>1 DEF Ring!Push
  <1> HIDE DEF e
  <1>5. /\ x1' \in Seq(x6') /\ Len(x1') <= Cap
        /\ \A i, j \in DOMAIN x1' : x1'[i] = x1'[j] => i = j
        /\ \E i \in DOMAIN x1' : x1'[i] = e
        /\ Len(x1) < Cap => \A k \in DOMAIN x1 : \E i \in DOMAIN x1' : x1'[i] = x1[k]
        /\ \A k \in DOMAIN x1 \ {Ring!Victim(x1)} : \E i \in DOMAIN x1' : x1'[i] = x1[k]
    BY <1>1, <1>2, <1>3, <1>4, RingPushed
  <1>6. /\ x3' \in {"file", "none"}
        /\ x2 \subseteq x2' /\ x7 \subseteq x7' /\ e.id \in x2' \cup x7'
    BY <1>4 DEF Ring!Appends, Ring!IInv, Ring!Memory
  <1>7. Ring!Numbered'
    <2>1. IsFiniteSet(x6') /\ Cardinality(x6') = Cardinality(x6) + 1
      BY <1>1, <1>3, <1>4, FS_AddElement
    <2>2. \A f \in x6' : f.id \in 1..Cardinality(x6') /\ f.rank \in Ring!Ranks
      <3> SUFFICES ASSUME NEW f \in x6'
                   PROVE  f.id \in 1..Cardinality(x6') /\ f.rank \in Ring!Ranks
        OBVIOUS
      <3>1. f \in x6 \/ f = e
        BY <1>4
      <3> QED BY <1>1, <1>3, <2>1, <3>1
    <2> QED BY <2>1, <2>2, RingSays
  <1>8. ASSUME NEW least \in Ring!Ranks, Cardinality(Ring!AtLeast(least)') < Cap
        PROVE  /\ Cardinality(Ring!AtLeast(least)) < Cap
               /\ \A f \in Ring!AtLeast(least)' : f = e \/ f \in Ring!AtLeast(least)
    <2>1. Ring!AtLeast(least) \in SUBSET (Ring!AtLeast(least)')
      BY <1>4 DEF Ring!AtLeast
    <2>2. IsFiniteSet(Ring!AtLeast(least)')
      BY <1>7, FS_Subset, RingSays DEF Ring!AtLeast
    <2>3. /\ Cardinality(Ring!AtLeast(least)) <= Cardinality(Ring!AtLeast(least)')
          /\ IsFiniteSet(Ring!AtLeast(least))
      BY <2>1, <2>2, FS_Subset
    <2>4. Cardinality(Ring!AtLeast(least)) \in Nat /\ Cardinality(Ring!AtLeast(least)') \in Nat
      BY <2>2, <2>3, FS_CardinalityType
    <2> QED BY <1>0, <1>4, <1>8, <2>3, <2>4 DEF Ring!AtLeast
  <1>9. Ring!ImportantIsKept'
    <2> SUFFICES ASSUME NEW least \in Ring!Ranks, Cardinality(Ring!AtLeast(least)') < Cap,
                        NEW f \in Ring!AtLeast(least)'
                 PROVE  \E i \in DOMAIN x1' : x1'[i] = f
      BY RingSays
    <2>1. CASE f = e
      BY <1>5, <2>1
    <2>2. CASE f \in Ring!AtLeast(least)
      <3>1. Cardinality(Ring!AtLeast(least)) < Cap
        BY <1>8
      <3>2. PICK k \in DOMAIN x1 : x1[k] = f
        BY <2>2, <3>1, RingSays DEF Ring!IInv
      <3>3. Len(x1) = Cap => k # Ring!Victim(x1)
        BY <2>2, <3>1, <3>2, RingSpares
      <3>4. Len(x1) < Cap \/ Len(x1) = Cap
        BY <1>0, <1>2
      <3> QED BY <1>5, <3>2, <3>3, <3>4
    <2> QED BY <1>8, <2>1, <2>2
  <1>10. Ring!ImportantIsOnDisk'
    <2> SUFFICES ASSUME NEW least \in Ring!Ranks, Cardinality(Ring!AtLeast(least)') < Cap,
                        NEW f \in Ring!AtLeast(least)'
                 PROVE  f.id \in x2' \cup x7'
      BY RingSays
    <2>1. f = e \/ (f \in Ring!AtLeast(least) /\ Cardinality(Ring!AtLeast(least)) < Cap)
      BY <1>8
    <2> QED BY <1>6, <2>1, RingSays DEF Ring!IInv
  <1> QED BY <1>5, <1>6, <1>7, <1>9, <1>10 DEF Ring!IInv, Ring!Memory

\* A rewrite puts what is in memory where a reader finds it.
LEMMA RingCompact ==
    ASSUME Ring!IInv, Ring!Compact \/ Ring!CompactFails \/ Ring!CompactReopenFails
    PROVE  Ring!IInv'
  <1>1. /\ x1' = x1 /\ x6' = x6 /\ x7' = x7 /\ x3' \in {"file", "none"}
        /\ x2' = x2 \/ x2' = Ring!Ids(x1)
    BY DEF Ring!Compact, Ring!CompactFails, Ring!CompactReopenFails, Ring!CompactWrites,
       Ring!AfterFailedReopen, Ring!IInv, Ring!Memory
  <1>2. \A r : Ring!AtLeast(r)' = Ring!AtLeast(r)
    BY <1>1 DEF Ring!AtLeast
  <1>3. Ring!Numbered' /\ Ring!Memory' /\ Ring!ImportantIsKept'
    BY <1>1, <1>2, RingSays DEF Ring!IInv, Ring!Memory
  <1>4. Ring!ImportantIsOnDisk'
    <2> SUFFICES ASSUME NEW least \in Ring!Ranks, Cardinality(Ring!AtLeast(least)) < Cap,
                        NEW f \in Ring!AtLeast(least)
                 PROVE  f.id \in x2' \cup x7'
      BY <1>2, RingSays
    <2>1. \E i \in DOMAIN x1 : x1[i] = f
      BY RingSays DEF Ring!IInv
    <2> QED BY <1>1, <2>1, RingSays DEF Ring!IInv, Ring!Ids
  <1> QED BY <1>3, <1>4 DEF Ring!IInv

LEMMA RingNext ==
    ASSUME Ring!IInv, [Ring!Next]_Ring!vars
    PROVE  Ring!IInv'
  <1>1. CASE Ring!Next
    BY <1>1, RingPush, RingCompact DEF Ring!Next
  <1>2. CASE UNCHANGED Ring!vars
    <2>1. \A r : Ring!AtLeast(r)' = Ring!AtLeast(r)
      BY <1>2 DEF Ring!vars, Ring!AtLeast
    <2> QED BY <1>2, <2>1
        DEF Ring!vars, Ring!IInv, Ring!Numbered, Ring!Memory, Ring!ImportantIsKept, Ring!ImportantIsOnDisk
  <1> QED BY <1>1, <1>2

\* While fewer entries of a rank or above were recorded than the ring keeps, a reader finds them in
\* the file, for any ring and any faults (diag.rs, push and compact).
THEOREM FailuresStayOnDisk == Spec => []ImportantIsOnDisk
  <1> DEFINE Inv == part = "ring" => Ring!IInv
  <1>1. Init => Inv
    BY RingInit DEF Init
  <1>2. Inv /\ [Next]_vars => Inv'
    <2> SUFFICES ASSUME Inv, [Next]_vars, part' = "ring"
                 PROVE  Ring!IInv'
      OBVIOUS
    <2>1. part = "ring" /\ [Ring!Next]_Ring!vars
      BY DEF Next, vars, Ring!vars, FirmwareStep, DiagStep, RingStep, SessionStep, ServerStep, PropertyStep
    <2> QED
      BY <2>1, RingNext
  <1>3. Inv => ImportantIsOnDisk
    BY DEF ImportantIsOnDisk, Ring!IInv
  <1> QED BY <1>1, <1>2, <1>3, PTL DEF Spec

-----------------------------------------------------------------------------
(* An entry of the firmware archive (FirmwareArchive).  x1 is bin, x2 part, x3 page, x4 meta,      *)
(* x5 work, x6 starts, x7 faults, x8 begun, x9 doubts.                                             *)

Fds == {"none", "part", "bin", "gone"}
Pages == {"none", "torn", "whole"}
Bad == {"checksum", "content", "incomplete", "lost"}

\* A step of another's leaves q as it was, but for a file that was taken from under it.
GoesOnAs(q) ==
    \E f \in Fds :
        /\ x5'[q] = [x5[q] EXCEPT !.fd = f]
        /\ f = "part" => x2' # Absent
        /\ f = "bin" => x1' # Absent
        /\ f \in {"part", "bin"} => x5[q].fd \in {"part", "bin"}

\* What a step comes to for everybody,
Framed(p) ==
    /\ p \in Firmware!Active
    /\ Firmware!Types' /\ Firmware!Open'
    /\ x8' = x8 /\ x9 \subseteq x9'
    /\ \A q \in Writers \ {p} : GoesOnAs(q)
    /\ x5'[p].pc # "idle" =>
          /\ x5'[p].end = "none" /\ x5'[p].solo = x5[p].solo
          /\ x5'[p].kind = x5[p].kind /\ x5'[p].src = x5[p].src /\ x5'[p].sha \in Binaries
          /\ x5[p].kind # "pin" => x5'[p].sha = x5[p].sha

\* and what it does to the entry when its command works alone.
OwnThen(p) == Firmware!Own(x5[p])'
DoneAlone(p) ==
    /\ x5'[p].pc # "idle" => OwnThen(p)
    /\ x9' = {} => ~Firmware!False(x1, x4)'
    /\ x5'[p].end \in Firmware!Refusals => <<x1', x3', x4'>> = x5[p].found
    /\ x8 \in Binaries /\ "overlap" \notin x9 => Firmware!OnlyThat(x8)' /\ x5'[p].end \notin Bad

FirmwareStepOf(p) == Framed(p) /\ (x5[p].solo => DoneAlone(p))

\* What is known of the one that steps.
LEMMA FirmwareAlone ==
    ASSUME Firmware!IInv, NEW p \in Firmware!Active
    PROVE  /\ p \in Writers /\ x5[p] \in Firmware!Jobs /\ x5[p].end = "none" /\ x5[p].pc # "idle"
           /\ x5[p].src \in Binaries /\ x5[p].sha \in Binaries
           /\ x5[p].kind \in {"fetch", "add"} => x5[p].src = x5[p].sha
           /\ x5[p].solo => Firmware!Own(x5[p])
           /\ "overlap" \notin x9 => x5[p].solo
           /\ x9 = {} => ~Firmware!False(x1, x4)
           /\ x8 \in Binaries /\ "overlap" \notin x9 =>
                 Firmware!OnlyThat(x8) /\ x5[p].kind = "fetch" /\ x5[p].sha = x8
           /\ x1 \in Firmware!Contents /\ x2 \in Firmware!Contents /\ x3 \in Pages
           /\ x4 \in {Absent, Torn} \cup Binaries
           /\ x5[p].fd \in Fds
           /\ x5[p].pc # "write" => x5[p].fd \notin {"part", "bin"}
           /\ x5[p].fd = "part" => x2 # Absent
           /\ x5[p].fd = "bin" => x1 # Absent
  <1>1. p \in Writers /\ x5[p] \in Firmware!Jobs /\ x5[p].pc # "idle"
    BY DEF Firmware!Active, Firmware!IInv, Firmware!Types
  <1>2. x8 \in Binaries => x8 # Torn /\ x8 # Absent
    BY PartsAssumption
  <1>3. x5[p].fd \in Fds
    BY <1>1 DEF Firmware!Jobs, Fds
  <1> QED BY <1>1, <1>2, <1>3 DEF Firmware!IInv, Firmware!Types, Firmware!Turns, Firmware!OneBinary,
                                 Firmware!ListedIsTrue, Firmware!Open, Pages

LEMMA FirmwareContents ==
    /\ Absent \in Firmware!Contents /\ Firmware!Empty \in Firmware!Contents /\ Firmware!Empty # Absent
    /\ \A b \in Binaries : /\ Firmware!Whole(b) \in Firmware!Contents /\ Firmware!Whole(b) # Absent
                           /\ <<b, Hole>> \in Firmware!Contents
                           /\ b # Torn /\ b # Absent
    /\ Torn # Absent
  BY PartsAssumption DEF Firmware!Contents, Firmware!Empty, Firmware!Whole

\* Everybody's part of a step, from what it does to its own command.
LEMMA FirmwareFrame ==
    ASSUME Firmware!IInv, NEW p \in Firmware!Active, NEW v \in Firmware!Jobs,
           x5' = [q \in Writers |-> x5'[q]], x5'[p] = v, \A q \in Writers \ {p} : GoesOnAs(q),
           v.fd = "part" => x2' # Absent, v.fd = "bin" => x1' # Absent,
           v.pc # "write" => v.fd \notin {"part", "bin"},
           x1' \in Firmware!Contents, x2' \in Firmware!Contents, x3' \in Pages,
           x4' \in {Absent, Torn} \cup Binaries, x8' = x8, x9 \subseteq x9',
           v.pc # "idle" => /\ v.end = "none" /\ v.solo = x5[p].solo
                            /\ v.kind = x5[p].kind /\ v.src = x5[p].src /\ v.sha \in Binaries
                            /\ x5[p].kind # "pin" => v.sha = x5[p].sha
    PROVE  Framed(p)
  <1>1. p \in Writers
    BY FirmwareAlone
  <1>2. ASSUME NEW q \in Writers \ {p}
        PROVE  /\ x5'[q] \in Firmware!Jobs
               /\ x5'[q].fd = "part" => x2' # Absent
               /\ x5'[q].fd = "bin" => x1' # Absent
               /\ x5'[q].pc # "write" => x5'[q].fd \notin {"part", "bin"}
    <2>1. x5[q] \in Firmware!Jobs /\ (x5[q].pc # "write" => x5[q].fd \notin {"part", "bin"})
      BY DEF Firmware!IInv, Firmware!Types, Firmware!Open
    <2>2. PICK f \in Fds : /\ x5'[q] = [x5[q] EXCEPT !.fd = f]
                           /\ f = "part" => x2' # Absent
                           /\ f = "bin" => x1' # Absent
                           /\ f \in {"part", "bin"} => x5[q].fd \in {"part", "bin"}
      BY DEF GoesOnAs
    <2>3. x5'[q] \in Firmware!Jobs /\ x5'[q].fd = f /\ x5'[q].pc = x5[q].pc
      BY <2>1, <2>2 DEF Firmware!Jobs, Fds
    <2> QED BY <2>1, <2>2, <2>3
  <1>3. x5' \in [Writers -> Firmware!Jobs]
    BY <1>1, <1>2
  <1>4. Firmware!Types'
    BY <1>3 DEF Firmware!IInv, Firmware!Types, Pages
  <1>5. Firmware!Open'
    BY <1>1, <1>2 DEF Firmware!Open
  <1> QED BY <1>1, <1>4, <1>5 DEF Framed

\* One command's record is replaced, and no file goes away.
LEMMA FirmwareOne ==
    ASSUME Firmware!IInv, NEW p \in Firmware!Active, NEW v \in Firmware!Jobs, x5' = [x5 EXCEPT ![p] = v],
           x1' = x1 \/ x1' # Absent, x2' = x2 \/ x2' # Absent
    PROVE  /\ x5' = [q \in Writers |-> x5'[q]] /\ x5'[p] = v
           /\ \A q \in Writers \ {p} : GoesOnAs(q)
  <1>1. p \in Writers /\ x5 \in [Writers -> Firmware!Jobs]
    BY FirmwareAlone DEF Firmware!IInv, Firmware!Types
  <1>2. ASSUME NEW q \in Writers \ {p}
        PROVE  GoesOnAs(q)
    <2>1. x5'[q] = x5[q] /\ x5[q] \in Firmware!Jobs
      BY <1>1
    <2>2. x5[q].fd \in Fds /\ x5[q] = [x5[q] EXCEPT !.fd = x5[q].fd]
      BY <2>1 DEF Firmware!Jobs, Fds
    <2>3. (x5[q].fd = "part" => x2 # Absent) /\ (x5[q].fd = "bin" => x1 # Absent)
      BY DEF Firmware!IInv, Firmware!Open
    <2> QED BY <2>1, <2>2, <2>3 DEF GoesOnAs
  <1> QED BY <1>1, <1>2

LEMMA FirmwareNothing ==
    /\ Firmware!Nothing \in Firmware!Jobs
    /\ Firmware!Nothing.pc = "idle" /\ Firmware!Nothing.fd = "none" /\ Firmware!Nothing.end = "none"
  <1>1. <<Absent, "none", Absent>> \in Firmware!Contents \X {"none", "torn", "whole"} \X ({Absent, Torn} \cup Binaries)
    BY DEF Firmware!Contents
  <1>2. Firmware!Nothing \in Firmware!Jobs
    <2>1. "pin" \in Firmware!Commands /\ "idle" \in Firmware!Steps /\ "none" \in Firmware!Ends
      BY DEF Firmware!Commands, Firmware!Steps, Firmware!Ends
    <2>2. Absent \in {Absent} \cup Binaries /\ "none" \in {"none", "part", "bin", "gone"} /\ 0 \in 0..2
          /\ {} \in SUBSET {"bin", "page"} /\ FALSE \in BOOLEAN /\ TRUE \in BOOLEAN
      OBVIOUS
    <2> QED BY <1>1, <2>1, <2>2, Zenon DEF Firmware!Nothing, Firmware!Jobs
  <1> QED BY <1>2 DEF Firmware!Nothing

LEMMA FirmwareEnded ==
    ASSUME NEW end \in Firmware!Ends
    PROVE  /\ Firmware!Ended(end) \in Firmware!Jobs
           /\ Firmware!Ended(end).pc = "idle" /\ Firmware!Ended(end).end = end
           /\ Firmware!Ended(end).fd = "none"
  BY FirmwareNothing DEF Firmware!Ended, Firmware!Jobs

\* A command that goes on elsewhere is the same command.
LEMMA FirmwareAt ==
    ASSUME NEW w \in Firmware!Jobs, NEW pc \in Firmware!Steps, NEW v, v = [w EXCEPT !.pc = pc]
    PROVE  /\ v \in Firmware!Jobs /\ v.pc = pc
           /\ v.kind = w.kind /\ v.src = w.src /\ v.sha = w.sha /\ v.fd = w.fd /\ v.n = w.n
           /\ v.adopt = w.adopt /\ v.made = w.made /\ v.found = w.found /\ v.solo = w.solo /\ v.end = w.end
  BY DEF Firmware!Jobs

\* A command ends: nothing of the entry has changed, or the one that worked alone took it back.
LEMMA FirmwareFinishes ==
    ASSUME Firmware!IInv, NEW p \in Firmware!Active, NEW end \in Firmware!Ends, Firmware!Finishes(p, end),
           UNCHANGED <<x1, x2, x3, x4, x8>>, x9 \subseteq x9',
           x5[p].solo => /\ end \in Firmware!Refusals => <<x1, x3, x4>> = x5[p].found
                         /\ x8 \in Binaries /\ "overlap" \notin x9 => end \notin Bad
    PROVE  FirmwareStepOf(p)
  <1> DEFINE v == Firmware!Ended(end)
  <1>1. v \in Firmware!Jobs /\ v.pc = "idle" /\ v.end = end /\ v.fd = "none"
    BY FirmwareEnded
  <1>2. x5' = [x5 EXCEPT ![p] = v]
    BY DEF Firmware!Finishes
  <1> HIDE DEF v
  <1>3. x5' = [q \in Writers |-> x5'[q]] /\ x5'[p] = v /\ \A q \in Writers \ {p} : GoesOnAs(q)
    BY <1>1, <1>2, FirmwareOne
  <1>4. Framed(p)
    <2>1. v.fd # "part" /\ v.fd # "bin" /\ v.fd \notin {"part", "bin"}
      BY <1>1
    <2> QED BY <1>1, <1>3, <2>1, FirmwareFrame, FirmwareAlone
  <1>5. x9' = {} => x9 = {}
    OBVIOUS
  <1>6. (Firmware!False(x1, x4)' <=> Firmware!False(x1, x4)) /\ (Firmware!OnlyThat(x8)' <=> Firmware!OnlyThat(x8))
    BY DEF Firmware!False, Firmware!OnlyThat
  <1>7. ASSUME x5[p].solo
        PROVE  DoneAlone(p)
    BY <1>1, <1>3, <1>5, <1>6, <1>7, FirmwareAlone DEF DoneAlone
  <1> QED BY <1>4, <1>7 DEF FirmwareStepOf

\* A command goes on without touching a file.
LEMMA FirmwareGoesOn ==
    ASSUME Firmware!IInv, NEW p \in Firmware!Active, NEW v \in Firmware!Jobs, x5' = [x5 EXCEPT ![p] = v],
           UNCHANGED <<x1, x2, x3, x4, x8>>, x9 \subseteq x9', v.pc # "idle",
           v.fd = "part" => x2 # Absent, v.fd = "bin" => x1 # Absent, v.pc # "write" => v.fd \notin {"part", "bin"},
           v.end = "none", v.solo = x5[p].solo, v.kind = x5[p].kind, v.src = x5[p].src, v.sha \in Binaries,
           x5[p].kind # "pin" => v.sha = x5[p].sha,
           x5[p].solo => (Firmware!Own(v) /\ x9' = x9) \/ OwnThen(p)
    PROVE  FirmwareStepOf(p)
  <1>1. x5' = [q \in Writers |-> x5'[q]] /\ x5'[p] = v /\ \A q \in Writers \ {p} : GoesOnAs(q)
    BY FirmwareOne
  <1>2. Framed(p)
    <2>1. /\ x1' \in Firmware!Contents /\ x2' \in Firmware!Contents /\ x3' \in Pages
          /\ x4' \in {Absent, Torn} \cup Binaries
      BY FirmwareAlone
    <2>2. (v.fd = "part" => x2' # Absent) /\ (v.fd = "bin" => x1' # Absent)
      OBVIOUS
    <2> QED BY <1>1, <2>1, <2>2, FirmwareFrame
  <1>3. x9' = {} => x9 = {}
    OBVIOUS
  <1>4. (Firmware!False(x1, x4)' <=> Firmware!False(x1, x4)) /\ (Firmware!OnlyThat(x8)' <=> Firmware!OnlyThat(x8))
    BY DEF Firmware!False, Firmware!OnlyThat
  <1>5. "none" \notin Firmware!Refusals /\ "none" \notin Bad
    BY DEF Firmware!Refusals, Bad
  <1>6. x9' = x9 => (OwnThen(p) <=> Firmware!Own(v))
    <2> HAVE x9' = x9
    <2> QED BY <1>1 DEF OwnThen, Firmware!Own, Firmware!Places, Firmware!Binary, Firmware!Metadata, Firmware!AsFound, Firmware!Undoubted
  <1>7. ASSUME x5[p].solo
        PROVE  DoneAlone(p)
    BY <1>1, <1>3, <1>4, <1>5, <1>6, <1>7, FirmwareAlone DEF DoneAlone
  <1> QED BY <1>2, <1>7 DEF FirmwareStepOf

\* One that works alone is refused for nothing a fetch of the same binary left.
LEMMA FirmwareJudge ==
    ASSUME Firmware!IInv, NEW p \in Firmware!Active, x4 # Absent
    PROVE  /\ Firmware!Judge(p) \in Firmware!Ends
           /\ x8 \in Binaries /\ "overlap" \notin x9 => Firmware!Judge(p) \notin Bad
  <1>1. Firmware!Judge(p) \in Firmware!Ends
    BY DEF Firmware!Judge, Firmware!Ends
  <1>2. ASSUME x8 \in Binaries, "overlap" \notin x9
        PROVE  Firmware!Judge(p) \notin Bad
    <2>1. x4 \in {Torn, x8} /\ x1 = Firmware!Whole(x8) /\ x5[p].sha = x8
      BY <1>2, FirmwareAlone DEF Firmware!OnlyThat
    <2>2. Firmware!Whole(x8) # Absent
      BY <1>2, FirmwareContents
    <2> QED BY <2>1, <2>2 DEF Firmware!Judge, Bad
  <1> QED BY <1>1, <1>2

LEMMA FirmwareFetchLook ==
    ASSUME Firmware!IInv, NEW p \in Writers, Firmware!FetchLook(p)
    PROVE  FirmwareStepOf(p)
  <1> DEFINE w == x5[p]
  <1>1. /\ p \in Firmware!Active /\ w.kind = "fetch" /\ w.pc = "look" /\ x9' = x9
        /\ UNCHANGED <<x1, x2, x3, x4, x8>>
    BY DEF Firmware!FetchLook, Firmware!At, Firmware!Active
  <1>2. w \in Firmware!Jobs /\ w.fd \notin {"part", "bin"} /\ w.end = "none" /\ w.sha \in Binaries
    BY <1>1, FirmwareAlone
  <1>3. CASE x4 = Absent
    <2> DEFINE v == [w EXCEPT !.pc = "bin"]
    <2>1. x5' = [x5 EXCEPT ![p] = v]
      BY <1>3 DEF Firmware!FetchLook, Firmware!Goes
    <2>2. /\ v \in Firmware!Jobs /\ v.pc = "bin" /\ v.kind = w.kind /\ v.src = w.src /\ v.sha = w.sha
          /\ v.fd = w.fd /\ v.n = w.n /\ v.adopt = w.adopt /\ v.made = w.made /\ v.found = w.found
          /\ v.solo = w.solo /\ v.end = w.end
      BY <1>2, FirmwareAt DEF Firmware!Steps
    <2> HIDE DEF v
    <2>3. ASSUME w.solo
          PROVE  Firmware!Own(v)
      <3>1. Firmware!Own(w)
        BY <1>1, <2>3, FirmwareAlone
      <3> QED BY <1>1, <1>3, <2>2, <3>1 DEF Firmware!Own, Firmware!Places, Firmware!Binary, Firmware!Metadata,
                                            Firmware!AsFound, Firmware!Undoubted
    <2> QED BY <1>1, <1>2, <2>1, <2>2, <2>3, FirmwareGoesOn
  <1>4. CASE x4 # Absent
    <2>1. Firmware!Finishes(p, Firmware!Judge(p))
      BY <1>4 DEF Firmware!FetchLook
    <2>2. w.solo => w.found = <<x1, x3, x4>>
      BY <1>1, FirmwareAlone DEF Firmware!Own, Firmware!AsFound
    <2> QED BY <1>1, <1>4, <2>1, <2>2, FirmwareJudge, FirmwareFinishes
  <1> QED BY <1>3, <1>4

LEMMA FirmwareFetchBin ==
    ASSUME Firmware!IInv, NEW p \in Writers, Firmware!FetchBin(p)
    PROVE  FirmwareStepOf(p)
  <1> DEFINE w == x5[p]
  <1>1. /\ p \in Firmware!Active /\ w.kind = "fetch" /\ w.pc = "bin" /\ x9' = x9
        /\ UNCHANGED <<x1, x2, x3, x4, x8>>
    BY DEF Firmware!FetchBin, Firmware!At, Firmware!Active
  <1>2. w \in Firmware!Jobs /\ w.fd \notin {"part", "bin"} /\ w.end = "none" /\ w.sha \in Binaries
    BY <1>1, FirmwareAlone
  <1>3. w.solo => Firmware!Own(w)
    BY <1>1, FirmwareAlone
  <1>4. CASE x1 = Absent
    <2> DEFINE v == [w EXCEPT !.pc = "copy"]
    <2>1. x5' = [x5 EXCEPT ![p] = v]
      BY <1>4 DEF Firmware!FetchBin, Firmware!Goes
    <2>2. /\ v \in Firmware!Jobs /\ v.pc = "copy" /\ v.kind = w.kind /\ v.src = w.src /\ v.sha = w.sha
          /\ v.fd = w.fd /\ v.n = w.n /\ v.adopt = w.adopt /\ v.made = w.made /\ v.found = w.found
          /\ v.solo = w.solo /\ v.end = w.end
      BY <1>2, FirmwareAt DEF Firmware!Steps
    <2> HIDE DEF v
    <2>3. ASSUME w.solo
          PROVE  Firmware!Own(v)
      BY <1>1, <1>3, <2>2, <2>3 DEF Firmware!Own, Firmware!Places, Firmware!Binary, Firmware!Metadata,
                                    Firmware!AsFound, Firmware!Undoubted
    <2> QED BY <1>1, <1>2, <2>1, <2>2, <2>3, FirmwareGoesOn
  <1>5. CASE x1 = Firmware!Whole(w.sha) /\ x1 # Absent
    <2> DEFINE v == [w EXCEPT !.pc = "page", !.adopt = TRUE]
    <2>1. x5' = [x5 EXCEPT ![p] = v]
      BY <1>5 DEF Firmware!FetchBin
    <2>2. /\ v \in Firmware!Jobs /\ v.pc = "page" /\ v.kind = w.kind /\ v.src = w.src /\ v.sha = w.sha
          /\ v.fd = w.fd /\ v.adopt /\ v.made = w.made /\ v.solo = w.solo /\ v.end = w.end
      BY <1>2 DEF Firmware!Jobs, Firmware!Steps
    <2> HIDE DEF v
    <2>3. ASSUME w.solo
          PROVE  Firmware!Own(v)
      BY <1>1, <1>3, <1>5, <2>2, <2>3 DEF Firmware!Own, Firmware!Places, Firmware!Binary, Firmware!Metadata,
                                          Firmware!AsFound, Firmware!Undoubted
    <2> QED BY <1>1, <1>2, <2>1, <2>2, <2>3, FirmwareGoesOn
  <1>6. CASE x1 # Absent /\ x1 # Firmware!Whole(w.sha)
    <2>1. Firmware!Finishes(p, "incomplete") /\ "incomplete" \in Firmware!Ends
      BY <1>6 DEF Firmware!FetchBin, Firmware!Ends
    <2>2. w.solo => w.found = <<x1, x3, x4>>
      BY <1>1, <1>3 DEF Firmware!Own, Firmware!AsFound
    <2>3. ~(x8 \in Binaries /\ "overlap" \notin x9)
      BY <1>1, <1>6, FirmwareAlone DEF Firmware!OnlyThat
    <2> QED BY <1>1, <2>1, <2>2, <2>3, FirmwareFinishes
  <1> QED BY <1>4, <1>5, <1>6

LEMMA FirmwareAddLook ==
    ASSUME Firmware!IInv, NEW p \in Writers, Firmware!AddLook(p)
    PROVE  FirmwareStepOf(p)
  <1> DEFINE w == x5[p]
  <1>1. /\ p \in Firmware!Active /\ w.kind = "add" /\ w.pc = "look" /\ x9' = x9
        /\ UNCHANGED <<x1, x2, x3, x4, x8>>
    BY DEF Firmware!AddLook, Firmware!At, Firmware!Active
  <1>2. w \in Firmware!Jobs /\ w.fd \notin {"part", "bin"} /\ w.end = "none" /\ w.sha \in Binaries
    BY <1>1, FirmwareAlone
  <1>3. w.solo => Firmware!Own(w)
    BY <1>1, FirmwareAlone
  <1>4. CASE Firmware!Goes(p, "copy")
    <2> DEFINE v == [w EXCEPT !.pc = "copy"]
    <2>1. x5' = [x5 EXCEPT ![p] = v]
      BY <1>4 DEF Firmware!AddLook, Firmware!Goes
    <2>2. /\ v \in Firmware!Jobs /\ v.pc = "copy" /\ v.kind = w.kind /\ v.src = w.src /\ v.sha = w.sha
          /\ v.fd = w.fd /\ v.n = w.n /\ v.adopt = w.adopt /\ v.made = w.made /\ v.found = w.found
          /\ v.solo = w.solo /\ v.end = w.end
      BY <1>2, FirmwareAt DEF Firmware!Steps
    <2> HIDE DEF v
    <2>3. ASSUME w.solo
          PROVE  Firmware!Own(v)
      BY <1>1, <1>3, <1>4, <2>2, <2>3 DEF Firmware!Own, Firmware!Places, Firmware!Binary, Firmware!Metadata,
                              Firmware!AsFound, Firmware!Undoubted
    <2> QED BY <1>1, <1>2, <2>1, <2>2, <2>3, FirmwareGoesOn
  <1>5. CASE Firmware!Finishes(p, "refused")
    <2>1. Firmware!Finishes(p, "refused") /\ "refused" \in Firmware!Ends
      BY <1>5 DEF Firmware!AddLook, Firmware!Ends
    <2>2. w.solo => w.found = <<x1, x3, x4>>
      BY <1>1, <1>3 DEF Firmware!Own, Firmware!AsFound
    <2>3. "refused" \notin Bad
      BY DEF Bad
    <2> QED BY <1>1, <2>1, <2>2, <2>3, FirmwareFinishes
  <1> QED BY <1>4, <1>5 DEF Firmware!AddLook

LEMMA FirmwareImportLook ==
    ASSUME Firmware!IInv, NEW p \in Writers, Firmware!ImportLook(p)
    PROVE  FirmwareStepOf(p)
  <1> DEFINE w == x5[p]
  <1>1. /\ p \in Firmware!Active /\ w.kind = "import" /\ w.pc = "look" /\ x9 \subseteq x9'
        /\ UNCHANGED <<x1, x2, x3, x4, x8>>
    BY DEF Firmware!ImportLook, Firmware!At, Firmware!Active
  <1>2. w \in Firmware!Jobs /\ w.fd \notin {"part", "bin"} /\ w.end = "none" /\ w.sha \in Binaries
    BY <1>1, FirmwareAlone
  <1>3. w.solo => Firmware!Own(w)
    BY <1>1, FirmwareAlone
  <1>4. CASE Firmware!Finishes(p, "present")
    <2>1. Firmware!Finishes(p, "present") /\ "present" \in Firmware!Ends
      BY <1>4 DEF Firmware!ImportLook, Firmware!Ends
    <2>2. "present" \notin Firmware!Refusals
      BY DEF Firmware!Refusals
    <2>3. "present" \notin Bad
      BY DEF Bad
    <2> QED BY <1>1, <2>1, <2>2, <2>3, FirmwareFinishes
  <1>5. CASE Firmware!Finishes(p, "rejected")
    <2>1. Firmware!Finishes(p, "rejected") /\ "rejected" \in Firmware!Ends
      BY <1>5 DEF Firmware!ImportLook, Firmware!Ends
    <2>2. w.solo => w.found = <<x1, x3, x4>>
      BY <1>1, <1>3 DEF Firmware!Own, Firmware!AsFound
    <2>3. "rejected" \notin Bad
      BY DEF Bad
    <2> QED BY <1>1, <2>1, <2>2, <2>3, FirmwareFinishes
  <1>6. CASE x4 = Absent /\ Firmware!Goes(p, "copy") /\ x9' = x9
    <2> DEFINE v == [w EXCEPT !.pc = "copy"]
    <2>1. x5' = [x5 EXCEPT ![p] = v]
      BY <1>6 DEF Firmware!ImportLook, Firmware!Goes
    <2>2. /\ v \in Firmware!Jobs /\ v.pc = "copy" /\ v.kind = w.kind /\ v.src = w.src /\ v.sha = w.sha
          /\ v.fd = w.fd /\ v.n = w.n /\ v.adopt = w.adopt /\ v.made = w.made /\ v.found = w.found
          /\ v.solo = w.solo /\ v.end = w.end
      BY <1>2, FirmwareAt DEF Firmware!Steps
    <2> HIDE DEF v
    <2>3. ASSUME w.solo
          PROVE  Firmware!Own(v)
      BY <1>1, <1>3, <1>6, <2>2, <2>3 DEF Firmware!Own, Firmware!Places, Firmware!Binary, Firmware!Metadata,
                              Firmware!AsFound, Firmware!Undoubted
    <2> QED BY <1>1, <1>2, <1>6, <2>1, <2>2, <2>3, FirmwareGoesOn
  <1>7. CASE x4 = Absent /\ Firmware!Goes(p, "page") /\ "leftover" \in x9'
    <2> DEFINE v == [w EXCEPT !.pc = "page"]
    <2>1. x5' = [x5 EXCEPT ![p] = v]
      BY <1>7 DEF Firmware!ImportLook, Firmware!Goes
    <2>2. /\ v \in Firmware!Jobs /\ v.pc = "page" /\ v.kind = w.kind /\ v.src = w.src /\ v.sha = w.sha
          /\ v.fd = w.fd /\ v.n = w.n /\ v.adopt = w.adopt /\ v.made = w.made /\ v.found = w.found
          /\ v.solo = w.solo /\ v.end = w.end
      BY <1>2, FirmwareAt DEF Firmware!Steps
    <2> HIDE DEF v
    <2>3. ASSUME w.solo
          PROVE  OwnThen(p)
      <3>1. x5'[p] = v
        BY <1>1, <2>1, <2>2, FirmwareOne
      <3> QED BY <1>1, <1>3, <1>7, <2>2, <2>3, <3>1 DEF OwnThen, Firmware!Own, Firmware!Places, Firmware!Binary, Firmware!Metadata,
                              Firmware!AsFound, Firmware!Undoubted
    <2> QED BY <1>1, <1>2, <2>1, <2>2, <2>3, FirmwareGoesOn
  <1> QED BY <1>4, <1>5, <1>6, <1>7 DEF Firmware!ImportLook

LEMMA FirmwarePinLook ==
    ASSUME Firmware!IInv, NEW p \in Writers, Firmware!PinLook(p)
    PROVE  FirmwareStepOf(p)
  <1> DEFINE w == x5[p]
  <1>1. /\ p \in Firmware!Active /\ w.kind = "pin" /\ w.pc = "look" /\ x9' = x9
        /\ UNCHANGED <<x1, x2, x3, x4, x8>>
    BY DEF Firmware!PinLook, Firmware!At, Firmware!Active
  <1>2. w \in Firmware!Jobs /\ w.fd \notin {"part", "bin"} /\ w.end = "none" /\ w.sha \in Binaries
    BY <1>1, FirmwareAlone
  <1>3. w.solo => Firmware!Own(w)
    BY <1>1, FirmwareAlone
  <1>4. CASE x4 \in Binaries
    <2> DEFINE v == [w EXCEPT !.pc = "meta", !.sha = x4]
    <2>1. x5' = [x5 EXCEPT ![p] = v]
      BY <1>4 DEF Firmware!PinLook
    <2>2. /\ v \in Firmware!Jobs /\ v.pc = "meta" /\ v.kind = w.kind /\ v.src = w.src /\ v.sha = x4
          /\ v.fd = w.fd /\ v.adopt = w.adopt /\ v.made = w.made /\ v.solo = w.solo /\ v.end = w.end
      BY <1>2, <1>4 DEF Firmware!Jobs, Firmware!Steps
    <2> HIDE DEF v
    <2>3. x9 = {} => x1 \in {Absent, Firmware!Whole(x4)}
      BY <1>1, <1>4, FirmwareAlone DEF Firmware!False
    <2>4. ASSUME w.solo
          PROVE  Firmware!Own(v)
      BY <1>1, <1>3, <1>4, <2>2, <2>3, <2>4 DEF Firmware!Own, Firmware!Places, Firmware!Binary, Firmware!Metadata,
                              Firmware!AsFound, Firmware!Undoubted
    <2> QED BY <1>1, <1>2, <1>4, <2>1, <2>2, <2>4, FirmwareGoesOn
  <1>5. CASE x4 \notin Binaries
    <2>1. Firmware!Finishes(p, "refused") /\ "refused" \in Firmware!Ends
      BY <1>5 DEF Firmware!PinLook, Firmware!Ends
    <2>2. w.solo => w.found = <<x1, x3, x4>>
      BY <1>1, <1>3 DEF Firmware!Own, Firmware!AsFound
    <2>3. "refused" \notin Bad
      BY DEF Bad
    <2> QED BY <1>1, <2>1, <2>2, <2>3, FirmwareFinishes
  <1> QED BY <1>4, <1>5

LEMMA FirmwareAddCheck ==
    ASSUME Firmware!IInv, NEW p \in Writers, Firmware!AddCheck(p)
    PROVE  FirmwareStepOf(p)
  <1> DEFINE w == x5[p]
  <1>1. /\ p \in Firmware!Active /\ w.kind = "add" /\ w.pc = "check" /\ x9' = x9
        /\ UNCHANGED <<x1, x2, x3, x4, x8>>
    BY DEF Firmware!AddCheck, Firmware!At, Firmware!Active
  <1>2. w \in Firmware!Jobs /\ w.fd \notin {"part", "bin"} /\ w.end = "none" /\ w.sha \in Binaries
    BY <1>1, FirmwareAlone
  <1>3. w.solo => Firmware!Own(w)
    BY <1>1, FirmwareAlone
  <1>4. w.src = w.sha
    BY <1>1, FirmwareAlone
  <1>5. CASE Firmware!Goes(p, "meta")
    <2> DEFINE v == [w EXCEPT !.pc = "meta"]
    <2>1. x5' = [x5 EXCEPT ![p] = v]
      BY <1>5 DEF Firmware!AddCheck, Firmware!Goes
    <2>2. /\ v \in Firmware!Jobs /\ v.pc = "meta" /\ v.kind = w.kind /\ v.src = w.src /\ v.sha = w.sha
          /\ v.fd = w.fd /\ v.n = w.n /\ v.adopt = w.adopt /\ v.made = w.made /\ v.found = w.found
          /\ v.solo = w.solo /\ v.end = w.end
      BY <1>2, FirmwareAt DEF Firmware!Steps
    <2> HIDE DEF v
    <2>3. ASSUME w.solo
          PROVE  Firmware!Own(v)
      BY <1>1, <1>3, <1>5, <2>2, <2>3, <1>4 DEF Firmware!Own, Firmware!Places, Firmware!Binary, Firmware!Metadata,
                              Firmware!AsFound, Firmware!Undoubted
    <2> QED BY <1>1, <1>2, <2>1, <2>2, <2>3, FirmwareGoesOn
  <1> QED BY <1>5 DEF Firmware!AddCheck

LEMMA FirmwareSkipPage ==
    ASSUME Firmware!IInv, NEW p \in Writers, Firmware!SkipPage(p)
    PROVE  FirmwareStepOf(p)
  <1> DEFINE w == x5[p]
  <1>1. /\ p \in Firmware!Active /\ w.pc = "page" /\ x9' = x9
        /\ UNCHANGED <<x1, x2, x3, x4, x8>>
    BY DEF Firmware!SkipPage, Firmware!At, Firmware!Active
  <1>2. w \in Firmware!Jobs /\ w.fd \notin {"part", "bin"} /\ w.end = "none" /\ w.sha \in Binaries
    BY <1>1, FirmwareAlone
  <1>3. w.solo => Firmware!Own(w)
    BY <1>1, FirmwareAlone
  <1>4. CASE w.kind = "import" \/ w.adopt
    <2> DEFINE v == [w EXCEPT !.pc = "meta"]
    <2>1. x5' = [x5 EXCEPT ![p] = v]
      BY <1>4 DEF Firmware!SkipPage, Firmware!AfterPage, Firmware!Goes
    <2>2. /\ v \in Firmware!Jobs /\ v.pc = "meta" /\ v.kind = w.kind /\ v.src = w.src /\ v.sha = w.sha
          /\ v.fd = w.fd /\ v.n = w.n /\ v.adopt = w.adopt /\ v.made = w.made /\ v.found = w.found
          /\ v.solo = w.solo /\ v.end = w.end
      BY <1>2, FirmwareAt DEF Firmware!Steps
    <2> HIDE DEF v
    <2>3. ASSUME w.solo
          PROVE  Firmware!Own(v)
      BY <1>1, <1>3, <1>4, <2>2, <2>3 DEF Firmware!Own, Firmware!Places, Firmware!Binary, Firmware!Metadata,
                              Firmware!AsFound, Firmware!Undoubted
    <2> QED BY <1>1, <1>2, <2>1, <2>2, <2>3, FirmwareGoesOn
  <1>5. CASE ~(w.kind = "import" \/ w.adopt)
    <2> DEFINE v == [w EXCEPT !.pc = "rename"]
    <2>1. x5' = [x5 EXCEPT ![p] = v]
      BY <1>5 DEF Firmware!SkipPage, Firmware!AfterPage, Firmware!Goes
    <2>2. /\ v \in Firmware!Jobs /\ v.pc = "rename" /\ v.kind = w.kind /\ v.src = w.src /\ v.sha = w.sha
          /\ v.fd = w.fd /\ v.n = w.n /\ v.adopt = w.adopt /\ v.made = w.made /\ v.found = w.found
          /\ v.solo = w.solo /\ v.end = w.end
      BY <1>2, FirmwareAt DEF Firmware!Steps
    <2> HIDE DEF v
    <2>3. ASSUME w.solo
          PROVE  Firmware!Own(v)
      BY <1>1, <1>3, <1>5, <2>2, <2>3 DEF Firmware!Own, Firmware!Places, Firmware!Binary, Firmware!Metadata,
                              Firmware!AsFound, Firmware!Undoubted
    <2> QED BY <1>1, <1>2, <2>1, <2>2, <2>3, FirmwareGoesOn
  <1> QED BY <1>4, <1>5

\* A command goes on, or ends, and no file goes away.
FilesStay == (x1' = x1 \/ x1' # Absent) /\ (x2' = x2 \/ x2' # Absent)
FilesTyped == /\ x1' \in Firmware!Contents /\ x2' \in Firmware!Contents /\ x3' \in Pages
              /\ x4' \in {Absent, Torn} \cup Binaries
OpensOne(v) == /\ v.fd = "part" => x2' # Absent
               /\ v.fd = "bin" => x1' # Absent
               /\ v.pc # "write" => v.fd \notin {"part", "bin"}
SameCommand(w, v) == /\ v.end = "none" /\ v.solo = w.solo
                     /\ v.kind = w.kind /\ v.src = w.src /\ v.sha = w.sha
LEMMA FirmwareReplaces ==
    ASSUME Firmware!IInv, NEW p \in Firmware!Active, NEW v \in Firmware!Jobs, x5' = [x5 EXCEPT ![p] = v],
           FilesStay, FilesTyped, OpensOne(v), v.pc = "idle" \/ SameCommand(x5[p], v),
           x8' = x8, x9 \subseteq x9'
    PROVE  Framed(p) /\ x5'[p] = v
  <1>1. /\ x5' = [q \in Writers |-> x5'[q]] /\ x5'[p] = v
        /\ \A q \in Writers \ {p} : GoesOnAs(q)
    BY FirmwareOne DEF FilesStay
  <1>2. x5[p].sha \in Binaries
    BY FirmwareAlone
  <1> QED BY <1>1, <1>2, FirmwareFrame DEF FilesTyped, OpensOne, SameCommand

LEMMA FirmwareReasons ==
    /\ "none" \notin Firmware!Refusals \cup Bad /\ "io" \notin Firmware!Refusals \cup Bad
    /\ "aborted" \notin Firmware!Refusals \cup Bad /\ "archived" \notin Firmware!Refusals \cup Bad
    /\ "died" \notin Firmware!Refusals \cup Bad /\ "present" \notin Firmware!Refusals \cup Bad
    /\ "rejected" \notin Bad
    /\ {"io", "aborted", "archived", "died", "present", "rejected", "checksum"} \subseteq Firmware!Ends
  BY DEF Firmware!Refusals, Bad, Firmware!Ends

LEMMA FirmwareOpenPage ==
    ASSUME Firmware!IInv, NEW p \in Writers, Firmware!OpenPage(p)
    PROVE  FirmwareStepOf(p)
  <1> DEFINE w == x5[p]
  <1>1. p \in Firmware!Active /\ w.pc = "page" /\ x3' = "torn" /\ UNCHANGED <<x1, x2, x4, x8, x9>>
    BY DEF Firmware!OpenPage, Firmware!At, Firmware!Active
  <1>2. /\ w \in Firmware!Jobs /\ w.end = "none" /\ w.sha \in Binaries
        /\ w.pc # "write" => w.fd \notin {"part", "bin"}
    BY <1>1, FirmwareAlone
  <1>3. w.solo => Firmware!Own(w)
    BY <1>1, FirmwareAlone
  <1> DEFINE v == [w EXCEPT !.pc = "page2"]
  <1>4. x5' = [x5 EXCEPT ![p] = v]
    BY DEF Firmware!OpenPage, Firmware!Goes
  <1>5. /\ v \in Firmware!Jobs /\ v.pc = "page2" /\ v.kind = w.kind /\ v.src = w.src /\ v.sha = w.sha
        /\ v.fd = w.fd /\ v.n = w.n /\ v.adopt = w.adopt /\ v.made = w.made /\ v.found = w.found
        /\ v.solo = w.solo /\ v.end = w.end
    BY <1>2, FirmwareAt DEF Firmware!Steps
  <1> HIDE DEF v
  <1>6. x3' \in Pages
    BY <1>1 DEF Pages
  <1>7. Framed(p) /\ x5'[p] = v
    <2>1. FilesStay /\ FilesTyped /\ OpensOne(v) /\ SameCommand(w, v)
      BY <1>1, <1>2, <1>5, <1>6, FirmwareAlone DEF FilesStay, FilesTyped, OpensOne, SameCommand
    <2> QED BY <1>1, <1>4, <1>5, <2>1, FirmwareReplaces
  <1>8. ASSUME w.solo
        PROVE  DoneAlone(p)
    <2>1. OwnThen(p)
      BY <1>1, <1>3, <1>5, <1>7, <1>8 DEF Firmware!OpenPage, OwnThen, Firmware!Own, Firmware!Places, Firmware!Binary,
                                          Firmware!Metadata, Firmware!AsFound, Firmware!Undoubted
    <2> QED BY <1>1, <1>2, <1>5, <1>7, <2>1, FirmwareAlone, FirmwareReasons DEF DoneAlone, Firmware!False, Firmware!OnlyThat
  <1> QED BY <1>7, <1>8 DEF FirmwareStepOf

LEMMA FirmwareClosePage ==
    ASSUME Firmware!IInv, NEW p \in Writers, Firmware!ClosePage(p)
    PROVE  FirmwareStepOf(p)
  <1> DEFINE w == x5[p]
  <1>1. p \in Firmware!Active /\ w.pc = "page2" /\ x3' = "whole" /\ UNCHANGED <<x1, x2, x4, x8, x9>>
    BY DEF Firmware!ClosePage, Firmware!At, Firmware!Active
  <1>2. /\ w \in Firmware!Jobs /\ w.end = "none" /\ w.sha \in Binaries
        /\ w.pc # "write" => w.fd \notin {"part", "bin"}
    BY <1>1, FirmwareAlone
  <1>3. w.solo => Firmware!Own(w)
    BY <1>1, FirmwareAlone
  <1> DEFINE to == IF w.kind = "import" \/ w.adopt THEN "meta" ELSE "rename"
             v == [w EXCEPT !.pc = to, !.made = @ \cup {"page"}]
  <1>4. x5' = [x5 EXCEPT ![p] = v]
    BY DEF Firmware!ClosePage, Firmware!AfterPage
  <1>5. to \in {"meta", "rename"} /\ to \in Firmware!Steps
    BY DEF Firmware!Steps
  <1>6. to = "rename" <=> ~(w.kind = "import" \/ w.adopt)
    OBVIOUS
  <1> HIDE DEF to
  <1>7. /\ v \in Firmware!Jobs /\ v.pc = to /\ v.kind = w.kind /\ v.src = w.src /\ v.sha = w.sha
        /\ v.fd = w.fd /\ v.adopt = w.adopt /\ v.made = w.made \cup {"page"} /\ v.found = w.found
        /\ v.solo = w.solo /\ v.end = w.end
    BY <1>2, <1>5 DEF Firmware!Jobs
  <1> HIDE DEF v
  <1>8. x3' \in Pages
    BY <1>1 DEF Pages
  <1>9. Framed(p) /\ x5'[p] = v
    <2>1. FilesStay /\ FilesTyped /\ OpensOne(v) /\ SameCommand(w, v)
      BY <1>1, <1>2, <1>5, <1>7, <1>8, FirmwareAlone DEF FilesStay, FilesTyped, OpensOne, SameCommand
    <2> QED BY <1>1, <1>4, <1>7, <2>1, FirmwareReplaces
  <1>10. ASSUME w.solo
         PROVE  DoneAlone(p)
    <2>1. OwnThen(p)
      BY <1>1, <1>3, <1>5, <1>6, <1>7, <1>9, <1>10 DEF OwnThen, Firmware!Own, Firmware!Places, Firmware!Binary,
                                          Firmware!Metadata, Firmware!AsFound, Firmware!Undoubted
    <2> QED BY <1>1, <1>2, <1>7, <1>9, <2>1, FirmwareAlone, FirmwareReasons DEF DoneAlone, Firmware!False, Firmware!OnlyThat
  <1> QED BY <1>9, <1>10 DEF FirmwareStepOf

LEMMA FirmwareOpenMeta ==
    ASSUME Firmware!IInv, NEW p \in Writers, Firmware!OpenMeta(p)
    PROVE  FirmwareStepOf(p)
  <1> DEFINE w == x5[p]
  <1>1. p \in Firmware!Active /\ w.pc = "meta" /\ UNCHANGED <<x1, x2, x3, x8, x9>>
    BY DEF Firmware!OpenMeta, Firmware!At, Firmware!Active
  <1>2. /\ w \in Firmware!Jobs /\ w.end = "none" /\ w.sha \in Binaries
        /\ w.pc # "write" => w.fd \notin {"part", "bin"}
    BY <1>1, FirmwareAlone
  <1>3. w.solo => Firmware!Own(w)
    BY <1>1, FirmwareAlone
  <1>4. CASE w.kind = "import" /\ x4 # Absent
    <2>1. Firmware!Finishes(p, "present") /\ x4' = x4
      BY <1>4 DEF Firmware!OpenMeta
    <2> QED BY <1>1, <2>1, FirmwareReasons, FirmwareFinishes
  <1>5. CASE ~(w.kind = "import" /\ x4 # Absent)
    <2> DEFINE v == [w EXCEPT !.pc = "meta2"]
    <2>1. x5' = [x5 EXCEPT ![p] = v] /\ x4' = Torn
      BY <1>5 DEF Firmware!OpenMeta, Firmware!Goes
    <2>2. /\ v \in Firmware!Jobs /\ v.pc = "meta2" /\ v.kind = w.kind /\ v.src = w.src /\ v.sha = w.sha
          /\ v.fd = w.fd /\ v.n = w.n /\ v.adopt = w.adopt /\ v.made = w.made /\ v.found = w.found
          /\ v.solo = w.solo /\ v.end = w.end
      BY <1>2, FirmwareAt DEF Firmware!Steps
    <2> HIDE DEF v
    <2>3. Framed(p) /\ x5'[p] = v
      <3>1. FilesStay /\ FilesTyped /\ OpensOne(v) /\ SameCommand(w, v)
        BY <1>1, <1>2, <2>1, <2>2, FirmwareAlone DEF FilesStay, FilesTyped, OpensOne, SameCommand
      <3> QED BY <1>1, <2>1, <2>2, <3>1, FirmwareReplaces
    <2>4. ASSUME w.solo
          PROVE  DoneAlone(p)
      <3>1. OwnThen(p)
        BY <1>1, <1>3, <2>1, <2>2, <2>3, <2>4 DEF OwnThen, Firmware!Own, Firmware!Places, Firmware!Binary,
                                          Firmware!Metadata, Firmware!AsFound, Firmware!Undoubted
      <3>2. ~Firmware!False(x1, x4)'
        BY <2>1, FirmwareContents DEF Firmware!False
      <3>3. x8 \in Binaries /\ "overlap" \notin x9 => Firmware!OnlyThat(x8)'
        BY <1>1, <1>3, <2>1, <2>4, FirmwareAlone DEF Firmware!OnlyThat, Firmware!Own, Firmware!Binary
      <3> QED BY <1>1, <1>2, <2>2, <2>3, <3>1, <3>2, <3>3, FirmwareReasons DEF DoneAlone
    <2> QED BY <2>3, <2>4 DEF FirmwareStepOf
  <1> QED BY <1>4, <1>5

LEMMA FirmwareCloseMeta ==
    ASSUME Firmware!IInv, NEW p \in Writers, Firmware!CloseMeta(p)
    PROVE  FirmwareStepOf(p)
  <1> DEFINE w == x5[p]
  <1>1. p \in Firmware!Active /\ w.pc = "meta2" /\ x4' = w.sha /\ UNCHANGED <<x1, x2, x3, x8, x9>>
    BY DEF Firmware!CloseMeta, Firmware!At, Firmware!Active
  <1>2. /\ w \in Firmware!Jobs /\ w.end = "none" /\ w.sha \in Binaries
        /\ w.pc # "write" => w.fd \notin {"part", "bin"}
    BY <1>1, FirmwareAlone
  <1>3. w.solo => Firmware!Own(w)
    BY <1>1, FirmwareAlone
  <1> DEFINE v == Firmware!Ended("archived")
  <1>4. x5' = [x5 EXCEPT ![p] = v]
    BY DEF Firmware!CloseMeta, Firmware!Finishes
  <1>5. v \in Firmware!Jobs /\ v.pc = "idle" /\ v.end = "archived" /\ v.fd = "none"
    BY FirmwareEnded, FirmwareReasons
  <1> HIDE DEF v
  <1>6. Framed(p) /\ x5'[p] = v
    <2>1. FilesStay /\ FilesTyped /\ OpensOne(v)
      BY <1>1, <1>2, <1>5, FirmwareAlone DEF FilesStay, FilesTyped, OpensOne
    <2> QED BY <1>1, <1>4, <1>5, <2>1, FirmwareReplaces
  <1>7. ASSUME w.solo
        PROVE  DoneAlone(p)
    <2>1. w.kind \in {"fetch", "add", "import", "pin"}
      BY <1>2 DEF Firmware!Jobs, Firmware!Commands
    <2>2. x9' = {} => ~Firmware!False(x1, x4)'
      BY <1>1, <1>3, <1>7, <2>1 DEF Firmware!False, Firmware!Own, Firmware!Binary, Firmware!Undoubted
    <2>3. x8 \in Binaries /\ "overlap" \notin x9 => Firmware!OnlyThat(x8)'
      BY <1>1, <1>3, <1>7, FirmwareAlone DEF Firmware!OnlyThat, Firmware!Own, Firmware!Binary
    <2> QED BY <1>5, <1>6, <2>2, <2>3, FirmwareReasons DEF DoneAlone
  <1> QED BY <1>6, <1>7 DEF FirmwareStepOf

LEMMA FirmwareMetaFails ==
    ASSUME Firmware!IInv, NEW p \in Writers, Firmware!MetaFails(p)
    PROVE  FirmwareStepOf(p)
  <1> DEFINE w == x5[p]
  <1>1. p \in Firmware!Active /\ w.pc = "meta2" /\ UNCHANGED <<x1, x2, x3, x8, x9>>
    BY DEF Firmware!MetaFails, Firmware!At, Firmware!Active
  <1>2. /\ w \in Firmware!Jobs /\ w.end = "none" /\ w.sha \in Binaries
        /\ w.pc # "write" => w.fd \notin {"part", "bin"}
    BY <1>1, FirmwareAlone
  <1>3. w.solo => Firmware!Own(w)
    BY <1>1, FirmwareAlone
  <1>4. CASE w.kind = "import"
    <2> DEFINE v == Firmware!Ended("aborted")
    <2>1. x5' = [x5 EXCEPT ![p] = v] /\ x4' = Absent
      BY <1>4 DEF Firmware!MetaFails, Firmware!Finishes
    <2>2. v \in Firmware!Jobs /\ v.pc = "idle" /\ v.end = "aborted" /\ v.fd = "none"
      BY FirmwareEnded, FirmwareReasons
    <2> HIDE DEF v
    <2>3. Framed(p) /\ x5'[p] = v
      <3>1. FilesStay /\ FilesTyped /\ OpensOne(v)
        BY <1>1, <1>2, <2>1, <2>2, FirmwareAlone DEF FilesStay, FilesTyped, OpensOne
      <3> QED BY <1>1, <2>1, <2>2, <3>1, FirmwareReplaces
    <2>4. ~Firmware!False(x1, x4)'
      BY <2>1, FirmwareContents DEF Firmware!False
    <2>5. ~(x8 \in Binaries /\ "overlap" \notin x9)
      BY <1>1, <1>4, FirmwareAlone
    <2> QED BY <2>2, <2>3, <2>4, <2>5, FirmwareReasons DEF DoneAlone, FirmwareStepOf
  <1>5. CASE w.kind # "import"
    <2>1. Firmware!Finishes(p, "io") /\ x4' = x4
      BY <1>5 DEF Firmware!MetaFails
    <2> QED BY <1>1, <2>1, FirmwareReasons, FirmwareFinishes
  <1> QED BY <1>4, <1>5

LEMMA FirmwareDies ==
    ASSUME Firmware!IInv, NEW p \in Writers, Firmware!Dies(p)
    PROVE  FirmwareStepOf(p)
  <1> DEFINE w == x5[p]
  <1>1. p \in Firmware!Active /\ UNCHANGED <<x1, x2, x3, x4, x8, x9>> /\ Firmware!Finishes(p, "died")
    BY DEF Firmware!Dies, Firmware!At, Firmware!Active
  <1>2. /\ w \in Firmware!Jobs /\ w.end = "none" /\ w.sha \in Binaries
        /\ w.pc # "write" => w.fd \notin {"part", "bin"}
    BY <1>1, FirmwareAlone
  <1>3. w.solo => Firmware!Own(w)
    BY <1>1, FirmwareAlone
  <1> QED BY <1>1, FirmwareReasons, FirmwareFinishes

LEMMA FirmwareOpenCopy ==
    ASSUME Firmware!IInv, NEW p \in Writers, Firmware!OpenCopy(p)
    PROVE  FirmwareStepOf(p)
  <1> DEFINE w == x5[p]
  <1>1. p \in Firmware!Active /\ w.pc = "copy" /\ UNCHANGED <<x3, x4, x8>> /\ x9 \subseteq x9'
    BY DEF Firmware!OpenCopy, Firmware!At, Firmware!Active
  <1>2. /\ w \in Firmware!Jobs /\ w.end = "none" /\ w.sha \in Binaries
        /\ w.pc # "write" => w.fd \notin {"part", "bin"}
    BY <1>1, FirmwareAlone
  <1>3. w.solo => Firmware!Own(w)
    BY <1>1, FirmwareAlone
  <1>4. w.kind \in {"fetch", "add", "import", "pin"}
    BY <1>2 DEF Firmware!Jobs, Firmware!Commands
  <1>5. CASE w.kind = "import" /\ x1 # Absent
    <2> DEFINE v == [w EXCEPT !.pc = "page"]
    <2>1. /\ x5' = [x5 EXCEPT ![p] = v] /\ UNCHANGED <<x1, x2>>
          /\ "leftover" \in x9'
      BY <1>5 DEF Firmware!OpenCopy, Firmware!Goes
    <2>2. /\ v \in Firmware!Jobs /\ v.pc = "page" /\ v.kind = w.kind /\ v.src = w.src /\ v.sha = w.sha
          /\ v.fd = w.fd /\ v.n = w.n /\ v.adopt = w.adopt /\ v.made = w.made /\ v.found = w.found
          /\ v.solo = w.solo /\ v.end = w.end
      BY <1>2, FirmwareAt DEF Firmware!Steps
    <2> HIDE DEF v
    <2>3. x5'[p] = v
      BY <1>1, <2>1, <2>2, FirmwareOne
    <2>4. ASSUME w.solo
          PROVE  OwnThen(p)
      BY <1>1, <1>3, <1>5, <2>1, <2>2, <2>3, <2>4 DEF OwnThen, Firmware!Own, Firmware!Places, Firmware!Binary,
                                          Firmware!Metadata, Firmware!AsFound, Firmware!Undoubted
    <2> QED BY <1>1, <1>2, <2>1, <2>2, <2>4, FirmwareGoesOn
  <1>6. CASE ~(w.kind = "import" /\ x1 # Absent)
    <2> DEFINE file == IF w.kind = "fetch" THEN "part" ELSE "bin"
               v == [w EXCEPT !.pc = "write", !.fd = file]
    <2>1. /\ x5' = [x5 EXCEPT ![p] = v]
          /\ x2' = (IF w.kind = "fetch" THEN Firmware!Empty ELSE x2)
          /\ x1' = (IF w.kind = "fetch" THEN x1 ELSE Firmware!Empty)
          /\ x9' = {} /\ w.kind = "add" => x4 = Absent
      BY <1>6 DEF Firmware!OpenCopy, Firmware!OpensPart
    <2>2. /\ v \in Firmware!Jobs /\ v.pc = "write" /\ v.kind = w.kind /\ v.src = w.src /\ v.sha = w.sha
          /\ v.fd = file /\ v.n = w.n /\ v.adopt = w.adopt /\ v.made = w.made /\ v.found = w.found
          /\ v.solo = w.solo /\ v.end = w.end
      BY <1>2 DEF Firmware!Jobs, Firmware!Steps
    <2> HIDE DEF v
    <2>3. Framed(p) /\ x5'[p] = v
      <3>1. FilesStay /\ FilesTyped /\ OpensOne(v) /\ SameCommand(w, v)
        BY <1>1, <1>2, <2>1, <2>2, FirmwareAlone, FirmwareContents DEF FilesStay, FilesTyped, OpensOne, SameCommand
      <3> QED BY <1>1, <2>1, <2>2, <3>1, FirmwareReplaces
    <2>4. ASSUME w.solo
          PROVE  DoneAlone(p)
      <3>1. OwnThen(p)
        BY <1>1, <1>3, <1>6, <2>1, <2>2, <2>3, <2>4 DEF OwnThen, Firmware!Own, Firmware!Places, Firmware!Binary,
                                          Firmware!Metadata, Firmware!AsFound, Firmware!Undoubted
      <3>2. x9' = {} => ~Firmware!False(x1, x4)'
        BY <1>1, <1>3, <1>4, <2>1, <2>4, FirmwareAlone, FirmwareContents DEF Firmware!False, Firmware!Own, Firmware!Metadata, Firmware!Places
      <3>3. x8 \in Binaries /\ "overlap" \notin x9 => Firmware!OnlyThat(x8)'
        BY <1>1, <2>1, FirmwareAlone DEF Firmware!OnlyThat
      <3> QED BY <1>1, <1>2, <2>2, <2>3, <3>1, <3>2, <3>3, FirmwareReasons DEF DoneAlone
    <2> QED BY <2>3, <2>4 DEF FirmwareStepOf
  <1> QED BY <1>5, <1>6

\* A half of a file is written.
LEMMA FirmwareHalf ==
    ASSUME NEW file \in Firmware!Contents, file # Absent, NEW b \in Binaries, NEW i \in 0..2,
           NEW to, to = [file EXCEPT ![i + 1] = b]
    PROVE  /\ to \in Firmware!Contents /\ to # Absent
           /\ i = 0 /\ file = Firmware!Empty => to = <<b, Hole>>
           /\ i = 1 /\ file = <<b, Hole>> => to = Firmware!Whole(b)
  <1>1. PICK a \in Binaries \cup {Hole}, c \in Binaries \cup {Hole} : file = <<a, c>>
    BY DEF Firmware!Contents
  <1>2. CASE i = 0
    <2>1. to = <<b, c>>
      BY <1>1, <1>2
    <2> QED BY <1>1, <1>2, <2>1, PartsAssumption DEF Firmware!Contents, Firmware!Empty
  <1>3. CASE i = 1
    <2>1. to = <<a, b>>
      BY <1>1, <1>3
    <2> QED BY <1>1, <1>3, <2>1, PartsAssumption DEF Firmware!Contents, Firmware!Whole
  <1>4. CASE i = 2
    <2>1. to = file
      BY <1>1, <1>4
    <2> QED BY <1>4, <2>1
  <1> QED BY <1>2, <1>3, <1>4

LEMMA FirmwareWriteHalf ==
    ASSUME Firmware!IInv, NEW p \in Writers, Firmware!WriteHalf(p)
    PROVE  FirmwareStepOf(p)
  <1> DEFINE w == x5[p]
  <1>1. p \in Firmware!Active /\ w.pc = "write" /\ UNCHANGED <<x3, x4, x8, x9>>
    BY DEF Firmware!WriteHalf, Firmware!At, Firmware!Active
  <1>2. /\ w \in Firmware!Jobs /\ w.end = "none" /\ w.sha \in Binaries
        /\ w.pc # "write" => w.fd \notin {"part", "bin"}
    BY <1>1, FirmwareAlone
  <1>3. w.solo => Firmware!Own(w)
    BY <1>1, FirmwareAlone
  <1> DEFINE staged == [x2 EXCEPT ![w.n + 1] = w.src]
             image == [x1 EXCEPT ![w.n + 1] = w.src]
             v == IF w.n = 0 THEN [w EXCEPT !.n = 1]
                             ELSE [w EXCEPT !.n = 2, !.fd = "none", !.pc = "check"]
  <1>4. /\ x5' = [x5 EXCEPT ![p] = v]
        /\ x2' = (IF w.fd = "part" THEN staged ELSE x2)
        /\ x1' = (IF w.fd = "bin" THEN image ELSE x1)
    BY DEF Firmware!WriteHalf, Firmware!Written
  <1>5. /\ v \in Firmware!Jobs /\ v.kind = w.kind /\ v.src = w.src /\ v.sha = w.sha
        /\ v.adopt = w.adopt /\ v.made = w.made /\ v.found = w.found /\ v.solo = w.solo /\ v.end = w.end
        /\ w.n = 0 => v.n = 1 /\ v.pc = "write" /\ v.fd = w.fd
        /\ w.n # 0 => v.pc = "check" /\ v.fd = "none"
    <2>1. CASE w.n = 0
      <3>1. v = [w EXCEPT !.n = 1]
        BY <2>1
      <3> QED BY <1>1, <1>2, <2>1, <3>1 DEF Firmware!Jobs
    <2>2. CASE w.n # 0
      <3>1. v = [w EXCEPT !.n = 2, !.fd = "none", !.pc = "check"]
        BY <2>2
      <3> HIDE DEF v
      <3>2. 2 \in 0..2 /\ "none" \in {"none", "part", "bin", "gone"} /\ "check" \in Firmware!Steps
        BY DEF Firmware!Steps
      <3>3. v \in Firmware!Jobs
        BY <1>2, <3>1, <3>2 DEF Firmware!Jobs
      <3> QED BY <1>1, <1>2, <2>2, <3>1, <3>3 DEF Firmware!Jobs
    <2> QED BY <2>1, <2>2
  <1> HIDE DEF v
  <1>6. w.n \in 0..2 /\ w.src \in Binaries
    BY <1>1, <1>2, FirmwareAlone DEF Firmware!Jobs
  <1>7. w.fd = "part" =>
          /\ x2 # Absent /\ staged \in Firmware!Contents /\ staged # Absent
          /\ w.n = 0 /\ x2 = Firmware!Empty => staged = <<w.src, Hole>>
          /\ w.n = 1 /\ x2 = <<w.src, Hole>> => staged = Firmware!Whole(w.src)
    <2> HAVE w.fd = "part"
    <2>1. x2 \in Firmware!Contents /\ x2 # Absent
      BY <1>1, FirmwareAlone
    <2> QED BY <1>6, <2>1, FirmwareHalf
  <1>8. w.fd = "bin" =>
          /\ x1 # Absent /\ image \in Firmware!Contents /\ image # Absent
          /\ w.n = 0 /\ x1 = Firmware!Empty => image = <<w.src, Hole>>
          /\ w.n = 1 /\ x1 = <<w.src, Hole>> => image = Firmware!Whole(w.src)
    <2> HAVE w.fd = "bin"
    <2>1. x1 \in Firmware!Contents /\ x1 # Absent
      BY <1>1, FirmwareAlone
    <2> QED BY <1>6, <2>1, FirmwareHalf
  <1> HIDE DEF staged, image
  <1>9. Framed(p) /\ x5'[p] = v
    <2>1. FilesStay /\ FilesTyped /\ SameCommand(w, v)
      BY <1>1, <1>2, <1>4, <1>5, <1>7, <1>8, FirmwareAlone DEF FilesStay, FilesTyped, OpensOne, SameCommand
    <2>2. OpensOne(v)
      BY <1>1, <1>2, <1>4, <1>5, <1>7, <1>8, FirmwareAlone DEF OpensOne
    <2> QED BY <1>1, <1>4, <1>5, <2>1, <2>2, FirmwareReplaces
  <1>10. ASSUME w.solo
         PROVE  DoneAlone(p)
    <2>1. OwnThen(p)
      <3>1. Firmware!Binary(w) /\ Firmware!Places(w) /\ Firmware!Metadata(w) /\ Firmware!AsFound(w) /\ Firmware!Undoubted(w)
        BY <1>3, <1>10 DEF Firmware!Own
      <3>2. Firmware!Places(x5[p])'
        BY <1>1, <1>5, <1>9, <3>1 DEF Firmware!Places
      <3>3. Firmware!Binary(x5[p])'
        <4>1. w.made = {}
          BY <1>1, <3>1 DEF Firmware!Places
        <4> QED BY <1>1, <1>4, <1>5, <1>7, <1>8, <1>9, <3>1, <4>1 DEF Firmware!Binary
      <3>4. Firmware!Metadata(x5[p])'
        BY <1>1, <1>5, <1>9, <3>1 DEF Firmware!Metadata
      <3>5. Firmware!AsFound(x5[p])'
        BY <1>1, <1>4, <1>5, <1>9, <3>1 DEF Firmware!AsFound, Firmware!Binary
      <3>6. Firmware!Undoubted(x5[p])'
        BY <1>1, <1>4, <1>5, <1>9, <3>1 DEF Firmware!Undoubted, Firmware!Places
      <3> QED BY <3>2, <3>3, <3>4, <3>5, <3>6 DEF OwnThen, Firmware!Own
    <2>2. w.kind \in {"fetch", "add", "import", "pin"}
      BY <1>2 DEF Firmware!Jobs, Firmware!Commands
    <2>3. x9' = {} => ~Firmware!False(x1, x4)'
      BY <1>1, <1>3, <1>4, <1>10, <2>2, FirmwareAlone, FirmwareContents DEF Firmware!False, Firmware!Own, Firmware!Metadata,
                                      Firmware!Places, Firmware!Binary, Firmware!Undoubted
    <2>4. x8 \in Binaries /\ "overlap" \notin x9 => Firmware!OnlyThat(x8)'
      BY <1>1, <1>3, <1>4, <1>10, FirmwareAlone DEF Firmware!OnlyThat, Firmware!Own, Firmware!Binary
    <2> QED BY <1>1, <1>2, <1>5, <1>9, <2>1, <2>3, <2>4, FirmwareReasons DEF DoneAlone
  <1> QED BY <1>9, <1>10 DEF FirmwareStepOf

\* A command ends with a name removed; "none" removes none.
LEMMA FirmwareDrops ==
    ASSUME Firmware!IInv, NEW p \in Firmware!Active, NEW name \in {"none", "part", "bin"}, NEW end \in Firmware!Ends,
           Firmware!Unlinked(p, name, end), FilesTyped, x8' = x8, x9 \subseteq x9',
           x1' = x1 \/ name = "bin", x2' = x2 \/ name = "part",
           x5[p].solo => /\ x9' = {} => ~Firmware!False(x1, x4)'
                         /\ end \in Firmware!Refusals => <<x1', x3', x4'>> = x5[p].found
                         /\ x8 \in Binaries /\ "overlap" \notin x9 => Firmware!OnlyThat(x8)' /\ end \notin Bad
    PROVE  FirmwareStepOf(p)
  <1> DEFINE v == Firmware!Ended(end)
  <1>1. v \in Firmware!Jobs /\ v.pc = "idle" /\ v.end = end /\ v.fd = "none"
    BY FirmwareEnded
  <1>2. p \in Writers
    BY FirmwareAlone
  <1>3. x5' = [q \in Writers |-> x5'[q]] /\ x5'[p] = v
    BY <1>2 DEF Firmware!Unlinked
  <1>4. ASSUME NEW q \in Writers \ {p}
        PROVE  GoesOnAs(q)
    <2> DEFINE f == IF x5[q].fd = name THEN "gone" ELSE x5[q].fd
    <2>1. x5'[q] = [x5[q] EXCEPT !.fd = f]
      BY DEF Firmware!Unlinked
    <2>2. x5[q].fd \in Fds
      BY DEF Firmware!IInv, Firmware!Types, Firmware!Jobs, Fds
    <2>3. (x5[q].fd = "part" => x2 # Absent) /\ (x5[q].fd = "bin" => x1 # Absent)
      BY DEF Firmware!IInv, Firmware!Open
    <2>4. f \in Fds /\ (f # "gone" => f = x5[q].fd /\ f # name)
      BY <2>2 DEF Fds
    <2> HIDE DEF f
    <2> QED BY <2>1, <2>3, <2>4 DEF GoesOnAs
  <1> HIDE DEF v
  <1>5. Framed(p)
    <2>1. v.fd # "part" /\ v.fd # "bin" /\ v.fd \notin {"part", "bin"}
      BY <1>1
    <2> QED BY <1>1, <1>3, <1>4, <2>1, FirmwareFrame DEF FilesTyped
  <1>6. ASSUME x5[p].solo
        PROVE  DoneAlone(p)
    BY <1>1, <1>3, <1>6 DEF DoneAlone
  <1> QED BY <1>5, <1>6 DEF FirmwareStepOf

LEMMA FirmwareWriteFails ==
    ASSUME Firmware!IInv, NEW p \in Writers, Firmware!WriteFails(p)
    PROVE  FirmwareStepOf(p)
  <1> DEFINE w == x5[p]
  <1>1. p \in Firmware!Active /\ w.pc = "write" /\ UNCHANGED <<x3, x4, x8, x9>>
    BY DEF Firmware!WriteFails, Firmware!At, Firmware!Active
  <1>2. /\ w \in Firmware!Jobs /\ w.end = "none" /\ w.sha \in Binaries
        /\ w.pc # "write" => w.fd \notin {"part", "bin"}
    BY <1>1, FirmwareAlone
  <1>3. w.solo => Firmware!Own(w)
    BY <1>1, FirmwareAlone
  <1>4. CASE w.kind = "fetch"
    <2>1. Firmware!Unlinked(p, "part", "io") /\ x2' = Absent /\ x1' = x1
      BY <1>4 DEF Firmware!WriteFails, Firmware!DropsPart
    <2>2. FilesTyped
      BY <1>1, <2>1, FirmwareAlone, FirmwareContents DEF FilesTyped
    <2>3. x9' = {} => ~Firmware!False(x1, x4)'
      BY <1>1, <2>1, FirmwareAlone DEF Firmware!False
    <2>4. x8 \in Binaries /\ "overlap" \notin x9 => Firmware!OnlyThat(x8)'
      BY <1>1, <2>1, FirmwareAlone DEF Firmware!OnlyThat
    <2> QED BY <1>1, <2>1, <2>2, <2>3, <2>4, FirmwareReasons, FirmwareDrops
  <1>5. CASE w.kind = "import"
    <2>1. PICK end \in {"aborted", "rejected"} : Firmware!Unlinked(p, "bin", end) /\ x1' = Absent /\ x2' = x2
      BY <1>5 DEF Firmware!WriteFails, Firmware!DropsBin
    <2>2. FilesTyped
      BY <1>1, <2>1, FirmwareAlone, FirmwareContents DEF FilesTyped
    <2>3. ~Firmware!False(x1, x4)'
      BY <2>1 DEF Firmware!False
    <2>4. ~(x8 \in Binaries /\ "overlap" \notin x9)
      BY <1>1, <1>5, FirmwareAlone
    <2>5. w.solo => <<x1', x3', x4'>> = w.found
      BY <1>1, <1>3, <1>5, <2>1 DEF Firmware!Own, Firmware!AsFound
    <2>6. end \in Firmware!Ends
      BY FirmwareReasons
    <2> QED BY <1>1, <2>1, <2>2, <2>3, <2>4, <2>5, <2>6, FirmwareDrops
  <1>6. CASE w.kind \notin {"fetch", "import"}
    <2>1. Firmware!Finishes(p, "io") /\ UNCHANGED <<x1, x2>>
      BY <1>6 DEF Firmware!WriteFails
    <2> QED BY <1>1, <2>1, FirmwareReasons, FirmwareFinishes
  <1> QED BY <1>4, <1>5, <1>6

LEMMA FirmwareFetchCheck ==
    ASSUME Firmware!IInv, NEW p \in Writers, Firmware!FetchCheck(p)
    PROVE  FirmwareStepOf(p)
  <1> DEFINE w == x5[p]
  <1>1. p \in Firmware!Active /\ w.kind = "fetch" /\ w.pc = "check" /\ UNCHANGED <<x3, x4, x8, x9>>
    BY DEF Firmware!FetchCheck, Firmware!At, Firmware!Active
  <1>2. /\ w \in Firmware!Jobs /\ w.end = "none" /\ w.sha \in Binaries
        /\ w.pc # "write" => w.fd \notin {"part", "bin"}
    BY <1>1, FirmwareAlone
  <1>3. w.solo => Firmware!Own(w)
    BY <1>1, FirmwareAlone
  <1>4. w.src = w.sha /\ Firmware!Whole(w.sha) # Absent
    BY <1>1, <1>2, FirmwareAlone, FirmwareContents
  <1>5. CASE x2 = Firmware!Whole(w.sha)
    <2> DEFINE v == [w EXCEPT !.pc = "page"]
    <2>1. x5' = [x5 EXCEPT ![p] = v] /\ UNCHANGED <<x1, x2>>
      BY <1>5 DEF Firmware!FetchCheck, Firmware!Goes
    <2>2. /\ v \in Firmware!Jobs /\ v.pc = "page" /\ v.kind = w.kind /\ v.src = w.src /\ v.sha = w.sha
          /\ v.fd = w.fd /\ v.n = w.n /\ v.adopt = w.adopt /\ v.made = w.made /\ v.found = w.found
          /\ v.solo = w.solo /\ v.end = w.end
      BY <1>2, FirmwareAt DEF Firmware!Steps
    <2> HIDE DEF v
    <2>3. ASSUME w.solo
          PROVE  Firmware!Own(v)
      BY <1>1, <1>3, <1>5, <2>2, <2>3 DEF Firmware!Own, Firmware!Places, Firmware!Binary, Firmware!Metadata,
                                          Firmware!AsFound, Firmware!Undoubted
    <2> QED BY <1>1, <1>2, <2>1, <2>2, <2>3, FirmwareGoesOn
  <1>6. CASE x2 = Absent
    <2>1. Firmware!Finishes(p, "io") /\ UNCHANGED <<x1, x2>>
      BY <1>4, <1>6 DEF Firmware!FetchCheck
    <2> QED BY <1>1, <2>1, FirmwareReasons, FirmwareFinishes
  <1>7. CASE x2 # Absent /\ x2 # Firmware!Whole(w.sha)
    <2>1. Firmware!Unlinked(p, "part", "checksum") /\ x2' = Absent /\ x1' = x1
      BY <1>7 DEF Firmware!FetchCheck, Firmware!DropsPart
    <2>2. FilesTyped
      BY <1>1, <2>1, FirmwareAlone, FirmwareContents DEF FilesTyped
    <2>3. ~w.solo
      BY <1>1, <1>3, <1>4, <1>7 DEF Firmware!Own, Firmware!Binary
    <2> QED BY <1>1, <2>1, <2>2, <2>3, FirmwareReasons, FirmwareDrops
  <1> QED BY <1>5, <1>6, <1>7

LEMMA FirmwareImportCheck ==
    ASSUME Firmware!IInv, NEW p \in Writers, Firmware!ImportCheck(p)
    PROVE  FirmwareStepOf(p)
  <1> DEFINE w == x5[p]
  <1>1. p \in Firmware!Active /\ w.kind = "import" /\ w.pc = "check" /\ UNCHANGED <<x3, x4, x8, x9>>
    BY DEF Firmware!ImportCheck, Firmware!At, Firmware!Active
  <1>2. /\ w \in Firmware!Jobs /\ w.end = "none" /\ w.sha \in Binaries
        /\ w.pc # "write" => w.fd \notin {"part", "bin"}
    BY <1>1, FirmwareAlone
  <1>3. w.solo => Firmware!Own(w)
    BY <1>1, FirmwareAlone
  <1>4. ~(x8 \in Binaries /\ "overlap" \notin x9) /\ Firmware!Whole(w.sha) # Absent
    BY <1>1, <1>2, FirmwareAlone, FirmwareContents
  <1>5. CASE x1 = Firmware!Whole(w.sha)
    <2> DEFINE v == [w EXCEPT !.pc = "page", !.made = {"bin"}]
    <2>1. x5' = [x5 EXCEPT ![p] = v] /\ UNCHANGED <<x1, x2>>
      BY <1>5 DEF Firmware!ImportCheck
    <2>2. /\ v \in Firmware!Jobs /\ v.pc = "page" /\ v.kind = w.kind /\ v.src = w.src /\ v.sha = w.sha
          /\ v.fd = w.fd /\ v.n = w.n /\ v.adopt = w.adopt /\ v.made = {"bin"} /\ v.found = w.found
          /\ v.solo = w.solo /\ v.end = w.end
      BY <1>2 DEF Firmware!Jobs, Firmware!Steps
    <2> HIDE DEF v
    <2>3. ASSUME w.solo
          PROVE  Firmware!Own(v)
      BY <1>1, <1>3, <1>5, <2>2, <2>3 DEF Firmware!Own, Firmware!Places, Firmware!Binary, Firmware!Metadata,
                                          Firmware!AsFound, Firmware!Undoubted
    <2> QED BY <1>1, <1>2, <2>1, <2>2, <2>3, FirmwareGoesOn
  <1>6. CASE x1 = Absent
    <2>1. Firmware!Finishes(p, "aborted") /\ UNCHANGED <<x1, x2>>
      BY <1>4, <1>6 DEF Firmware!ImportCheck
    <2> QED BY <1>1, <2>1, FirmwareReasons, FirmwareFinishes
  <1>7. CASE x1 # Absent /\ x1 # Firmware!Whole(w.sha)
    <2>1. Firmware!Unlinked(p, "bin", "rejected") /\ x1' = Absent /\ x2' = x2
      BY <1>7 DEF Firmware!ImportCheck, Firmware!DropsBin
    <2>2. FilesTyped
      BY <1>1, <2>1, FirmwareAlone, FirmwareContents DEF FilesTyped
    <2>3. ~Firmware!False(x1, x4)'
      BY <2>1 DEF Firmware!False
    <2>4. w.solo => <<x1', x3', x4'>> = w.found
      BY <1>1, <1>3, <2>1 DEF Firmware!Own, Firmware!AsFound
    <2> QED BY <1>1, <1>4, <2>1, <2>2, <2>3, <2>4, FirmwareReasons, FirmwareDrops
  <1> QED BY <1>5, <1>6, <1>7

LEMMA FirmwarePageFails ==
    ASSUME Firmware!IInv, NEW p \in Writers, Firmware!PageFails(p)
    PROVE  FirmwareStepOf(p)
  <1> DEFINE w == x5[p]
  <1>1. p \in Firmware!Active /\ w.pc = "page2" /\ UNCHANGED <<x4, x8, x9>>
    BY DEF Firmware!PageFails, Firmware!At, Firmware!Active
  <1>2. /\ w \in Firmware!Jobs /\ w.end = "none" /\ w.sha \in Binaries
        /\ w.pc # "write" => w.fd \notin {"part", "bin"}
    BY <1>1, FirmwareAlone
  <1>3. w.solo => Firmware!Own(w)
    BY <1>1, FirmwareAlone
  <1>4. CASE w.kind = "import"
    <2> DEFINE v == Firmware!Ended("aborted")
    <2>1. x5' = [x5 EXCEPT ![p] = v] /\ x3' = "none" /\ UNCHANGED <<x1, x2>>
      BY <1>4 DEF Firmware!PageFails, Firmware!Finishes
    <2>2. v \in Firmware!Jobs /\ v.pc = "idle" /\ v.end = "aborted" /\ v.fd = "none"
      BY FirmwareEnded, FirmwareReasons
    <2> HIDE DEF v
    <2>3. Framed(p) /\ x5'[p] = v
      <3>1. FilesStay /\ FilesTyped /\ OpensOne(v)
        BY <1>1, <2>1, <2>2, FirmwareAlone DEF FilesStay, FilesTyped, OpensOne, Pages
      <3> QED BY <1>1, <2>1, <2>2, <3>1, FirmwareReplaces
    <2>4. x9' = {} => ~Firmware!False(x1, x4)'
      BY <1>1, <2>1, FirmwareAlone DEF Firmware!False
    <2>5. ~(x8 \in Binaries /\ "overlap" \notin x9)
      BY <1>1, <1>4, FirmwareAlone
    <2> QED BY <2>2, <2>3, <2>4, <2>5, FirmwareReasons DEF DoneAlone, FirmwareStepOf
  <1>5. CASE w.kind # "import" /\ w.adopt
    <2>1. Firmware!Finishes(p, "io") /\ UNCHANGED <<x1, x2, x3>>
      BY <1>5 DEF Firmware!PageFails
    <2> QED BY <1>1, <2>1, FirmwareReasons, FirmwareFinishes
  <1>6. CASE w.kind # "import" /\ ~w.adopt
    <2>1. Firmware!Unlinked(p, "part", "io") /\ x2' = Absent /\ UNCHANGED <<x1, x3>>
      BY <1>6 DEF Firmware!PageFails, Firmware!DropsPart
    <2>2. FilesTyped
      BY <1>1, <2>1, FirmwareAlone, FirmwareContents DEF FilesTyped
    <2>3. x9' = {} => ~Firmware!False(x1, x4)'
      BY <1>1, <2>1, FirmwareAlone DEF Firmware!False
    <2>4. x8 \in Binaries /\ "overlap" \notin x9 => Firmware!OnlyThat(x8)'
      BY <1>1, <2>1, FirmwareAlone DEF Firmware!OnlyThat
    <2> QED BY <1>1, <2>1, <2>2, <2>3, <2>4, FirmwareReasons, FirmwareDrops
  <1> QED BY <1>4, <1>5, <1>6

LEMMA FirmwareImportRejects ==
    ASSUME Firmware!IInv, NEW p \in Writers, Firmware!ImportRejects(p)
    PROVE  FirmwareStepOf(p)
  <1> DEFINE w == x5[p]
  <1>1. p \in Firmware!Active /\ w.kind = "import" /\ w.pc \in {"page", "meta"} /\ x4 = Absent /\ UNCHANGED <<x2, x4, x8, x9>>
    BY DEF Firmware!ImportRejects, Firmware!At, Firmware!Active
  <1>2. /\ w \in Firmware!Jobs /\ w.end = "none" /\ w.sha \in Binaries
        /\ w.pc # "write" => w.fd \notin {"part", "bin"}
    BY <1>1, FirmwareAlone
  <1>3. w.solo => Firmware!Own(w)
    BY <1>1, FirmwareAlone
  <1> DEFINE stuck == "bin" \in w.made /\ x1 = Absent
             name == IF "bin" \in w.made THEN "bin" ELSE "none"
             end == IF stuck THEN "aborted" ELSE "rejected"
  <1>4. /\ x1' = (IF "bin" \in w.made THEN Absent ELSE x1)
        /\ x3' = (IF "page" \in w.made /\ ~stuck THEN "none" ELSE x3)
        /\ Firmware!Unlinked(p, name, end)
        /\ w.pc = "page" => x3 = "none"
    BY DEF Firmware!ImportRejects, Firmware!TakesBack
  <1>5. FilesTyped
    BY <1>1, <1>4, FirmwareAlone, FirmwareContents DEF FilesTyped, Pages
  <1>6. ~Firmware!False(x1, x4)'
    BY <1>1, FirmwareContents DEF Firmware!False
  <1>7. ~(x8 \in Binaries /\ "overlap" \notin x9)
    BY <1>1, FirmwareAlone
  <1>8. ASSUME w.solo, end = "rejected"
        PROVE  <<x1', x3', x4'>> = w.found
    <2>1. /\ w.found[1] = (IF "bin" \in w.made THEN Absent ELSE x1)
          /\ w.found[2] = (IF "page" \in w.made THEN "none" ELSE x3)
          /\ w.found[3] = x4
      BY <1>1, <1>3, <1>8 DEF Firmware!Own, Firmware!AsFound
    <2>2. ~stuck
      BY <1>8
    <2>3. w.found = <<w.found[1], w.found[2], w.found[3]>>
      BY <1>2 DEF Firmware!Jobs
    <2> QED BY <1>1, <1>4, <2>1, <2>2, <2>3
  <1>9. /\ end \in Firmware!Ends /\ (end \in Firmware!Refusals => end = "rejected")
        /\ name \in {"none", "part", "bin"} /\ (x1' = x1 \/ name = "bin")
    BY <1>4, FirmwareReasons
  <1>10. w.solo => (end \in Firmware!Refusals => <<x1', x3', x4'>> = w.found)
    BY <1>8, <1>9
  <1>11. Firmware!Unlinked(p, name, end)
    BY <1>4
  <1> HIDE DEF name, end
  <1> QED BY <1>1, <1>5, <1>6, <1>7, <1>9, <1>10, <1>11, FirmwareDrops

LEMMA FirmwareRename ==
    ASSUME Firmware!IInv, NEW p \in Writers, Firmware!Rename(p)
    PROVE  FirmwareStepOf(p)
  <1> DEFINE w == x5[p]
  <1>1. p \in Firmware!Active /\ w.pc = "rename" /\ UNCHANGED <<x3, x4, x8, x9>>
    BY DEF Firmware!Rename, Firmware!At, Firmware!Active
  <1>2. /\ w \in Firmware!Jobs /\ w.end = "none" /\ w.sha \in Binaries
        /\ w.pc # "write" => w.fd \notin {"part", "bin"}
    BY <1>1, FirmwareAlone
  <1>3. w.solo => Firmware!Own(w)
    BY <1>1, FirmwareAlone
  <1>4. CASE x2 = Absent
    <2>1. Firmware!Finishes(p, "io") /\ UNCHANGED <<x1, x2>>
      BY <1>4 DEF Firmware!Rename
    <2> QED BY <1>1, <2>1, FirmwareReasons, FirmwareFinishes
  <1>5. CASE x2 # Absent
    <2> DEFINE v == [w EXCEPT !.pc = "meta"]
               f(q) == IF x5[q].fd = "part" THEN "bin" ELSE IF x5[q].fd = "bin" THEN "gone" ELSE x5[q].fd
    <2>1. x1' = x2 /\ x2' = Absent
      BY <1>5 DEF Firmware!Rename
    <2>2. /\ x5' = [q \in Writers |-> x5'[q]] /\ x5'[p] = v
          /\ \A q \in Writers \ {p} : x5'[q] = [x5[q] EXCEPT !.fd = f(q)]
      <3>1. x5' = [q \in Writers |->
                     IF q = p THEN [x5[p] EXCEPT !.pc = "meta"]
                     ELSE [x5[q] EXCEPT !.fd = f(q)]]
        BY <1>5 DEF Firmware!Rename
      <3> HIDE DEF f
      <3> QED BY <3>1
    <2>3. /\ v \in Firmware!Jobs /\ v.pc = "meta" /\ v.kind = w.kind /\ v.src = w.src /\ v.sha = w.sha
          /\ v.fd = w.fd /\ v.n = w.n /\ v.adopt = w.adopt /\ v.made = w.made /\ v.found = w.found
          /\ v.solo = w.solo /\ v.end = w.end
      BY <1>2, FirmwareAt DEF Firmware!Steps
    <2> HIDE DEF v
    <2>4. ASSUME NEW q \in Writers \ {p}
          PROVE  GoesOnAs(q)
      <3>1. x5[q].fd \in Fds
        BY DEF Firmware!IInv, Firmware!Types, Firmware!Jobs, Fds
      <3>2. x5'[q] = [x5[q] EXCEPT !.fd = f(q)]
        BY <2>2
      <3>3. /\ f(q) \in Fds /\ f(q) # "part" /\ (f(q) = "bin" => x1' # Absent)
            /\ f(q) \in {"part", "bin"} => x5[q].fd \in {"part", "bin"}
        BY <1>5, <2>1, <3>1 DEF Fds
      <3> HIDE DEF f
      <3> QED BY <3>2, <3>3 DEF GoesOnAs
    <2>5. Framed(p)
      <3>1. /\ x1' \in Firmware!Contents /\ x2' \in Firmware!Contents /\ x3' \in Pages
            /\ x4' \in {Absent, Torn} \cup Binaries
        BY <1>1, <2>1, FirmwareAlone, FirmwareContents
      <3>2. v.fd # "part" /\ v.fd # "bin" /\ v.fd \notin {"part", "bin"}
        BY <1>1, <1>2, <2>3
      <3> QED BY <1>1, <1>2, <2>2, <2>3, <2>4, <3>1, <3>2, FirmwareFrame
    <2>6. ASSUME w.solo
          PROVE  DoneAlone(p)
      <3>1. w.kind = "fetch" /\ x2 = Firmware!Whole(w.sha) /\ x4 = Absent
        BY <1>1, <1>2, <1>3, <2>6 DEF Firmware!Own, Firmware!Places, Firmware!Binary, Firmware!Metadata,
                                      Firmware!Jobs, Firmware!Commands
      <3>2. OwnThen(p)
        BY <1>1, <1>3, <2>1, <2>2, <2>3, <2>6, <3>1 DEF OwnThen, Firmware!Own, Firmware!Places, Firmware!Binary,
                                          Firmware!Metadata, Firmware!AsFound, Firmware!Undoubted
      <3>3. ~Firmware!False(x1, x4)'
        BY <1>1, <3>1, FirmwareContents DEF Firmware!False
      <3>4. x8 \in Binaries /\ "overlap" \notin x9 => Firmware!OnlyThat(x8)'
        BY <1>1, <2>1, <3>1, FirmwareAlone DEF Firmware!OnlyThat
      <3> QED BY <1>2, <2>2, <2>3, <3>2, <3>3, <3>4, FirmwareReasons DEF DoneAlone
    <2> QED BY <2>5, <2>6 DEF FirmwareStepOf
  <1> QED BY <1>4, <1>5

\* A command begins, alone or not.
LEMMA FirmwareBegin ==
    ASSUME Firmware!IInv, NEW p \in Writers, NEW kind \in Firmware!Commands, NEW src \in Binaries, NEW sha \in Binaries,
           Firmware!Begin(p, kind, src, sha)
    PROVE  Firmware!IInv' /\ Firmware!RefusalLeavesNothing
  <1> DEFINE idle == Firmware!Active = {}
             v == [Firmware!Nothing EXCEPT !.kind = kind, !.src = src, !.sha = sha, !.pc = "look",
                                           !.found = <<x1, x3, x4>>, !.solo = idle]
             u(q) == [x5[q] EXCEPT !.solo = x5[q].solo /\ q \notin Firmware!Active]
  <1>1. /\ x5[p].pc = "idle" /\ UNCHANGED <<x1, x2, x3, x4>>
        /\ src = sha \/ kind = "import"
        /\ x8' = (IF kind = "fetch" /\ x8 \in {Absent, src} THEN src ELSE Torn)
        /\ x9' = (IF idle THEN x9 ELSE x9 \cup {"overlap"})
    BY DEF Firmware!Begin
  <1>2. x5' = [q \in Writers |-> IF q = p THEN v ELSE u(q)]
    BY DEF Firmware!Begin
  <1>3. /\ v.kind = kind /\ v.src = src /\ v.sha = sha /\ v.pc = "look" /\ v.fd = "none" /\ v.n = 0
        /\ v.adopt = FALSE /\ v.made = {} /\ v.found = <<x1, x3, x4>> /\ v.solo = idle /\ v.end = "none"
    BY DEF Firmware!Nothing
  <1>4. v \in Firmware!Jobs
    <2>1. <<x1, x3, x4>> \in Firmware!Contents \X {"none", "torn", "whole"} \X ({Absent, Torn} \cup Binaries)
      BY DEF Firmware!IInv, Firmware!Types
    <2>2. "look" \in Firmware!Steps /\ "none" \in Firmware!Ends /\ idle \in BOOLEAN
      BY DEF Firmware!Steps, Firmware!Ends
    <2> HIDE DEF idle
    <2> QED BY <2>1, <2>2, FirmwareNothing DEF Firmware!Jobs
  <1>5. \A q \in Writers : /\ x5[q] \in Firmware!Jobs
                           /\ q \in Firmware!Active <=> x5[q].pc # "idle"
    BY DEF Firmware!IInv, Firmware!Types, Firmware!Active
  <1>6. ASSUME NEW q \in Writers \ {p}
        PROVE  /\ u(q) \in Firmware!Jobs /\ u(q).pc = x5[q].pc /\ u(q).fd = x5[q].fd /\ u(q).end = x5[q].end
               /\ u(q).kind = x5[q].kind /\ u(q).src = x5[q].src /\ u(q).sha = x5[q].sha
               /\ u(q).solo = (x5[q].solo /\ q \notin Firmware!Active)
    <2> DEFINE b == x5[q].solo /\ q \notin Firmware!Active
    <2>1. u(q) = [x5[q] EXCEPT !.solo = b] /\ b \in BOOLEAN
      OBVIOUS
    <2> HIDE DEF b
    <2>2. u(q) \in Firmware!Jobs /\ u(q).solo = b
      BY <1>5, <2>1 DEF Firmware!Jobs
    <2>3. /\ u(q).pc = x5[q].pc /\ u(q).fd = x5[q].fd /\ u(q).end = x5[q].end
          /\ u(q).kind = x5[q].kind /\ u(q).src = x5[q].src /\ u(q).sha = x5[q].sha
      BY <1>5, <2>1 DEF Firmware!Jobs
    <2> QED BY <2>2, <2>3 DEF b
  <1> HIDE DEF v, u
  <1>7. x5'[p] = v /\ \A q \in Writers \ {p} : x5'[q] = u(q)
    BY <1>2
  <1>8. \A q \in Writers \ {p} :
           /\ x5'[q] \in Firmware!Jobs /\ x5'[q].pc = x5[q].pc /\ x5'[q].fd = x5[q].fd /\ x5'[q].end = x5[q].end
           /\ x5'[q].kind = x5[q].kind /\ x5'[q].src = x5[q].src /\ x5'[q].sha = x5[q].sha
           /\ x5'[q].solo = (x5[q].solo /\ q \notin Firmware!Active)
    BY <1>6, <1>7
  <1>9. p \notin Firmware!Active /\ Firmware!Active' = Firmware!Active \cup {p}
    <2>1. Firmware!Active' = {q \in Writers : x5'[q].pc # "idle"}
      BY DEF Firmware!Active
    <2>2. x5'[p].pc = "look"
      BY <1>3, <1>7
    <2>3. \A q \in Writers : q \in Firmware!Active' <=> q \in Firmware!Active \cup {p}
      BY <1>1, <1>5, <1>8, <2>1, <2>2
    <2>4. Firmware!Active' \subseteq Writers /\ Firmware!Active \cup {p} \subseteq Writers
      BY <2>1 DEF Firmware!Active
    <2> QED BY <1>1, <1>5, <2>3, <2>4
  <1>10. Firmware!Types'
    <2>1. x5' \in [Writers -> Firmware!Jobs]
      BY <1>2, <1>4, <1>7, <1>8
    <2> QED BY <1>1, <2>1 DEF Firmware!IInv, Firmware!Types
  <1>11. Firmware!Open'
    BY <1>1, <1>3, <1>7, <1>8 DEF Firmware!IInv, Firmware!Open
  <1>12. Firmware!Turns'
    <2>1. ASSUME NEW q \in Firmware!Active'
          PROVE  /\ x5'[q].end = "none" /\ {x5'[q].src, x5'[q].sha} \subseteq Binaries
                 /\ x5'[q].kind \in {"fetch", "add"} => x5'[q].src = x5'[q].sha
                 /\ x5'[q].solo => Firmware!Active' = {q}
                 /\ "overlap" \notin x9' => x5'[q].solo
      <3>1. CASE q = p
        BY <1>1, <1>3, <1>7, <1>9, <3>1
      <3>2. CASE q # p
        <4>1. q \in Firmware!Active /\ q \in Writers \ {p}
          BY <1>9, <3>2, <2>1 DEF Firmware!Active
        <4>2. ~x5'[q].solo /\ "overlap" \in x9'
          BY <1>1, <1>8, <4>1
        <4> QED BY <1>8, <4>1, <4>2 DEF Firmware!IInv, Firmware!Turns
      <3> QED BY <3>1, <3>2
    <2> QED BY <2>1 DEF Firmware!Turns
  <1>13. Firmware!OneBinary'
    <2> SUFFICES ASSUME x8' # Torn, "overlap" \notin x9'
                 PROVE  /\ \A q \in Firmware!Active' : x5'[q].kind = "fetch" /\ x5'[q].sha = x8'
                        /\ \A q \in Writers : x5'[q].end \notin Bad
                        /\ x8' # Absent /\ Firmware!OnlyThat(x8)'
      BY DEF Firmware!OneBinary, Bad
    <2>1. idle /\ x9' = x9 /\ kind = "fetch" /\ x8' = src /\ x8 \in {Absent, src} /\ src = sha
      BY <1>1
    <2>2. x8 # Torn /\ src # Absent
      BY <2>1, FirmwareContents
    <2>3. /\ \A q \in Writers : x5[q].end \notin Bad
          /\ IF x8 = Absent THEN x1 = Absent /\ x4 = Absent ELSE Firmware!OnlyThat(x8)
      BY <2>1, <2>2 DEF Firmware!IInv, Firmware!OneBinary, Bad
    <2>4. Firmware!OnlyThat(x8)'
      BY <1>1, <2>1, <2>3 DEF Firmware!OnlyThat
    <2>5. \A q \in Writers : x5'[q].end \notin Bad
      <3>1. x5'[p].end \notin Bad
        BY <1>3, <1>7 DEF Bad
      <3> QED BY <1>8, <2>3, <3>1
    <2>6. \A q \in Firmware!Active' : q = p
      BY <1>9, <2>1
    <2> QED BY <1>3, <1>7, <2>1, <2>2, <2>4, <2>5, <2>6
  <1>14. Firmware!ListedIsTrue'
    <2>1. x9' = {} => x9 = {}
      BY <1>1
    <2> QED BY <1>1, <2>1 DEF Firmware!IInv, Firmware!ListedIsTrue, Firmware!False
  <1>15. ASSUME NEW q \in Firmware!Active', x5'[q].solo
         PROVE  Firmware!Own(x5[q])'
    <2>1. q = p
      <3> SUFFICES ASSUME q # p PROVE FALSE
        OBVIOUS
      <3>1. q \in Firmware!Active /\ q \in Writers \ {p}
        BY <1>9, <1>15 DEF Firmware!Active
      <3> QED BY <1>8, <1>15, <3>1
    <2>2. x5'[q] = v
      BY <1>7, <2>1
    <2> QED BY <1>1, <1>3, <2>2 DEF Firmware!Own, Firmware!Places, Firmware!Binary, Firmware!Metadata,
                                    Firmware!AsFound, Firmware!Undoubted
  <1>16. Firmware!IInv'
    BY <1>10, <1>11, <1>12, <1>13, <1>14, <1>15 DEF Firmware!IInv
  <1>17. Firmware!RefusalLeavesNothing
    <2>1. ASSUME NEW q \in Firmware!Active
          PROVE  x5'[q].end \notin Firmware!Refusals
      <3>1. q \in Writers \ {p} /\ x5[q].end = "none"
        BY <1>9, <2>1 DEF Firmware!IInv, Firmware!Turns, Firmware!Active
      <3> QED BY <1>8, <3>1, FirmwareReasons
    <2> QED BY <2>1 DEF Firmware!RefusalLeavesNothing
  <1> QED BY <1>16, <1>17

\* A step of a command preserves the invariant, and a refusal leaves what it found.
LEMMA FirmwareStepped ==
    ASSUME Firmware!IInv, NEW p \in Writers, FirmwareStepOf(p)
    PROVE  Firmware!IInv' /\ Firmware!RefusalLeavesNothing
  <1>1. Framed(p) /\ (x5[p].solo => DoneAlone(p))
    BY DEF FirmwareStepOf
  <1>2. /\ p \in Firmware!Active /\ Firmware!Types' /\ Firmware!Open' /\ x8' = x8 /\ x9 \subseteq x9'
        /\ x5'[p].pc # "idle" =>
              /\ x5'[p].end = "none" /\ x5'[p].solo = x5[p].solo
              /\ x5'[p].kind = x5[p].kind /\ x5'[p].src = x5[p].src /\ x5'[p].sha \in Binaries
              /\ x5[p].kind # "pin" => x5'[p].sha = x5[p].sha
    BY <1>1 DEF Framed
  <1>3. ASSUME NEW q \in Writers \ {p}
        PROVE  /\ x5'[q].pc = x5[q].pc /\ x5'[q].end = x5[q].end /\ x5'[q].solo = x5[q].solo
               /\ x5'[q].kind = x5[q].kind /\ x5'[q].src = x5[q].src /\ x5'[q].sha = x5[q].sha
    <2>1. PICK f \in Fds : x5'[q] = [x5[q] EXCEPT !.fd = f]
      BY <1>1 DEF Framed, GoesOnAs
    <2>2. x5[q] \in Firmware!Jobs
      BY DEF Firmware!IInv, Firmware!Types
    <2> QED BY <2>1, <2>2 DEF Firmware!Jobs
  <1>4. \A q \in Firmware!Active' : q \in Firmware!Active
    <2>1. ASSUME NEW q \in Firmware!Active'
          PROVE  q \in Firmware!Active
      <3>1. q \in Writers /\ x5'[q].pc # "idle"
        BY <2>1 DEF Firmware!Active
      <3> QED BY <1>2, <1>3, <3>1 DEF Firmware!Active
    <2> QED BY <2>1
  <1>5. /\ x5[p].end = "none" /\ x5[p].src \in Binaries /\ x5[p].sha \in Binaries
        /\ x5[p].kind \in {"fetch", "add"} => x5[p].src = x5[p].sha
        /\ x5[p].solo => Firmware!Active = {p}
        /\ "overlap" \notin x9 => x5[p].solo
    BY <1>2 DEF Firmware!IInv, Firmware!Turns
  <1>6. ASSUME NEW q \in Firmware!Active, q # p
        PROVE  q \in Writers \ {p} /\ ~x5[q].solo /\ "overlap" \in x9
    BY <1>2, <1>6 DEF Firmware!IInv, Firmware!Turns, Firmware!Active
  <1>7. "overlap" \notin x9' => "overlap" \notin x9 /\ x5[p].solo /\ DoneAlone(p)
    BY <1>1, <1>2, <1>5
  <1>8. Firmware!Turns'
    <2>1. ASSUME NEW q \in Firmware!Active'
          PROVE  /\ x5'[q].end = "none" /\ {x5'[q].src, x5'[q].sha} \subseteq Binaries
                 /\ x5'[q].kind \in {"fetch", "add"} => x5'[q].src = x5'[q].sha
                 /\ x5'[q].solo => Firmware!Active' = {q}
                 /\ "overlap" \notin x9' => x5'[q].solo
      <3>1. CASE q = p
        <4>1. x5'[p].pc # "idle"
          BY <2>1, <3>1 DEF Firmware!Active
        <4>2. x5'[p].solo => Firmware!Active' = {p}
          <5>1. HAVE x5'[p].solo
          <5>2. \A r \in Firmware!Active' : r = p
            BY <1>2, <1>4, <1>5, <4>1, <5>1
          <5> QED BY <2>1, <3>1, <5>2
        <4> QED BY <1>2, <1>5, <1>7, <3>1, <4>1, <4>2
      <3>2. CASE q # p
        <4>1. q \in Firmware!Active /\ q \in Writers \ {p} /\ ~x5[q].solo /\ "overlap" \in x9
          BY <1>4, <1>6, <2>1, <3>2
        <4> QED BY <1>2, <1>3, <4>1 DEF Firmware!IInv, Firmware!Turns
      <3> QED BY <3>1, <3>2
    <2> QED BY <2>1 DEF Firmware!Turns
  <1>9. Firmware!OneBinary'
    <2> SUFFICES ASSUME x8' # Torn, "overlap" \notin x9'
                 PROVE  /\ \A q \in Firmware!Active' : x5'[q].kind = "fetch" /\ x5'[q].sha = x8'
                        /\ \A q \in Writers : x5'[q].end \notin Bad
                        /\ x8' # Absent /\ Firmware!OnlyThat(x8)'
      BY DEF Firmware!OneBinary, Bad
    <2>1. x8 # Torn /\ "overlap" \notin x9 /\ DoneAlone(p)
      BY <1>2, <1>7
    <2>2. /\ \A q \in Firmware!Active : x5[q].kind = "fetch" /\ x5[q].sha = x8
          /\ \A q \in Writers : x5[q].end \notin Bad
      BY <2>1 DEF Firmware!IInv, Firmware!OneBinary, Bad
    <2>3. x8 \in Binaries /\ x8 # Absent
      BY <1>2, <1>5, <2>2, FirmwareContents
    <2>4. Firmware!OnlyThat(x8)' /\ x5'[p].end \notin Bad
      BY <2>1, <2>3 DEF DoneAlone
    <2>5. \A q \in Writers : x5'[q].end \notin Bad
      BY <1>3, <2>2, <2>4
    <2>6. ASSUME NEW q \in Firmware!Active'
          PROVE  x5'[q].kind = "fetch" /\ x5'[q].sha = x8
      <3>1. q = p
        BY <1>4, <1>6, <2>1, <2>6
      <3>2. x5'[p].pc # "idle"
        BY <2>6, <3>1 DEF Firmware!Active
      <3> QED BY <1>2, <2>2, <3>1, <3>2
    <2> QED BY <1>2, <2>3, <2>4, <2>5, <2>6
  <1>10. Firmware!ListedIsTrue'
    <2>1. x9' = {} => DoneAlone(p)
      BY <1>7
    <2>2. x9' = {} => ~Firmware!False(x1, x4)'
      BY <2>1 DEF DoneAlone
    <2> QED BY <2>2 DEF Firmware!ListedIsTrue
  <1>11. ASSUME NEW q \in Firmware!Active', x5'[q].solo
         PROVE  Firmware!Own(x5[q])'
    <2>1. q = p
      BY <1>3, <1>4, <1>6, <1>11
    <2>2. x5'[p].pc # "idle"
      BY <1>11, <2>1 DEF Firmware!Active
    <2>3. OwnThen(p)
      BY <1>1, <1>2, <1>11, <2>1, <2>2 DEF DoneAlone
    <2> QED BY <2>1, <2>3 DEF OwnThen
  <1>12. Firmware!IInv'
    BY <1>2, <1>8, <1>9, <1>10, <1>11 DEF Firmware!IInv
  <1>13. Firmware!RefusalLeavesNothing
    <2>1. ASSUME NEW q \in Firmware!Active, x5[q].solo, x5'[q].end \in Firmware!Refusals
          PROVE  <<x1', x3', x4'>> = x5[q].found
      <3>1. q = p
        BY <1>6, <2>1
      <3> QED BY <1>1, <2>1, <3>1 DEF DoneAlone
    <2> QED BY <2>1 DEF Firmware!RefusalLeavesNothing
  <1> QED BY <1>12, <1>13

LEMMA FirmwareInit == Firmware!Init => Firmware!IInv
  <1> SUFFICES ASSUME Firmware!Init PROVE Firmware!IInv
    OBVIOUS
  <1>1. Firmware!Nothing \in Firmware!Jobs /\ Firmware!Nothing.pc = "idle" /\ Firmware!Nothing.fd = "none"
        /\ Firmware!Nothing.end = "none"
    BY FirmwareNothing
  <1>2. \A p \in Writers : x5[p] = Firmware!Nothing
    BY DEF Firmware!Init
  <1>3. Firmware!Active = {}
    BY <1>1, <1>2 DEF Firmware!Active
  <1>4. Firmware!Types
    BY <1>1, FirmwareContents DEF Firmware!Init, Firmware!Types
  <1>5. Firmware!Open
    BY <1>1, <1>2 DEF Firmware!Open
  <1>6. Firmware!Turns
    BY <1>3 DEF Firmware!Turns
  <1>7. Firmware!OneBinary
    BY <1>1, <1>2, <1>3 DEF Firmware!Init, Firmware!OneBinary
  <1>8. Firmware!ListedIsTrue
    BY FirmwareContents DEF Firmware!Init, Firmware!ListedIsTrue, Firmware!False
  <1> QED BY <1>3, <1>4, <1>5, <1>6, <1>7, <1>8 DEF Firmware!IInv

LEMMA FirmwareNext ==
    ASSUME Firmware!IInv, Firmware!Next
    PROVE  Firmware!IInv' /\ Firmware!RefusalLeavesNothing
  <1>1. ASSUME NEW p \in Writers, NEW kind \in Firmware!Commands, NEW src \in Binaries, NEW sha \in Binaries,
               Firmware!Begin(p, kind, src, sha)
        PROVE  Firmware!IInv' /\ Firmware!RefusalLeavesNothing
    BY <1>1, FirmwareBegin
  <1>2. ASSUME NEW p \in Writers,
               \/ Firmware!FetchLook(p) \/ Firmware!FetchBin(p) \/ Firmware!AddLook(p) \/ Firmware!ImportLook(p)
               \/ Firmware!PinLook(p) \/ Firmware!OpenCopy(p) \/ Firmware!WriteHalf(p) \/ Firmware!WriteFails(p)
               \/ Firmware!FetchCheck(p) \/ Firmware!ImportCheck(p) \/ Firmware!AddCheck(p)
               \/ Firmware!SkipPage(p) \/ Firmware!OpenPage(p) \/ Firmware!ClosePage(p) \/ Firmware!PageFails(p)
               \/ Firmware!ImportRejects(p) \/ Firmware!Rename(p) \/ Firmware!OpenMeta(p) \/ Firmware!CloseMeta(p)
               \/ Firmware!MetaFails(p) \/ Firmware!Dies(p)
        PROVE  Firmware!IInv' /\ Firmware!RefusalLeavesNothing
    <2>1. FirmwareStepOf(p)
      BY <1>2, FirmwareFetchLook, FirmwareFetchBin, FirmwareAddLook, FirmwareImportLook, FirmwarePinLook,
         FirmwareOpenCopy, FirmwareWriteHalf, FirmwareWriteFails, FirmwareFetchCheck, FirmwareImportCheck,
         FirmwareAddCheck, FirmwareSkipPage, FirmwareOpenPage, FirmwareClosePage, FirmwarePageFails,
         FirmwareImportRejects, FirmwareRename, FirmwareOpenMeta, FirmwareCloseMeta, FirmwareMetaFails, FirmwareDies
    <2> QED BY <2>1, FirmwareStepped
  <1> QED BY <1>1, <1>2 DEF Firmware!Next

LEMMA FirmwareStutter ==
    ASSUME Firmware!IInv, UNCHANGED Firmware!vars
    PROVE  Firmware!IInv'
  <1>1. /\ Firmware!Types' /\ Firmware!Open' /\ Firmware!Turns' /\ Firmware!OneBinary' /\ Firmware!ListedIsTrue'
    BY DEF Firmware!IInv, Firmware!vars, Firmware!Types, Firmware!Open, Firmware!Turns, Firmware!OneBinary,
           Firmware!ListedIsTrue, Firmware!False, Firmware!OnlyThat, Firmware!Active
  <1>2. ASSUME NEW p \in Firmware!Active', x5'[p].solo
        PROVE  Firmware!Own(x5[p])'
    <2>1. p \in Firmware!Active /\ x5[p].solo
      BY <1>2 DEF Firmware!vars, Firmware!Active
    <2>2. Firmware!Own(x5[p])
      BY <2>1 DEF Firmware!IInv
    <2> QED BY <2>2 DEF Firmware!vars, Firmware!Own, Firmware!Places, Firmware!Binary, Firmware!Metadata,
                        Firmware!AsFound, Firmware!Undoubted
  <1> QED BY <1>1, <1>2 DEF Firmware!IInv

FirmwareInv == part = "firmware" => Firmware!IInv

LEMMA FirmwareHolds == Spec => []FirmwareInv
  <1>1. Init => FirmwareInv
    BY FirmwareInit DEF Init, FirmwareInv
  <1>2. FirmwareInv /\ [Next]_vars => FirmwareInv'
    <2> SUFFICES ASSUME FirmwareInv, [Next]_vars, part' = "firmware"
                 PROVE  Firmware!IInv'
      BY DEF FirmwareInv
    <2>1. part = "firmware" /\ (Firmware!Next \/ UNCHANGED Firmware!vars)
      BY DEF Next, vars, Firmware!vars, FirmwareStep, DiagStep, RingStep, SessionStep, ServerStep, PropertyStep
    <2> QED
      BY <2>1, FirmwareNext, FirmwareStutter DEF FirmwareInv
  <1> QED BY <1>1, <1>2, PTL DEF Spec

\* Whatever fails or dies between two steps, an entry that lists holds the binary its metadata
\* describes, unless one of the named races happened, for any binaries, processes and faults
\* (ingest_bundle, save_meta).
THEOREM ListingsAreTrue == Spec => []ListedIsTrue
  <1>1. FirmwareInv => ListedIsTrue
    BY DEF FirmwareInv, ListedIsTrue, Firmware!IInv
  <1> QED BY <1>1, FirmwareHolds, PTL

\* Fetches of one binary, however often they fail or die, are never refused for what another one
\* left (ingest_bundle).
THEOREM RetriesGoThrough == Spec => []RetryIsNotRefused
  <1>1. FirmwareInv => RetryIsNotRefused
    <2> SUFFICES ASSUME FirmwareInv, part = "firmware", x8 \in Binaries, "overlap" \notin x9
                 PROVE  \A p \in Writers : x5[p].end \notin {"checksum", "content", "incomplete", "lost"}
      BY DEF RetryIsNotRefused, Firmware!RetryIsNotRefused
    <2>1. x8 # Torn
      BY FirmwareContents
    <2> QED BY <2>1 DEF FirmwareInv, Firmware!IInv, Firmware!OneBinary
  <1> QED BY <1>1, FirmwareHolds, PTL

\* A command that works alone and is refused leaves the files as it found them, whatever it had
\* written of them by then (import_archive, ingest_bundle).
THEOREM RefusalsTakeBack == Spec => RefusedLeavesNothing
  <1>1. FirmwareInv /\ [Next]_vars => [part = "firmware" => Firmware!RefusalLeavesNothing]_vars
    <2> SUFFICES ASSUME FirmwareInv, Next, part = "firmware"
                 PROVE  Firmware!RefusalLeavesNothing
      OBVIOUS
    <2>1. Firmware!Next
      BY DEF Next, FirmwareStep, DiagStep, RingStep, SessionStep, ServerStep, PropertyStep
    <2> QED BY <2>1, FirmwareNext DEF FirmwareInv
  <1> QED BY <1>1, FirmwareHolds, PTL DEF Spec, RefusedLeavesNothing

-----------------------------------------------------------------------------
(* The diagnostics files of several processes (Diagnostics).  x1 is life, x2 pid, x3 pc, x4 open,  *)
(* x5 said, x6 inflight, x7 ring, x8 linked, x9 prunes, x10 robbed, x11 report, x13 faulted.       *)

LEMMA DiagFiles ==
    ASSUME NEW p \in Processes, NEW s \in SUBSET Spans, NEW e \in Diag!Exits, NEW b \in BOOLEAN
    PROVE  /\ [owner |-> p, spans |-> s] \in Diag!InFiles /\ [owner |-> p, spans |-> s] # None
           /\ [owner |-> p, exit |-> e, dated |-> b] \in Diag!RingFiles
           /\ [owner |-> p, exit |-> e, dated |-> b] # None
           /\ None \notin Diag!InFiles /\ None \notin Diag!RingFiles
  <1>1. [owner |-> p, spans |-> s] \in Diag!InFiles
    BY DEF Diag!InFiles
  <1>2. [owner |-> p, exit |-> e, dated |-> b] \in Diag!RingFiles
    BY DEF Diag!RingFiles
  <1>3. None \notin Diag!InFiles /\ None \notin Diag!RingFiles
    BY DiagAssumption
  <1> QED BY <1>1, <1>2, <1>3

LEMMA DiagNone == None \notin Diag!InFiles /\ None \notin Diag!RingFiles /\ None \notin Pids
                  /\ Pids \cap Diag!Places = {}
  BY DiagAssumption

\* A report keeps what it has; one whose pid's files and process stay says what they still say.
DiagSame(d) ==
    /\ x6'[d] = x6[d] /\ x7'[d] = x7[d]
    /\ Diag!Holder(d)' = Diag!Holder(d)
ExitsStay == \A q \in Processes : x5[q] # "no" => x5'[q] = x5[q]

LEMMA DiagReportStays ==
    ASSUME Diag!Types, Diag!Reported, x11' = x11, ExitsStay,
           x11.step # "idle" /\ ~x11.moved => DiagSame(x11.pid)
    PROVE  Diag!Reported'
  <1>1. x11.exit # None => x11.exit.owner \in Processes /\ x11.exit \in Diag!RingFiles
    BY DEF Diag!Types, Diag!Reports, Diag!RingFiles
  <1>2. x11.exit # None => x11.exit.exit \in {"no", x5'[x11.exit.owner]}
    BY <1>1 DEF Diag!Reported, ExitsStay
  <1>3. ASSUME x11.step # "idle", ~x11.moved
        PROVE  Diag!Verdict(x11.pid)' = Diag!Verdict(x11.pid)
    BY <1>3 DEF DiagSame, Diag!Verdict, Diag!Alive, Diag!Recycled
  <1> QED BY <1>2, <1>3 DEF Diag!Reported, DiagSame

LEMMA DiagReportMoves ==
    ASSUME Diag!Types, Diag!Reported, NEW d \in Pids, Diag!Moves(d), ExitsStay,
           \A e \in Pids \ {d} : DiagSame(e)
    PROVE  Diag!Reported'
  <1>1. x11.exit # None => x11.exit.owner \in Processes /\ x11.exit \in Diag!RingFiles
    BY DEF Diag!Types, Diag!Reports, Diag!RingFiles
  <1>2. /\ x11'.step = x11.step /\ x11'.pid = x11.pid /\ x11'.spans = x11.spans /\ x11'.exit = x11.exit
        /\ x11'.verdict = x11.verdict /\ x11'.moved = (x11.moved \/ x11.pid = d)
    BY DEF Diag!Moves, Diag!Types, Diag!Reports
  <1>3. x11.exit # None => x11.exit.exit \in {"no", x5'[x11.exit.owner]}
    BY <1>1 DEF Diag!Reported, ExitsStay
  <1>4. ASSUME x11.step # "idle", ~x11'.moved
        PROVE  ~x11.moved /\ DiagSame(x11.pid)
    BY <1>2, <1>4 DEF Diag!Reported
  <1>5. ASSUME x11.step # "idle", ~x11'.moved
        PROVE  Diag!Verdict(x11.pid)' = Diag!Verdict(x11.pid)
    BY <1>2, <1>4, <1>5 DEF DiagSame, Diag!Verdict, Diag!Alive, Diag!Recycled
  <1> QED BY <1>2, <1>3, <1>4, <1>5 DEF Diag!Reported, DiagSame

LEMMA DiagMoved ==
    ASSUME Diag!Types, NEW d, Diag!Moves(d)
    PROVE  x11' \in Diag!Reports
  BY DEF Diag!Types, Diag!Moves, Diag!Reports

\* What the files of a process say of it is what they said where nothing of them moved.
LEMMA DiagToldStays ==
    ASSUME Diag!Told, ~x13, NEW q \in Processes, x2[q] \in Pids,
           x1'[q] = x1[q], x2'[q] = x2[q], x3'[q] = x3[q], x4'[q] = x4[q], x5'[q] = x5[q],
           x6'[x2[q]] = x6[x2[q]], x7'[x2[q]] = x7[x2[q]], x10 \subseteq x10',
           x1[q] = "up" \/ (Diag!Halved(q) => Diag!Halved(q)')
    PROVE  Diag!ToldOf(q)'
  <1>1. Diag!ToldOf(q)
    BY DEF Diag!Told
  <1>2. Diag!Lists(q)' = Diag!Lists(q) /\ Diag!Logs(q)' = Diag!Logs(q)
    BY DEF Diag!Lists, Diag!Logs
  <1> QED BY <1>1, <1>2 DEF Diag!ToldOf

\* An entry leaves the owner and the exit of every ring file.
LEMMA DiagAppends ==
    ASSUME Diag!Types, Diag!Owned, NEW p \in Processes, x1[p] = "up", x2[p] \in Pids,
           x3[p] \notin {"new", "ring", "off"}, Diag!Appends(p)
    PROVE  /\ x7' \in [Pids -> Diag!RingFiles \cup {None}]
           /\ \A d \in Pids \ {x2[p]} : x7'[d] = x7[d]
           /\ \A d \in Pids : /\ x7'[d] = None <=> x7[d] = None
                              /\ x7[d] # None => x7'[d].owner = x7[d].owner /\ x7'[d].exit = x7[d].exit
           /\ x13' = x13 \/ x13'
  <1>1. CASE x7' = x7
    BY <1>1 DEF Diag!Types, Diag!Appends, Diag!Works, Diag!Fails
  <1>2. CASE /\ x8[p] /\ x13' = x13
             /\ x7' = [x7 EXCEPT ![x2[p]] = [owner |-> p, exit |-> x7[x2[p]].exit, dated |-> TRUE]]
    <2>1. x7[x2[p]] # None /\ x7[x2[p]].owner = p /\ x7[x2[p]].exit \in Diag!Exits
      BY <1>2, DiagNone DEF Diag!Types, Diag!Owned, Diag!OwnedBy, Diag!Settled, Diag!RingFiles
    <2>2. PICK f : f = [owner |-> p, exit |-> x7[x2[p]].exit, dated |-> TRUE]
      OBVIOUS
    <2>3. f \in Diag!RingFiles /\ f # None
      BY <2>1, <2>2, DiagFiles
    <2>4. f.owner = p /\ f.exit = x7[x2[p]].exit /\ x7' = [x7 EXCEPT ![x2[p]] = f]
      BY <1>2, <2>2
    <2>5. x7 \in [Pids -> Diag!RingFiles \cup {None}]
      BY DEF Diag!Types
    <2>6. x7' \in [Pids -> Diag!RingFiles \cup {None}]
      BY <2>3, <2>4, <2>5
    <2>7. x7'[x2[p]] = f /\ \A d \in Pids \ {x2[p]} : x7'[d] = x7[d]
      BY <2>4, <2>5
    <2> QED BY <1>2, <2>1, <2>3, <2>4, <2>6, <2>7
  <1> QED BY <1>1, <1>2 DEF Diag!Appends, Diag!Mine, Diag!Works, Diag!Fails

LEMMA DiagNewClears ==
    ASSUME Diag!IInv, NEW p \in Processes, Diag!NewClears(p)
    PROVE  Diag!IInv'
  <1>0. Diag!Types /\ Diag!Courses /\ Diag!Owned /\ Diag!Told /\ Diag!Reported
    BY DEF Diag!IInv
  <1>1. /\ x1' = x1 /\ x2' = x2 /\ x4' = x4 /\ x5' = x5 /\ x7' = x7 /\ x8' = x8 /\ x10' = x10
        /\ x1[p] = "up" /\ x3[p] = "new" /\ x2[p] \in Pids /\ x4[p] = {} /\ x5[p] = "no"
    BY <1>0 DEF Diag!NewClears, Diag!files, Diag!Up, Diag!Courses, Diag!Types, Diag!Exits
  <1>2. ~(x7[x2[p]] # None /\ x7[x2[p]].owner = p)
    BY <1>0, <1>1 DEF Diag!Owned, Diag!OwnedBy
  <1>3. Diag!Types' /\ Diag!Courses'
    <2>1. Diag!Types'
      BY <1>0, DiagMoved DEF Diag!NewClears, Diag!Mine, Diag!Goes, Diag!Types, Diag!Places
    <2>2. Diag!Courses'
      BY <1>0, <1>1, DiagNone DEF Diag!NewClears, Diag!Goes, Diag!Types, Diag!Places, Diag!Courses
    <2> QED BY <2>1, <2>2
  <1>4. Diag!Reported'
    <2>1. Diag!Moves(x2[p]) /\ ExitsStay
      BY <1>1 DEF Diag!NewClears, Diag!Mine, ExitsStay
    <2>2. \A e \in Pids \ {x2[p]} : DiagSame(e)
      BY <1>0, <1>1 DEF Diag!NewClears, Diag!Mine, DiagSame, Diag!Holder, Diag!Types
    <2> QED BY <1>0, <1>1, <2>1, <2>2, DiagReportMoves
  <1>5. CASE x6' = [x6 EXCEPT ![x2[p]] = None] /\ x3' = [x3 EXCEPT ![p] = "ring"] /\ x13' = x13
    <2>1. \A q \in Processes \ {p} : x3'[q] = x3[q] /\ (x1[q] = "up" => x2[q] # x2[p])
      BY <1>0, <1>1, <1>5 DEF Diag!Courses, Diag!Types
    <2>2. x3'[p] = "ring" /\ x6'[x2[p]] = None /\ \A d \in Pids \ {x2[p]} : x6'[d] = x6[d]
      BY <1>0, <1>1, <1>5 DEF Diag!Types
    <2>3. ASSUME NEW d \in Pids, NEW q \in Processes
          PROVE  Diag!OwnedBy(d, q)'
      BY <1>0, <1>1, <1>2, <2>1, <2>2 DEF Diag!Owned, Diag!OwnedBy, Diag!Settled
    <2>4. ASSUME ~x13', NEW q \in Processes, x2'[q] \in Pids
          PROVE  Diag!ToldOf(q)'
      <3>0. ~x13 /\ x2[q] \in Pids /\ Diag!ToldOf(q)
        BY <1>0, <1>1, <1>5, <2>4 DEF Diag!Told
      <3>1. CASE q = p
        BY <1>1, <1>2, <2>2, <3>1 DEF Diag!ToldOf, Diag!Lists, Diag!Logs
      <3>2. CASE q # p /\ x2[q] = x2[p]
        <4>1. Diag!Halved(q)' /\ x1[q] # "up" /\ ~Diag!Lists(q)' /\ Diag!Logs(q)' = Diag!Logs(q)
          BY <1>1, <2>1, <2>2, <3>2 DEF Diag!Halved, Diag!Lists, Diag!Logs
        <4> QED BY <1>1, <2>1, <3>0, <3>2, <4>1 DEF Diag!ToldOf
      <3>3. CASE x2[q] # x2[p]
        <4>0. q # p /\ x3'[q] = x3[q] /\ x6'[x2[q]] = x6[x2[q]]
          BY <2>1, <2>2, <3>0, <3>3
        <4>1. Diag!Halved(q) => Diag!Halved(q)'
          BY <1>1, <2>1, <3>0, <3>3, DiagNone DEF Diag!Halved, Diag!Places
        <4> QED BY <1>0, <1>1, <3>0, <4>0, <4>1, DiagToldStays
      <3> QED BY <3>1, <3>2, <3>3
    <2> QED BY <1>3, <1>4, <2>3, <2>4 DEF Diag!IInv, Diag!Owned, Diag!Told
  <1>6. CASE x6' = x6 /\ x3' = [x3 EXCEPT ![p] = "off"] /\ x13'
    <2>1. x3'[p] = "off" /\ \A q \in Processes \ {p} : x3'[q] = x3[q]
      BY <1>0, <1>6 DEF Diag!Types
    <2>2. Diag!Owned'
      BY <1>0, <1>1, <1>6, <2>1 DEF Diag!Owned, Diag!OwnedBy, Diag!Settled
    <2> QED BY <1>3, <1>4, <1>6, <2>2 DEF Diag!Told, Diag!IInv
  <1> QED BY <1>5, <1>6 DEF Diag!NewClears, Diag!Mine, Diag!Goes, Diag!Works, Diag!Fails

LEMMA DiagPruneInflightTold ==
    ASSUME Diag!IInv, NEW p \in Processes, NEW d \in Pids, Diag!PruneInflight(p, d)
    PROVE  Diag!Told'
  <1>0. Diag!Types /\ Diag!Courses /\ Diag!Owned /\ Diag!Told
    BY DEF Diag!IInv
  <1>1. /\ x1' = x1 /\ x2' = x2 /\ x4' = x4 /\ x5' = x5 /\ x7' = x7 /\ x13' = x13
        /\ x3[p] = "remove" /\ x2[p] # d
        /\ x3'[p] = d /\ (\A q \in Processes \ {p} : x3'[q] = x3[q])
        /\ x6'[d] = None /\ (\A e \in Pids \ {d} : x6'[e] = x6[e])
        /\ x10' = x10 \cup (Diag!Owners(d) \cap Diag!Holder(d))
    BY <1>0 DEF Diag!PruneInflight, Diag!Up, Diag!Goes, Diag!Works, Diag!Loses, Diag!Types, Diag!Courses
  <1>2. ASSUME ~x13', NEW q \in Processes, x2'[q] \in Pids
        PROVE  Diag!ToldOf(q)'
    <2>0. ~x13 /\ x2[q] \in Pids /\ Diag!ToldOf(q)
      BY <1>0, <1>1, <1>2 DEF Diag!Told
    <2>1. CASE x2[q] = d
      <3>1. q # p /\ Diag!Halved(q)' /\ ~Diag!Lists(q)' /\ Diag!Logs(q)' = Diag!Logs(q)
        BY <1>1, <2>1 DEF Diag!Halved, Diag!Lists, Diag!Logs
      <3>2. Diag!Logs(q) /\ x1[q] = "up" => q \in x10'
        BY <1>1, <2>1 DEF Diag!Logs, Diag!Owners, Diag!Holder
      <3> QED BY <1>1, <2>0, <3>1, <3>2 DEF Diag!ToldOf
    <2>2. CASE q = p
      <3>1. x4[p] = {}
        BY <1>0, <1>1 DEF Diag!Courses
      <3>2. x5[p] = "no" /\ ~Diag!Lists(p)
        BY <1>0, <1>1, <2>0, <2>2, <3>1 DEF Diag!Courses, Diag!ToldOf
      <3> QED BY <1>1, <2>0, <2>2, <3>1, <3>2 DEF Diag!ToldOf, Diag!Lists
    <2>3. CASE x2[q] # d /\ q # p
      <3>1. Diag!Halved(q) => Diag!Halved(q)'
        BY <1>1, <2>0, <2>3, DiagNone DEF Diag!Halved, Diag!Places
      <3> QED BY <1>0, <1>1, <2>0, <2>3, <3>1, DiagToldStays
    <2> QED BY <2>1, <2>2, <2>3
  <1> QED BY <1>2 DEF Diag!Told

LEMMA DiagPruneRingKeeps ==
    ASSUME Diag!IInv, NEW p \in Processes, NEW d \in Pids, Diag!PruneRing(p, d)
    PROVE  Diag!Owned' /\ Diag!Told'
  <1>0. Diag!Types /\ Diag!Courses /\ Diag!Owned /\ Diag!Told
    BY DEF Diag!IInv
  <1>1. /\ x1' = x1 /\ x2' = x2 /\ x4' = x4 /\ x5' = x5 /\ x6' = x6 /\ x13' = x13 /\ x1[p] = "up" /\ x3[p] = d
        /\ x3'[p] = "remove" /\ (\A q \in Processes \ {p} : x3'[q] = x3[q])
        /\ x7'[d] = None /\ (\A e \in Pids \ {d} : x7'[e] = x7[e])
        /\ (\A q \in Processes : x8'[q] = (x8[q] /\ x2[q] # d))
        /\ x10 \subseteq x10'
    BY <1>0 DEF Diag!PruneRing, Diag!Up, Diag!Goes, Diag!Works, Diag!Loses, Diag!Types
  <1>2. d \notin Diag!Places
    BY DiagNone
  <1>3. ASSUME NEW e \in Pids, NEW q \in Processes
        PROVE  Diag!OwnedBy(e, q)'
    <2>1. Diag!OwnedBy(e, q)
      BY <1>0 DEF Diag!Owned
    <2>2. CASE q = p
      <3>1. ~(x6[e] # None /\ x6[e].owner = p)
        BY <1>1, <1>2, <2>1, <2>2 DEF Diag!OwnedBy, Diag!Places
      <3> QED BY <1>1, <1>2, <2>1, <2>2, <3>1 DEF Diag!OwnedBy, Diag!Settled, Diag!Places
    <2>3. CASE q # p
      BY <1>1, <2>1, <2>3 DEF Diag!OwnedBy, Diag!Settled
    <2> QED BY <2>2, <2>3
  <1>4. ASSUME ~x13', NEW q \in Processes, x2'[q] \in Pids
        PROVE  Diag!ToldOf(q)'
    <2>0. ~x13 /\ x2[q] \in Pids /\ Diag!ToldOf(q)
      BY <1>0, <1>1, <1>4 DEF Diag!Told
    <2>1. CASE q = p
      <3>1. x4[p] = {} /\ x5[p] = "no" /\ ~Diag!Lists(p)
        BY <1>0, <1>1, <1>2, <2>0, <2>1 DEF Diag!Courses, Diag!ToldOf, Diag!Places
      <3> QED BY <1>1, <2>0, <2>1, <3>1 DEF Diag!ToldOf, Diag!Lists, Diag!Logs
    <2>2. CASE q # p /\ x2[q] = d
      <3>1. Diag!Lists(q)' = Diag!Lists(q) /\ ~Diag!Logs(q)'
        BY <1>1, <2>2 DEF Diag!Lists, Diag!Logs
      <3> QED BY <1>1, <2>0, <2>2, <3>1 DEF Diag!ToldOf
    <2>3. CASE q # p /\ x2[q] # d
      <3>1. Diag!Halved(q) => Diag!Halved(q)'
        BY <1>1, <1>2, <2>0, <2>3 DEF Diag!Halved, Diag!Places
      <3> QED BY <1>0, <1>1, <2>0, <2>3, <3>1, DiagToldStays
    <2> QED BY <2>1, <2>2, <2>3
  <1> QED BY <1>3, <1>4 DEF Diag!Owned, Diag!Told

LEMMA DiagShutsRingKeeps ==
    ASSUME Diag!IInv, NEW p \in Processes, Diag!ShutsRing(p)
    PROVE  Diag!Types' /\ Diag!Told'
  <1>0. Diag!Types /\ Diag!Courses /\ Diag!Owned /\ Diag!Told
    BY DEF Diag!IInv
  <1>1. /\ x1' = x1 /\ x2' = x2 /\ x4' = x4 /\ x5' = x5 /\ x6' = x6 /\ x8' = x8 /\ x9' = x9 /\ x10' = x10
        /\ x1[p] = "up" /\ x3[p] = "exit" /\ x2[p] \in Pids /\ x4[p] = {} /\ x5[p] # "no"
        /\ x3' = [x3 EXCEPT ![p] = "free"] /\ Diag!Moves(x2[p]) /\ (x13' = x13 \/ x13')
    BY <1>0 DEF Diag!ShutsRing, Diag!Mine, Diag!Up, Diag!Goes, Diag!Works, Diag!Fails, Diag!Courses
  <1>2. x8[p] => x7[x2[p]] \in Diag!RingFiles /\ x7[x2[p]].owner = p
    BY <1>0, <1>1 DEF Diag!Types, Diag!Owned, Diag!OwnedBy, Diag!Settled
  <1>3. (x7' = x7 /\ (x8[p] => x13')) \/ (x8[p] /\ x7' = [x7 EXCEPT ![x2[p]] = Diag!Left(p)])
    <2>1. \/ x7' = (IF x8[p] THEN [x7 EXCEPT ![x2[p]] = Diag!Left(p)] ELSE x7)
          \/ x13' /\ x7' = x7
      BY DEF Diag!ShutsRing, Diag!Mine, Diag!Fails
    <2> QED BY <2>1
  <1>4. Diag!Left(p) \in Diag!RingFiles /\ Diag!Left(p).owner = p /\ Diag!Left(p).exit = x5[p]
    BY <1>0, DiagFiles DEF Diag!Types, Diag!Left
  <1>5. /\ \A e \in Pids \ {x2[p]} : x7'[e] = x7[e]
        /\ x8[p] => x7'[x2[p]] # None /\ x7'[x2[p]].owner = p
        /\ x8[p] /\ ~x13' => x7'[x2[p]] # None /\ x7'[x2[p]].exit = x5[p]
        /\ x7' \in [Pids -> Diag!RingFiles \cup {None}]
    <2>1. CASE x7' = x7 /\ (x8[p] => x13')
      BY <1>0, <1>2, <2>1, DiagNone DEF Diag!Types
    <2>2. CASE x8[p] /\ x7' = [x7 EXCEPT ![x2[p]] = Diag!Left(p)]
      <3>1. x7'[x2[p]] = Diag!Left(p)
        BY <1>0, <1>1, <2>2 DEF Diag!Types
      <3> QED BY <1>0, <1>1, <1>4, <2>2, <3>1, DiagNone DEF Diag!Types
    <2> QED BY <1>3, <2>1, <2>2
  <1>6. Diag!Types'
    BY <1>0, <1>1, <1>5, DiagMoved DEF Diag!Types, Diag!Places
  <1>7. ASSUME ~x13', NEW q \in Processes, x2'[q] \in Pids
        PROVE  Diag!ToldOf(q)'
    <2>0. ~x13 /\ x2[q] \in Pids /\ Diag!ToldOf(q)
      BY <1>0, <1>1, <1>7 DEF Diag!Told
    <2>1. x3'[p] = "free" /\ \A r \in Processes \ {p} : x3'[r] = x3[r]
      BY <1>0, <1>1 DEF Diag!Types
    <2>2. Diag!Logs(p) => x8[p]
      BY <1>0, <1>1 DEF Diag!Logs, Diag!Owned, Diag!OwnedBy
    <2>3. CASE q = p
      <3>1. ~Diag!Lists(p)
        BY <1>1, <2>0, <2>3 DEF Diag!ToldOf
      <3> QED BY <1>1, <1>3, <1>5, <1>7, <2>0, <2>1, <2>2, <2>3, <3>1 DEF Diag!ToldOf, Diag!Lists, Diag!Logs
    <2>4. CASE q # p /\ x2[q] = x2[p] /\ x8[p]
      <3>1. ~Diag!Logs(q)' /\ Diag!Lists(q)' = Diag!Lists(q)
        BY <1>1, <1>5, <2>4 DEF Diag!Lists, Diag!Logs
      <3> QED BY <1>1, <2>0, <2>1, <2>4, <3>1 DEF Diag!ToldOf
    <2>5. CASE q # p /\ (x2[q] # x2[p] \/ ~x8[p])
      <3>1. x7'[x2[q]] = x7[x2[q]]
        BY <1>3, <1>5, <2>0, <2>5
      <3>2. Diag!Halved(q) => Diag!Halved(q)'
        BY <1>1, <2>0, <2>1, DiagNone DEF Diag!Halved, Diag!Places
      <3> QED BY <1>0, <1>1, <2>0, <2>1, <2>5, <3>1, <3>2, DiagToldStays
    <2> QED BY <2>3, <2>4, <2>5
  <1> QED BY <1>6, <1>7 DEF Diag!Told

LEMMA DiagStarts ==
    ASSUME Diag!IInv, NEW p \in Processes, NEW d \in Pids, Diag!Starts(p, d)
    PROVE  Diag!IInv'
  <1>0. Diag!Types /\ Diag!Courses /\ Diag!Owned /\ Diag!Told /\ Diag!Reported
    BY DEF Diag!IInv
  <1>1. Diag!Types'
    BY <1>0, DiagMoved DEF Diag!Starts, Diag!files, Diag!Types
  <1>2. Diag!Courses'
    BY <1>0 DEF Diag!Starts, Diag!Types, Diag!Courses, Diag!Holder
  <1>3. Diag!Owned'
    BY <1>0 DEF Diag!Starts, Diag!files, Diag!Courses, Diag!Owned, Diag!OwnedBy, Diag!Settled
  <1>4. Diag!Told'
    BY <1>0 DEF Diag!Starts, Diag!files, Diag!Courses, Diag!Owned, Diag!OwnedBy, Diag!Told, Diag!ToldOf,
       Diag!Lists, Diag!Logs, Diag!Halved
  <1>5. Diag!Reported'
    <2>1. d \in Pids /\ Diag!Moves(d)
      BY DEF Diag!Starts
    <2>2. ExitsStay
      BY DEF Diag!Starts, ExitsStay
    <2>3. \A e \in Pids \ {d} : DiagSame(e)
      BY <1>0 DEF Diag!Starts, Diag!files, DiagSame, Diag!Holder, Diag!Types
    <2> QED BY <1>0, <2>1, <2>2, <2>3, DiagReportMoves
  <1> QED BY <1>1, <1>2, <1>3, <1>4, <1>5 DEF Diag!IInv

LEMMA DiagNewOpensRing ==
    ASSUME Diag!IInv, NEW p \in Processes, Diag!NewOpensRing(p)
    PROVE  Diag!IInv'
  <1>0. Diag!Types /\ Diag!Courses /\ Diag!Owned /\ Diag!Told /\ Diag!Reported
    BY DEF Diag!IInv
  <1>1. /\ x1' = x1 /\ x2' = x2 /\ x4' = x4 /\ x5' = x5 /\ x6' = x6 /\ x9' = x9 /\ x10' = x10
        /\ x1[p] = "up" /\ x3[p] = "ring" /\ x2[p] \in Pids /\ x4[p] = {} /\ x5[p] = "no" /\ Diag!Moves(x2[p])
    BY <1>0 DEF Diag!NewOpensRing, Diag!Mine, Diag!Up, Diag!Courses
  <1>2. /\ Diag!Emptied(p) \in Diag!RingFiles /\ Diag!Emptied(p) # None
        /\ Diag!Emptied(p).owner = p /\ Diag!Emptied(p).exit = "no"
    <2>1. "no" \in Diag!Exits
      BY DEF Diag!Exits
    <2> QED BY <2>1, DiagFiles DEF Diag!Emptied
  <1>3. \/ /\ x7' = [x7 EXCEPT ![x2[p]] = Diag!Emptied(p)] /\ x8' = [x8 EXCEPT ![p] = TRUE]
           /\ x3' = [x3 EXCEPT ![p] = "prune"] /\ x13' = x13
        \/ /\ x7' = x7 \/ x7' = [x7 EXCEPT ![x2[p]] = Diag!Emptied(p)]
           /\ x8' = x8 /\ x3' = [x3 EXCEPT ![p] = "off"] /\ x13'
    BY DEF Diag!NewOpensRing, Diag!Mine, Diag!Goes, Diag!Works, Diag!Fails
  <1>4. Diag!Types'
    <2>1. x7' \in [Pids -> Diag!RingFiles \cup {None}]
      BY <1>0, <1>1, <1>2, <1>3 DEF Diag!Types
    <2>2. x8' \in [Processes -> BOOLEAN] /\ x3' \in [Processes -> Diag!Places \cup Pids]
      BY <1>0, <1>3 DEF Diag!Types, Diag!Places
    <2>3. x11' \in Diag!Reports
      BY <1>0, <1>1, DiagMoved
    <2> QED BY <1>0, <1>1, <2>1, <2>2, <2>3 DEF Diag!Types
  <1>5. Diag!Courses'
    BY <1>0, <1>1, <1>3 DEF Diag!Types, Diag!Courses
  <1>6. Diag!Owned'
    BY <1>0, <1>1, <1>2, <1>3, DiagNone DEF Diag!Types, Diag!Courses, Diag!Owned, Diag!OwnedBy, Diag!Settled
  <1>7. Diag!Told'
    <2> SUFFICES ASSUME ~x13', NEW q \in Processes, x2[q] \in Pids
                 PROVE  Diag!ToldOf(q)'
      BY <1>1 DEF Diag!Told
    <2>1. x7' = [x7 EXCEPT ![x2[p]] = Diag!Emptied(p)] /\ x3' = [x3 EXCEPT ![p] = "prune"] /\ ~x13
      BY <1>3
    <2> QED BY <1>0, <1>1, <1>2, <2>1, DiagNone DEF Diag!Types, Diag!Courses, Diag!Told, Diag!ToldOf,
         Diag!Lists, Diag!Logs, Diag!Halved, Diag!Places
  <1>8. Diag!Reported'
    <2>1. ExitsStay
      BY <1>1 DEF ExitsStay
    <2>2. \A e \in Pids \ {x2[p]} : DiagSame(e)
      BY <1>0, <1>1, <1>3 DEF DiagSame, Diag!Holder, Diag!Types
    <2> QED BY <1>0, <1>1, <2>1, <2>2, DiagReportMoves
  <1> QED BY <1>4, <1>5, <1>6, <1>7, <1>8 DEF Diag!IInv

LEMMA DiagBegins ==
    ASSUME Diag!IInv, NEW p \in Processes, NEW s \in Spans, Diag!Begins(p, s)
    PROVE  Diag!IInv'
  <1>0. Diag!Types /\ Diag!Courses /\ Diag!Owned /\ Diag!Told /\ Diag!Reported
    BY DEF Diag!IInv
  <1>1. Diag!Types'
    BY <1>0, DiagMoved DEF Diag!Begins, Diag!Goes, Diag!files, Diag!Types, Diag!Places
  <1>2. Diag!Courses'
    BY <1>0 DEF Diag!Begins, Diag!Up, Diag!Goes, Diag!Courses
  <1>3. Diag!Owned'
    BY <1>0 DEF Diag!Begins, Diag!Up, Diag!Goes, Diag!files, Diag!Owned, Diag!OwnedBy, Diag!Settled
  <1>4. Diag!Told'
    BY <1>0, DiagNone DEF Diag!Begins, Diag!Up, Diag!Goes, Diag!files, Diag!Types, Diag!Told,
       Diag!ToldOf, Diag!Lists, Diag!Logs, Diag!Halved, Diag!Places
  <1>5. Diag!Reported'
    <2>1. x2[p] \in Pids /\ Diag!Moves(x2[p])
      BY <1>0 DEF Diag!Begins, Diag!Mine, Diag!Up, Diag!Courses
    <2>2. ExitsStay
      BY DEF Diag!Begins, ExitsStay
    <2>3. \A e \in Pids \ {x2[p]} : DiagSame(e)
      BY DEF Diag!Begins, Diag!files, DiagSame, Diag!Holder
    <2> QED BY <1>0, <2>1, <2>2, <2>3, DiagReportMoves
  <1> QED BY <1>1, <1>2, <1>3, <1>4, <1>5 DEF Diag!IInv

LEMMA DiagEndsSpan ==
    ASSUME Diag!IInv, NEW p \in Processes, NEW s \in Spans, Diag!EndsSpan(p, s)
    PROVE  Diag!IInv'
  <1>0. Diag!Types /\ Diag!Courses /\ Diag!Owned /\ Diag!Told /\ Diag!Reported
    BY DEF Diag!IInv
  <1>1. /\ UNCHANGED <<x1, x2, x5, x6, x8, x9, x10>> /\ x4' = [x4 EXCEPT ![p] = @ \ {s}]
        /\ x1[p] = "up" /\ x2[p] \in Pids /\ x3[p] = "free" /\ x3' = [x3 EXCEPT ![p] = "ended"]
        /\ s \in x4[p] /\ Diag!Moves(x2[p]) /\ Diag!Appends(p)
    BY <1>0 DEF Diag!EndsSpan, Diag!Mine, Diag!Up, Diag!Goes, Diag!Courses
  <1>2. /\ x7' \in [Pids -> Diag!RingFiles \cup {None}]
        /\ \A d \in Pids \ {x2[p]} : x7'[d] = x7[d]
        /\ \A d \in Pids : /\ x7'[d] = None <=> x7[d] = None
                           /\ x7[d] # None => x7'[d].owner = x7[d].owner /\ x7'[d].exit = x7[d].exit
        /\ x13' = x13 \/ x13'
    BY <1>0, <1>1, DiagAppends
  <1>3. Diag!Types'
    BY <1>0, <1>1, <1>2, DiagMoved DEF Diag!Types, Diag!Places
  <1>4. Diag!Courses'
    BY <1>0, <1>1 DEF Diag!Types, Diag!Courses
  <1>5. Diag!Owned'
    <2> SUFFICES ASSUME NEW d \in Pids, NEW q \in Processes
                 PROVE  Diag!OwnedBy(d, q)'
      BY DEF Diag!Owned
    <2>1. Diag!OwnedBy(d, q) /\ (x7'[d] = None <=> x7[d] = None)
          /\ (x7[d] # None => x7'[d].owner = x7[d].owner /\ x7'[d].exit = x7[d].exit)
      BY <1>0, <1>2 DEF Diag!Owned
    <2>2. q # p => x3'[q] = x3[q] /\ x5'[q] = x5[q]
      BY <1>0, <1>1 DEF Diag!Types
    <2>3. q = p => x3[q] \in {"remove", "free"} /\ x3'[q] \in {"free", "ended", "leaving"}
                  /\ (x5'[q] = x5[q] \/ x5[q] = "no")
      BY <1>0, <1>1 DEF Diag!Types
    <2> QED BY <1>1, <2>1, <2>2, <2>3 DEF Diag!OwnedBy, Diag!Settled
  <1>6. Diag!Told'
    <2> SUFFICES ASSUME ~x13', NEW q \in Processes, x2[q] \in Pids
                 PROVE  Diag!ToldOf(q)'
      BY <1>1 DEF Diag!Told
    <2>0. Diag!ToldOf(q) /\ (x7'[x2[q]] = None <=> x7[x2[q]] = None)
          /\ (x7[x2[q]] # None => x7'[x2[q]].owner = x7[x2[q]].owner)
      BY <1>0, <1>2 DEF Diag!Told
    <2>1. Diag!ToldOf(q) /\ (Diag!Lists(q)' <=> Diag!Lists(q)) /\ (Diag!Logs(q)' <=> Diag!Logs(q))
      BY <1>1, <2>0 DEF Diag!Lists, Diag!Logs
    <2>2. Diag!Halved(q) => Diag!Halved(q)'
      BY <1>0, <1>1, DiagNone DEF Diag!Types, Diag!Halved, Diag!Places
    <2> QED BY <1>0, <1>1, <1>2, <2>1, <2>2 DEF Diag!ToldOf, Diag!Types, Diag!Logs
  <1>7. Diag!Reported'
    <2>1. ExitsStay
      BY <1>1 DEF ExitsStay
    <2>2. \A e \in Pids \ {x2[p]} : DiagSame(e)
      BY <1>1, <1>2 DEF DiagSame, Diag!Holder
    <2> QED BY <1>0, <1>1, <2>1, <2>2, DiagReportMoves
  <1> QED BY <1>3, <1>4, <1>5, <1>6, <1>7 DEF Diag!IInv

LEMMA DiagWritesInflight ==
    ASSUME Diag!IInv, NEW p \in Processes, Diag!WritesInflight(p)
    PROVE  Diag!IInv'
  <1>0. Diag!Types /\ Diag!Courses /\ Diag!Owned /\ Diag!Told /\ Diag!Reported
    BY DEF Diag!IInv
  <1>1. Diag!Types'
    BY <1>0, DiagMoved DEF Diag!WritesInflight, Diag!Goes, Diag!Noted, Diag!Types, Diag!Places,
       Diag!InFiles, Diag!Exits
  <1>2. Diag!Courses'
    BY <1>0 DEF Diag!WritesInflight, Diag!Goes, Diag!Courses
  <1>3. Diag!Owned'
    BY <1>0 DEF Diag!WritesInflight, Diag!Mine, Diag!Goes, Diag!Noted, Diag!Types, Diag!Courses,
       Diag!Owned, Diag!OwnedBy, Diag!Settled
  <1>4. Diag!Told'
    BY <1>0, DiagNone DEF Diag!WritesInflight, Diag!Mine, Diag!Works, Diag!Fails, Diag!Goes, Diag!Noted,
       Diag!Types, Diag!Owned, Diag!OwnedBy, Diag!Settled, Diag!Told, Diag!ToldOf, Diag!Lists, Diag!Logs,
       Diag!Halved, Diag!InFiles, Diag!Places
  <1>5. Diag!Reported'
    <2>1. x2[p] \in Pids /\ Diag!Moves(x2[p])
      BY <1>0 DEF Diag!WritesInflight, Diag!Mine, Diag!Courses
    <2>2. ExitsStay
      BY DEF Diag!WritesInflight, ExitsStay
    <2>3. \A e \in Pids \ {x2[p]} : DiagSame(e)
      BY <1>0 DEF Diag!WritesInflight, Diag!Mine, Diag!Noted, DiagSame, Diag!Holder, Diag!Types
    <2> QED BY <1>0, <2>1, <2>2, <2>3, DiagReportMoves
  <1> QED BY <1>1, <1>2, <1>3, <1>4, <1>5 DEF Diag!IInv

LEMMA DiagShutsDown ==
    ASSUME Diag!IInv, NEW p \in Processes, Diag!ShutsDown(p)
    PROVE  Diag!IInv'
  <1>0. Diag!Types /\ Diag!Courses /\ Diag!Owned /\ Diag!Told /\ Diag!Reported
    BY DEF Diag!IInv
  <1>1. /\ UNCHANGED <<x1, x2, x6, x8, x9, x10>> /\ x4' = [x4 EXCEPT ![p] = {}]
        /\ x1[p] = "up" /\ x2[p] \in Pids /\ x3[p] = "free" /\ x3' = [x3 EXCEPT ![p] = "leaving"]
        /\ x5[p] = "no" /\ Diag!Moves(x2[p])
        /\ \E e \in {"clean", "cut"} : x5' = [x5 EXCEPT ![p] = e]
    BY <1>0 DEF Diag!ShutsDown, Diag!Mine, Diag!Up, Diag!Goes, Diag!Courses
  <1>2. /\ x7' \in [Pids -> Diag!RingFiles \cup {None}]
        /\ \A d \in Pids \ {x2[p]} : x7'[d] = x7[d]
        /\ \A d \in Pids : /\ x7'[d] = None <=> x7[d] = None
                           /\ x7[d] # None => x7'[d].owner = x7[d].owner /\ x7'[d].exit = x7[d].exit
        /\ x13' = x13 \/ x13'
    <2>1. (x7' = x7 /\ x13' = x13) \/ Diag!Appends(p)
      BY DEF Diag!ShutsDown, Diag!Works
    <2> QED BY <1>0, <1>1, <2>1, DiagAppends DEF Diag!Types
  <1>3. Diag!Types'
    BY <1>0, <1>1, <1>2, DiagMoved DEF Diag!Types, Diag!Places, Diag!Exits
  <1>4. Diag!Courses'
    BY <1>0, <1>1 DEF Diag!Types, Diag!Courses
  <1>5. Diag!Owned'
    <2> SUFFICES ASSUME NEW d \in Pids, NEW q \in Processes
                 PROVE  Diag!OwnedBy(d, q)'
      BY DEF Diag!Owned
    <2>1. Diag!OwnedBy(d, q) /\ (x7'[d] = None <=> x7[d] = None)
          /\ (x7[d] # None => x7'[d].owner = x7[d].owner /\ x7'[d].exit = x7[d].exit)
      BY <1>0, <1>2 DEF Diag!Owned
    <2>2. q # p => x3'[q] = x3[q] /\ x5'[q] = x5[q]
      BY <1>0, <1>1 DEF Diag!Types
    <2>3. q = p => x3[q] \in {"remove", "free"} /\ x3'[q] \in {"free", "ended", "leaving"}
                  /\ (x5'[q] = x5[q] \/ x5[q] = "no")
      BY <1>0, <1>1 DEF Diag!Types
    <2> QED BY <1>1, <2>1, <2>2, <2>3 DEF Diag!OwnedBy, Diag!Settled
  <1>6. Diag!Told'
    <2> SUFFICES ASSUME ~x13', NEW q \in Processes, x2[q] \in Pids
                 PROVE  Diag!ToldOf(q)'
      BY <1>1 DEF Diag!Told
    <2>0. Diag!ToldOf(q) /\ (x7'[x2[q]] = None <=> x7[x2[q]] = None)
          /\ (x7[x2[q]] # None => x7'[x2[q]].owner = x7[x2[q]].owner)
      BY <1>0, <1>2 DEF Diag!Told
    <2>1. Diag!ToldOf(q) /\ (Diag!Lists(q)' <=> Diag!Lists(q)) /\ (Diag!Logs(q)' <=> Diag!Logs(q))
      BY <1>1, <2>0 DEF Diag!Lists, Diag!Logs
    <2>2. Diag!Halved(q) => Diag!Halved(q)'
      BY <1>0, <1>1, DiagNone DEF Diag!Types, Diag!Halved, Diag!Places
    <2>3. Diag!Types /\ x3'[p] = "leaving" /\ x4'[p] = {}
          /\ \A t \in Processes \ {p} : x3'[t] = x3[t] /\ x4'[t] = x4[t] /\ x5'[t] = x5[t]
      BY <1>0, <1>1 DEF Diag!Types
    <2>4. CASE q = p
      BY <1>1, <1>2, <2>1, <2>3, <2>4 DEF Diag!ToldOf
    <2>5. CASE q # p
      BY <1>1, <1>2, <2>1, <2>2, <2>3, <2>5 DEF Diag!ToldOf, Diag!Logs
    <2> QED BY <2>4, <2>5
  <1>7. Diag!Reported'
    <2>1. ExitsStay
      BY <1>0, <1>1 DEF ExitsStay, Diag!Types
    <2>2. \A e \in Pids \ {x2[p]} : DiagSame(e)
      BY <1>1, <1>2 DEF DiagSame, Diag!Holder
    <2> QED BY <1>0, <1>1, <2>1, <2>2, DiagReportMoves
  <1> QED BY <1>3, <1>4, <1>5, <1>6, <1>7 DEF Diag!IInv

LEMMA DiagShutsInflight ==
    ASSUME Diag!IInv, NEW p \in Processes, Diag!ShutsInflight(p)
    PROVE  Diag!IInv'
  <1>0. Diag!Types /\ Diag!Courses /\ Diag!Owned /\ Diag!Told /\ Diag!Reported
    BY DEF Diag!IInv
  <1>1. Diag!Types'
    BY <1>0, DiagMoved DEF Diag!ShutsInflight, Diag!Goes, Diag!Noted, Diag!Types, Diag!Places
  <1>2. Diag!Courses'
    BY <1>0 DEF Diag!ShutsInflight, Diag!Up, Diag!Goes, Diag!Courses
  <1>3. Diag!Owned'
    BY <1>0, DiagNone DEF Diag!ShutsInflight, Diag!Up, Diag!Goes, Diag!Noted, Diag!Types, Diag!Owned,
       Diag!OwnedBy, Diag!Settled, Diag!RingFiles, Diag!Places, Diag!Exits
  <1>4. Diag!Told'
    <2> SUFFICES ASSUME ~x13', NEW q \in Processes, x2[q] \in Pids
                 PROVE  Diag!ToldOf(q)'
      BY DEF Diag!Told, Diag!ShutsInflight
    <2>1. UNCHANGED <<x1, x2, x4, x5, x7, x10>> /\ x1[p] = "up" /\ x3[p] = "leaving"
          /\ x3' = [x3 EXCEPT ![p] = "exit"]
      BY DEF Diag!ShutsInflight, Diag!Up, Diag!Goes
    <2>2. ~x13 /\ x4[p] = {} /\ x6' = [x6 EXCEPT ![x2[p]] = None]
      BY <1>0, <2>1 DEF Diag!Courses, Diag!ShutsInflight, Diag!Noted, Diag!Works, Diag!Fails, Diag!Mine
    <2>3. Diag!ToldOf(q)
      BY <1>0, <2>2 DEF Diag!Told
    <2>4. q # p => x2[q] # x2[p] \/ ~Diag!Logs(q)
      BY <1>0, <2>1 DEF Diag!Owned, Diag!OwnedBy, Diag!Settled, Diag!Logs
    <2> QED
      BY <1>0, <2>1, <2>2, <2>3, <2>4, DiagNone DEF Diag!Types, Diag!ToldOf, Diag!Lists, Diag!Logs,
         Diag!Halved, Diag!Places
  <1>5. Diag!Reported'
    <2>1. x2[p] \in Pids /\ Diag!Moves(x2[p])
      BY <1>0 DEF Diag!ShutsInflight, Diag!Mine, Diag!Up, Diag!Courses
    <2>2. ExitsStay
      BY DEF Diag!ShutsInflight, ExitsStay
    <2>3. \A e \in Pids \ {x2[p]} : DiagSame(e)
      BY <1>0 DEF Diag!ShutsInflight, Diag!Mine, Diag!Noted, DiagSame, Diag!Holder, Diag!Types
    <2> QED BY <1>0, <2>1, <2>2, <2>3, DiagReportMoves
  <1> QED BY <1>1, <1>2, <1>3, <1>4, <1>5 DEF Diag!IInv

LEMMA DiagShutsRing ==
    ASSUME Diag!IInv, NEW p \in Processes, Diag!ShutsRing(p)
    PROVE  Diag!IInv'
  <1>0. Diag!Types /\ Diag!Courses /\ Diag!Owned /\ Diag!Told /\ Diag!Reported
    BY DEF Diag!IInv
  <1>1. Diag!Types'
    BY DiagShutsRingKeeps
  <1>2. Diag!Courses'
    BY <1>0 DEF Diag!ShutsRing, Diag!Up, Diag!Goes, Diag!Courses
  <1>3. Diag!Owned'
    <2>1. UNCHANGED <<x1, x2, x5, x6, x8>> /\ x1[p] = "up" /\ x3[p] = "exit" /\ x3' = [x3 EXCEPT ![p] = "free"]
      BY DEF Diag!ShutsRing, Diag!Up, Diag!Goes
    <2>2. x7' = x7 \/ (x8[p] /\ x7' = [x7 EXCEPT ![x2[p]] = Diag!Left(p)])
      BY DEF Diag!ShutsRing, Diag!Mine
    <2>3. Diag!Left(p) # None /\ Diag!Left(p).owner = p /\ Diag!Left(p).exit = x5[p]
      BY <1>0, DiagFiles DEF Diag!Types, Diag!Left
    <2> QED BY <1>0, <2>1, <2>2, <2>3, DiagNone DEF Diag!Types, Diag!Owned, Diag!OwnedBy, Diag!Settled
  <1>4. Diag!Told'
    BY DiagShutsRingKeeps
  <1>5. Diag!Reported'
    <2>1. x2[p] \in Pids /\ Diag!Moves(x2[p])
      BY <1>0 DEF Diag!ShutsRing, Diag!Mine, Diag!Up, Diag!Courses
    <2>2. ExitsStay
      BY DEF Diag!ShutsRing, ExitsStay
    <2>3. \A e \in Pids \ {x2[p]} : DiagSame(e)
      BY <1>0 DEF Diag!ShutsRing, Diag!Mine, DiagSame, Diag!Holder, Diag!Types
    <2> QED BY <1>0, <2>1, <2>2, <2>3, DiagReportMoves
  <1> QED BY <1>1, <1>2, <1>3, <1>4, <1>5 DEF Diag!IInv

LEMMA DiagLeaves ==
    ASSUME Diag!IInv, NEW p \in Processes, Diag!Leaves(p)
    PROVE  Diag!IInv'
  <1>0. Diag!Types /\ Diag!Courses /\ Diag!Owned /\ Diag!Told /\ Diag!Reported
    BY DEF Diag!IInv
  <1>1. Diag!Types'
    BY <1>0, DiagMoved DEF Diag!Leaves, Diag!files, Diag!Types
  <1>2. Diag!Courses'
    BY <1>0 DEF Diag!Leaves, Diag!Up, Diag!Courses
  <1>3. Diag!Owned'
    BY <1>0 DEF Diag!Leaves, Diag!files, Diag!Owned, Diag!OwnedBy, Diag!Settled
  <1>4. Diag!Told'
    BY <1>0 DEF Diag!Leaves, Diag!Works, Diag!files, Diag!Told, Diag!ToldOf, Diag!Lists, Diag!Logs,
       Diag!Halved
  <1>5. Diag!Reported'
    <2>1. x2[p] \in Pids /\ Diag!Moves(x2[p])
      BY <1>0 DEF Diag!Leaves, Diag!Mine, Diag!Courses
    <2>2. ExitsStay
      BY DEF Diag!Leaves, ExitsStay
    <2>3. \A e \in Pids \ {x2[p]} : DiagSame(e)
      BY DEF Diag!Leaves, Diag!files, DiagSame, Diag!Holder
    <2> QED BY <1>0, <2>1, <2>2, <2>3, DiagReportMoves
  <1> QED BY <1>1, <1>2, <1>3, <1>4, <1>5 DEF Diag!IInv

LEMMA DiagKilled ==
    ASSUME Diag!IInv, NEW p \in Processes, Diag!Killed(p)
    PROVE  Diag!IInv'
  <1>0. Diag!Types /\ Diag!Courses /\ Diag!Owned /\ Diag!Told /\ Diag!Reported
    BY DEF Diag!IInv
  <1>1. Diag!Types'
    BY <1>0, DiagMoved DEF Diag!Killed, Diag!files, Diag!NoPrune, Diag!Types
  <1>2. Diag!Courses'
    BY <1>0 DEF Diag!Killed, Diag!NoPrune, Diag!Courses
  <1>3. Diag!Owned'
    BY <1>0 DEF Diag!Killed, Diag!files, Diag!Owned, Diag!OwnedBy, Diag!Settled
  <1>4. Diag!Told'
    BY <1>0 DEF Diag!Killed, Diag!Works, Diag!files, Diag!Told, Diag!ToldOf, Diag!Lists, Diag!Logs,
       Diag!Halved
  <1>5. Diag!Reported'
    <2>1. x2[p] \in Pids /\ Diag!Moves(x2[p])
      BY <1>0 DEF Diag!Killed, Diag!Mine, Diag!Courses
    <2>2. ExitsStay
      BY DEF Diag!Killed, ExitsStay
    <2>3. \A e \in Pids \ {x2[p]} : DiagSame(e)
      BY DEF Diag!Killed, Diag!files, DiagSame, Diag!Holder
    <2> QED BY <1>0, <2>1, <2>2, <2>3, DiagReportMoves
  <1> QED BY <1>1, <1>2, <1>3, <1>4, <1>5 DEF Diag!IInv

LEMMA DiagPruneInflight ==
    ASSUME Diag!IInv, NEW p \in Processes, NEW d \in Pids, Diag!PruneInflight(p, d)
    PROVE  Diag!IInv'
  <1>0. Diag!Types /\ Diag!Courses /\ Diag!Owned /\ Diag!Told /\ Diag!Reported
    BY DEF Diag!IInv
  <1>1. Diag!Types'
    BY <1>0, DiagMoved DEF Diag!PruneInflight, Diag!Goes, Diag!Types
  <1>2. Diag!Courses'
    BY <1>0, DiagNone DEF Diag!PruneInflight, Diag!Up, Diag!Goes, Diag!Courses, Diag!Places
  <1>3. Diag!Owned'
    BY <1>0, DiagNone DEF Diag!PruneInflight, Diag!Up, Diag!Goes, Diag!Owned, Diag!OwnedBy,
       Diag!Settled, Diag!Places
  <1>4. Diag!Told'
    BY DiagPruneInflightTold
  <1>5. Diag!Reported'
    <2>1. d \in Pids /\ Diag!Moves(d)
      BY DEF Diag!PruneInflight
    <2>2. ExitsStay
      BY DEF Diag!PruneInflight, ExitsStay
    <2>3. \A e \in Pids \ {d} : DiagSame(e)
      BY DEF Diag!PruneInflight, DiagSame, Diag!Holder
    <2> QED BY <1>0, <2>1, <2>2, <2>3, DiagReportMoves
  <1> QED BY <1>1, <1>2, <1>3, <1>4, <1>5 DEF Diag!IInv

LEMMA DiagPruneRing ==
    ASSUME Diag!IInv, NEW p \in Processes, NEW d \in Pids, Diag!PruneRing(p, d)
    PROVE  Diag!IInv'
  <1>0. Diag!Types /\ Diag!Courses /\ Diag!Owned /\ Diag!Told /\ Diag!Reported
    BY DEF Diag!IInv
  <1>1. Diag!Types'
    BY <1>0, DiagMoved DEF Diag!PruneRing, Diag!Goes, Diag!Types, Diag!Places
  <1>2. Diag!Courses'
    BY <1>0, DiagNone DEF Diag!PruneRing, Diag!Up, Diag!Goes, Diag!Courses, Diag!Places
  <1>3. Diag!Owned'
    BY DiagPruneRingKeeps
  <1>4. Diag!Told'
    BY DiagPruneRingKeeps
  <1>5. Diag!Reported'
    <2>1. d \in Pids /\ Diag!Moves(d)
      BY DEF Diag!PruneRing
    <2>2. ExitsStay
      BY DEF Diag!PruneRing, ExitsStay
    <2>3. \A e \in Pids \ {d} : DiagSame(e)
      BY DEF Diag!PruneRing, DiagSame, Diag!Holder
    <2> QED BY <1>0, <2>1, <2>2, <2>3, DiagReportMoves
  <1> QED BY <1>1, <1>2, <1>3, <1>4, <1>5 DEF Diag!IInv

\* A step that leaves the files and the lives of the processes alone leaves what is said of them.
LEMMA DiagNothingMoves ==
    ASSUME Diag!IInv, UNCHANGED <<x1, x2, x4, x5, Diag!files, x10, x11, x13>>
    PROVE  ExitsStay /\ Diag!Reported'
  <1>1. ExitsStay
    BY DEF ExitsStay
  <1>2. Diag!Types /\ Diag!Reported /\ x11' = x11
    BY DEF Diag!IInv
  <1>3. x11.step # "idle" /\ ~x11.moved => DiagSame(x11.pid)
    BY DEF DiagSame, Diag!files, Diag!Holder
  <1> QED BY <1>1, <1>2, <1>3, DiagReportStays

LEMMA DiagNewChooses ==
    ASSUME Diag!IInv, NEW p \in Processes, Diag!NewChooses(p)
    PROVE  Diag!IInv'
  <1>0. Diag!Types /\ Diag!Courses /\ Diag!Owned /\ Diag!Told
    BY DEF Diag!IInv
  <1>1. /\ UNCHANGED <<x1, x2, x4, x5, Diag!files, x10, x11, x13>>
        /\ x3[p] = "prune" /\ x1[p] = "up" /\ x3' = [x3 EXCEPT ![p] = "remove"]
    BY DEF Diag!NewChooses, Diag!Up, Diag!Goes, Diag!Works, Diag!files
  <1>2. PICK dirs \in SUBSET Diag!Removable(p) :
          x9' = [x9 EXCEPT ![p] = [dirs |-> dirs,
                   used |-> {q \in Processes : x1[q] = "up" /\ \E d \in dirs : q \in Diag!Owners(d)}]]
    BY DEF Diag!NewChooses
  <1>3. ASSUME NEW q \in Processes, x1[q] = "up", NEW d \in dirs, q \in Diag!Owners(d)
        PROVE  FALSE
    <2>1. d \in Pids /\ ~Diag!Live(d)
      BY <1>2 DEF Diag!Removable, Diag!Kept
    <2>2. x2[q] = d
      BY <1>0, <1>3, <2>1 DEF Diag!Owned, Diag!OwnedBy, Diag!Owners
    <2>3. q \in Diag!Holder(d)
      BY <1>3, <2>2 DEF Diag!Holder
    <2>4. x6[d] # None /\ x6[d].owner # q
      BY <2>1, <2>3 DEF Diag!Live
    <2>5. x7[d] # None /\ x7[d].owner = q
      BY <1>3, <2>4 DEF Diag!Owners
    <2> QED BY <1>0, <1>3, <2>1, <2>2, <2>4, <2>5 DEF Diag!Owned, Diag!OwnedBy
  <1>4. dirs \subseteq Pids /\ x2[p] \notin dirs /\ x9' = [x9 EXCEPT ![p] = [dirs |-> dirs, used |-> {}]]
    <2>1. {q \in Processes : x1[q] = "up" /\ \E d \in dirs : q \in Diag!Owners(d)} = {}
      BY <1>3
    <2> QED BY <1>2, <2>1 DEF Diag!Removable, Diag!Kept, Diag!Mine
  <1>5. Diag!Types'
    BY <1>0, <1>1, <1>4 DEF Diag!Types, Diag!files, Diag!Places
  <1>6. Diag!Courses'
    BY <1>0, <1>1, <1>4 DEF Diag!Types, Diag!files, Diag!Courses
  <1>7. Diag!Owned'
    BY <1>0, <1>1 DEF Diag!Types, Diag!files, Diag!Owned, Diag!OwnedBy, Diag!Settled
  <1>8. Diag!Told'
    <2> SUFFICES ASSUME ~x13, NEW q \in Processes, x2[q] \in Pids
                 PROVE  Diag!ToldOf(q)'
      BY <1>1 DEF Diag!Told
    <2>1. Diag!ToldOf(q) /\ Diag!Lists(q)' = Diag!Lists(q) /\ Diag!Logs(q)' = Diag!Logs(q)
      BY <1>0, <1>1 DEF Diag!Told, Diag!Lists, Diag!Logs, Diag!files
    <2>2. Diag!Halved(q) => Diag!Halved(q)'
      BY <1>0, <1>1, DiagNone DEF Diag!Types, Diag!Halved, Diag!Places
    <2>3. q = p => x4[q] = {}
      BY <1>0, <1>1 DEF Diag!Courses
    <2> QED BY <1>0, <1>1, <2>1, <2>2, <2>3 DEF Diag!ToldOf, Diag!Types, Diag!files
  <1> QED BY <1>1, <1>5, <1>6, <1>7, <1>8, DiagNothingMoves DEF Diag!IInv

LEMMA DiagNewDone ==
    ASSUME Diag!IInv, NEW p \in Processes, Diag!NewDone(p)
    PROVE  Diag!IInv'
  <1>0. Diag!Types /\ Diag!Courses /\ Diag!Owned /\ Diag!Told /\ Diag!Reported
    BY DEF Diag!IInv
  <1>1. /\ UNCHANGED <<x1, x2, x4, x5, x6, x8, x10>>
        /\ x3[p] = "remove" /\ x1[p] = "up" /\ x3' = [x3 EXCEPT ![p] = "free"] /\ x2[p] \in Pids
        /\ x9' = [x9 EXCEPT ![p] = [dirs |-> {}, used |-> {}]] /\ Diag!Moves(x2[p]) /\ Diag!Appends(p)
    BY <1>0 DEF Diag!NewDone, Diag!Mine, Diag!Up, Diag!Goes, Diag!Courses, Diag!NoPrune
  <1>2. /\ x7' \in [Pids -> Diag!RingFiles \cup {None}]
        /\ \A d \in Pids \ {x2[p]} : x7'[d] = x7[d]
        /\ \A d \in Pids : /\ x7'[d] = None <=> x7[d] = None
                           /\ x7[d] # None => x7'[d].owner = x7[d].owner /\ x7'[d].exit = x7[d].exit
        /\ x13' = x13 \/ x13'
    BY <1>0, <1>1, DiagAppends
  <1>3. Diag!Types'
    BY <1>0, <1>1, <1>2, DiagMoved DEF Diag!Types, Diag!Places
  <1>4. Diag!Courses'
    BY <1>0, <1>1 DEF Diag!Types, Diag!Courses
  <1>5. Diag!Owned'
    <2> SUFFICES ASSUME NEW d \in Pids, NEW q \in Processes
                 PROVE  Diag!OwnedBy(d, q)'
      BY DEF Diag!Owned
    <2>1. Diag!OwnedBy(d, q) /\ (x7'[d] = None <=> x7[d] = None)
          /\ (x7[d] # None => x7'[d].owner = x7[d].owner /\ x7'[d].exit = x7[d].exit)
      BY <1>0, <1>2 DEF Diag!Owned
    <2>2. q # p => x3'[q] = x3[q] /\ x5'[q] = x5[q]
      BY <1>0, <1>1 DEF Diag!Types
    <2>3. q = p => x3[q] \in {"remove", "free"} /\ x3'[q] \in {"free", "ended", "leaving"}
                  /\ (x5'[q] = x5[q] \/ x5[q] = "no")
      BY <1>0, <1>1 DEF Diag!Types
    <2> QED BY <1>1, <2>1, <2>2, <2>3 DEF Diag!OwnedBy, Diag!Settled
  <1>6. Diag!Told'
    <2> SUFFICES ASSUME ~x13', NEW q \in Processes, x2[q] \in Pids
                 PROVE  Diag!ToldOf(q)'
      BY <1>1 DEF Diag!Told
    <2>0. Diag!ToldOf(q) /\ (x7'[x2[q]] = None <=> x7[x2[q]] = None)
          /\ (x7[x2[q]] # None => x7'[x2[q]].owner = x7[x2[q]].owner)
      BY <1>0, <1>2 DEF Diag!Told
    <2>1. Diag!ToldOf(q) /\ (Diag!Lists(q)' <=> Diag!Lists(q)) /\ (Diag!Logs(q)' <=> Diag!Logs(q))
      BY <1>1, <2>0 DEF Diag!Lists, Diag!Logs
    <2>2. Diag!Halved(q) => Diag!Halved(q)'
      BY <1>0, <1>1, DiagNone DEF Diag!Types, Diag!Halved, Diag!Places
    <2>3. q = p => x4[q] = {} /\ x5[q] = "no"
      BY <1>0, <1>1 DEF Diag!Courses
    <2> QED BY <1>0, <1>1, <1>2, <2>1, <2>2, <2>3 DEF Diag!ToldOf, Diag!Types, Diag!Logs
  <1>7. Diag!Reported'
    <2>1. ExitsStay
      BY <1>1 DEF ExitsStay
    <2>2. \A e \in Pids \ {x2[p]} : DiagSame(e)
      BY <1>1, <1>2 DEF DiagSame, Diag!Holder
    <2> QED BY <1>0, <1>1, <2>1, <2>2, DiagReportMoves
  <1> QED BY <1>3, <1>4, <1>5, <1>6, <1>7 DEF Diag!IInv

\* The steps of a report change nothing but it.
LEMMA DiagOnlyReports ==
    ASSUME Diag!IInv, UNCHANGED <<x1, x2, x3, x4, x5, Diag!files, x9, x10, x13>>,
           x11' \in Diag!Reports, Diag!Reported'
    PROVE  Diag!IInv'
  <1>1. Diag!Types'
    BY DEF Diag!IInv, Diag!Types, Diag!files
  <1>2. Diag!Courses'
    BY DEF Diag!IInv, Diag!Courses, Diag!files
  <1>3. Diag!Owned'
    BY DEF Diag!IInv, Diag!Owned, Diag!OwnedBy, Diag!Settled, Diag!files
  <1>4. Diag!Told'
    BY DEF Diag!IInv, Diag!Told, Diag!ToldOf, Diag!Lists, Diag!Logs, Diag!Halved, Diag!files
  <1> QED BY <1>1, <1>2, <1>3, <1>4 DEF Diag!IInv

LEMMA DiagReportReads ==
    ASSUME Diag!IInv, NEW d \in Pids, Diag!ReportReads(d)
    PROVE  Diag!IInv'
  <1>1. x11' = [step |-> "ring", pid |-> d, spans |-> x6[d], exit |-> None, moved |-> FALSE, verdict |-> "none"]
    BY DEF Diag!ReportReads, Diag!NoReport
  <1>2. UNCHANGED <<x1, x2, x3, x4, x5, Diag!files, x9, x10, x13>>
    BY DEF Diag!ReportReads, Diag!files
  <1>3. x11' \in Diag!Reports
    BY <1>1 DEF Diag!IInv, Diag!Types, Diag!Reports
  <1>4. Diag!Reported'
    BY <1>1, <1>2 DEF Diag!Reported, Diag!files
  <1> QED BY <1>2, <1>3, <1>4, DiagOnlyReports

LEMMA DiagReportReadsRing ==
    ASSUME Diag!IInv, Diag!ReportReadsRing
    PROVE  Diag!IInv'
  <1>0. Diag!Types /\ Diag!Owned /\ Diag!Reported /\ x11.pid \in Pids
    BY DEF Diag!IInv, Diag!ReportReadsRing, Diag!Reported
  <1>1. UNCHANGED <<x1, x2, x3, x4, x5, Diag!files, x9, x10, x13>>
    BY DEF Diag!ReportReadsRing, Diag!files, Diag!Works
  <1>2. x11' = [x11 EXCEPT !.step = "alive", !.exit = x7[x11.pid]]
    BY DEF Diag!ReportReadsRing
  <1>3. x11' \in Diag!Reports
    BY <1>0, <1>2 DEF Diag!Types, Diag!Reports
  <1>4. x7[x11.pid] # None => x7[x11.pid].owner \in Processes
    BY <1>0 DEF Diag!Types, Diag!RingFiles
  <1>5. /\ x11'.step = "alive" /\ x11'.pid = x11.pid /\ x11'.spans = x11.spans /\ x11'.exit = x7[x11.pid]
        /\ x11'.verdict = x11.verdict /\ x11'.moved = x11.moved
    BY <1>0, <1>2 DEF Diag!Types, Diag!Reports
  <1>6. x11.verdict = "none"
    BY <1>0 DEF Diag!Reported, Diag!ReportReadsRing
  <1>7. Diag!Reported'
    BY <1>0, <1>1, <1>4, <1>5, <1>6 DEF Diag!Reported, Diag!files, Diag!Owned, Diag!OwnedBy, Diag!ReportReadsRing
  <1> QED BY <1>1, <1>3, <1>7, DiagOnlyReports

LEMMA DiagReportAsksAlive ==
    ASSUME Diag!IInv, Diag!ReportAsksAlive
    PROVE  Diag!IInv'
  <1>0. Diag!Types /\ Diag!Reported /\ x11.pid \in Pids /\ x11.step = "alive"
    BY DEF Diag!IInv, Diag!ReportAsksAlive, Diag!Reported
  <1>1. UNCHANGED <<x1, x2, x3, x4, x5, Diag!files, x9, x10, x13>>
    BY DEF Diag!ReportAsksAlive, Diag!files, Diag!Works
  <1>2. x11' = [x11 EXCEPT !.step = "done", !.verdict = Diag!Verdict(x11.pid)]
    BY DEF Diag!ReportAsksAlive
  <1>3. /\ Diag!Verdict(x11.pid) \in {"running_open", "gone_open", "clean", "cut", "idle", "gone"}
        /\ Diag!Verdict(x11.pid) \in {"clean", "cut"} =>
              x11.spans = None /\ x11.exit # None /\ x11.exit.exit = Diag!Verdict(x11.pid)
    BY <1>0 DEF Diag!Verdict, Diag!Types, Diag!Reports, Diag!RingFiles, Diag!Exits
  <1>4. x11' \in Diag!Reports
    BY <1>0, <1>2, <1>3 DEF Diag!Types, Diag!Reports
  <1>5. /\ x11'.step = "done" /\ x11'.pid = x11.pid /\ x11'.spans = x11.spans /\ x11'.exit = x11.exit
        /\ x11'.verdict = Diag!Verdict(x11.pid) /\ x11'.moved = x11.moved
    BY <1>0, <1>2 DEF Diag!Types, Diag!Reports
  <1>6. Diag!Verdict(x11.pid)' = Diag!Verdict(x11.pid)
    BY <1>1, <1>5 DEF Diag!Verdict, Diag!Alive, Diag!Recycled, Diag!Holder
  <1>7. Diag!Reported'
    BY <1>0, <1>1, <1>3, <1>5, <1>6 DEF Diag!Reported, Diag!files
  <1> QED BY <1>1, <1>4, <1>7, DiagOnlyReports

LEMMA DiagInit == Diag!Init => Diag!IInv
  <1> SUFFICES ASSUME Diag!Init PROVE Diag!IInv
    OBVIOUS
  <1>1. Diag!Types
    BY DEF Diag!Init, Diag!Types, Diag!Places, Diag!Exits, Diag!NoPrune, Diag!NoReport, Diag!Reports
  <1>2. Diag!Courses
    BY DiagNone DEF Diag!Init, Diag!Courses, Diag!NoPrune
  <1>3. Diag!Owned
    BY DEF Diag!Init, Diag!Owned, Diag!OwnedBy, Diag!Settled
  <1>4. Diag!Told
    BY DiagNone DEF Diag!Init, Diag!Told
  <1>5. Diag!Reported
    BY DEF Diag!Init, Diag!Reported, Diag!NoReport
  <1> QED BY <1>1, <1>2, <1>3, <1>4, <1>5 DEF Diag!IInv

LEMMA DiagNext == Diag!IInv /\ Diag!Next => Diag!IInv'
  <1> SUFFICES ASSUME Diag!IInv, Diag!Next PROVE Diag!IInv'
    OBVIOUS
  <1>1. ASSUME NEW p \in Processes, NEW d \in Pids,
               Diag!Starts(p, d) \/ Diag!PruneInflight(p, d) \/ Diag!PruneRing(p, d)
        PROVE  Diag!IInv'
    BY <1>1, DiagStarts, DiagPruneInflight, DiagPruneRing
  <1>2. ASSUME NEW p \in Processes,
               Diag!NewClears(p) \/ Diag!NewOpensRing(p) \/ Diag!NewChooses(p) \/ Diag!NewDone(p)
        PROVE  Diag!IInv'
    BY <1>2, DiagNewClears, DiagNewOpensRing, DiagNewChooses, DiagNewDone
  <1>3. ASSUME NEW p \in Processes, NEW s \in Spans, Diag!Begins(p, s) \/ Diag!EndsSpan(p, s)
        PROVE  Diag!IInv'
    BY <1>3, DiagBegins, DiagEndsSpan
  <1>4. ASSUME NEW p \in Processes,
               \/ Diag!WritesInflight(p) \/ Diag!ShutsDown(p) \/ Diag!ShutsInflight(p) \/ Diag!ShutsRing(p)
               \/ Diag!Leaves(p) \/ Diag!Killed(p)
        PROVE  Diag!IInv'
    BY <1>4, DiagWritesInflight, DiagShutsDown, DiagShutsInflight, DiagShutsRing, DiagLeaves, DiagKilled
  <1>5. ASSUME NEW d \in Pids, Diag!ReportReads(d)
        PROVE  Diag!IInv'
    BY <1>5, DiagReportReads
  <1>6. ASSUME Diag!ReportReadsRing \/ Diag!ReportAsksAlive
        PROVE  Diag!IInv'
    BY <1>6, DiagReportReadsRing, DiagReportAsksAlive
  <1> QED BY <1>1, <1>2, <1>3, <1>4, <1>5, <1>6 DEF Diag!Next

LEMMA DiagStutter == Diag!IInv /\ UNCHANGED Diag!vars => Diag!IInv'
  <1> SUFFICES ASSUME Diag!IInv, UNCHANGED Diag!vars PROVE Diag!IInv'
    OBVIOUS
  <1>1. UNCHANGED <<x1, x2, x3, x4, x5, Diag!files, x9, x10, x13>> /\ x11' = x11
    BY DEF Diag!vars, Diag!files
  <1>2. x11' \in Diag!Reports
    BY <1>1 DEF Diag!IInv, Diag!Types
  <1>3. Diag!Reported'
    BY <1>1, DiagNothingMoves
  <1> QED BY <1>1, <1>2, <1>3, DiagOnlyReports

DiagInv == part = "diag" => Diag!IInv

LEMMA DiagHolds == Spec => []DiagInv
  <1>1. Init => DiagInv
    BY DiagInit DEF Init, DiagInv
  <1>2. DiagInv /\ [Next]_vars => DiagInv'
    <2> SUFFICES ASSUME DiagInv, [Next]_vars, part' = "diag"
                 PROVE  Diag!IInv'
      BY DEF DiagInv
    <2>1. part = "diag" /\ (Diag!Next \/ UNCHANGED Diag!vars)
      BY DEF Next, vars, Diag!vars, FirmwareStep, DiagStep, RingStep, SessionStep, ServerStep, PropertyStep
    <2> QED
      BY <2>1, DiagNext, DiagStutter DEF DiagInv
  <1> QED BY <1>1, <1>2, PTL DEF Spec

\* What a report says of the process whose files it read was so, for any processes, pids, reuse of
\* them, deaths and failed writes (verdict): an exit it reports always, the rest where nothing moved.
THEOREM VerdictsAreTrue == Spec => []VerdictIsTrue
  <1>1. DiagInv => VerdictIsTrue
    <2> SUFFICES ASSUME Diag!IInv, x11.step = "done", x11.spans # None \/ x11.exit # None
                 PROVE  Diag!SoundVerdict
      BY DEF DiagInv, VerdictIsTrue, Diag!VerdictIsTrue
    <2> DEFINE o == Diag!Subject
               v == x11.verdict
    <2>0. Diag!Types /\ Diag!Courses /\ Diag!Owned /\ Diag!Told /\ Diag!Reported /\ x11.pid \in Pids
      BY DEF Diag!IInv, Diag!Reported
    <2>1. o \in Processes
      BY <2>0 DEF Diag!Subject, Diag!Types, Diag!Reports, Diag!InFiles, Diag!RingFiles
    <2>2. v \in {"clean", "cut"} => x5[o] = v
      BY <2>0 DEF Diag!Subject, Diag!Reported
    <2>3. ASSUME ~x11.moved, ~x13, o \notin x10
          PROVE  /\ v = "gone_open" => x1[o] = "killed" /\ (x4[o] # {} \/ x3[o] \in {"ended", "leaving"})
                 /\ v = "gone" /\ ~Diag!HalfRemoved(o) => x1[o] = "killed" /\ (x4[o] = {} \/ x3[o] = "begun")
                 /\ v = "running_open" /\ Diag!KnownHolder(o) => x1[o] = "up"
                 /\ v = "idle" /\ Diag!KnownHolder(o) => x1[o] = "up" /\ (x4[o] = {} \/ x3[o] = "begun")
      <3>1. x11.spans = x6[x11.pid] /\ x11.exit = x7[x11.pid] /\ v = Diag!Verdict(x11.pid)
        BY <2>0, <2>3 DEF Diag!Reported
      <3>2. x2[o] = x11.pid /\ Diag!ToldOf(o) /\ x1[o] # "unborn"
        BY <2>0, <2>1, <2>3, <3>1 DEF Diag!Subject, Diag!Owned, Diag!OwnedBy, Diag!Told, Diag!Courses
      <3>3. \A q \in Diag!Holder(x11.pid) : x1[o] = "up" => q = o
        BY <2>0, <2>1, <3>2 DEF Diag!Holder, Diag!Courses
      <3>4. x1[o] = "up" => Diag!Holder(x11.pid) = {o}
        BY <2>1, <3>2, <3>3 DEF Diag!Holder
      <3>5. x1[o] # "up" => o \notin Diag!Holder(x11.pid)
        BY DEF Diag!Holder
      <3>6. x11.spans # None => Diag!Lists(o)
        BY <3>1, <3>2 DEF Diag!Subject, Diag!Lists
      <3>7. x11.spans = None => Diag!Logs(o) /\ x6[x2[o]] = None
        BY <3>1, <3>2 DEF Diag!Subject, Diag!Logs
      <3>8. x11.spans # None /\ x11.exit # None /\ x1[o] = "up" => x11.exit.owner = o
        BY <2>0, <2>1, <3>1, <3>2, <3>6 DEF Diag!Owned, Diag!OwnedBy, Diag!Lists, Diag!Settled
      <3>9. x1[o] = "up" => Diag!Alive(x11.pid)
        BY <3>4, <3>8 DEF Diag!Alive, Diag!Recycled, Diag!Subject
      <3>10. x1[o] # "up" /\ Diag!KnownHolder(o) => ~Diag!Alive(x11.pid)
        BY <3>5 DEF Diag!Alive, Diag!Recycled, Diag!Subject, Diag!KnownHolder, Diag!Dated
      <3>11. Diag!Halved(o) => Diag!HalfRemoved(o)
        BY <3>2 DEF Diag!Halved, Diag!HalfRemoved
      <3>12. x1[o] \in {"up", "left", "killed"}
        BY <2>0, <2>1, <3>2 DEF Diag!Types
      <3>13. x1[o] = "left" => x5[o] # "no" /\ x3[o] = "free"
        BY <2>0, <2>1 DEF Diag!Courses
      <3>14. CASE x11.spans # None
        BY <3>1, <3>2, <3>6, <3>9, <3>10, <3>12, <3>13, <3>14 DEF Diag!Verdict, Diag!ToldOf
      <3>15. CASE x11.spans = None
        <4>0. x11.exit # None => x11.exit.exit \in {"no", "clean", "cut"}
          BY <2>0 DEF Diag!Types, Diag!Reports, Diag!RingFiles, Diag!Exits
        <4>1. v \in {"gone", "idle"} => x5[o] = "no" \/ x3[o] \in {"leaving", "exit"}
          BY <3>1, <3>2, <3>7, <3>15, <4>0 DEF Diag!Verdict, Diag!ToldOf, Diag!Logs
        <4>2. x3[o] \in {"leaving", "exit"} => x4[o] = {}
          BY <2>0, <2>1 DEF Diag!Courses
        <4>3. v = "gone" => x1[o] # "up"
          BY <3>1, <3>9, <3>15, <4>0 DEF Diag!Verdict
        <4>4. v = "idle" /\ Diag!KnownHolder(o) => x1[o] = "up"
          BY <3>1, <3>10, <3>15, <4>0 DEF Diag!Verdict
        <4>5. x5[o] = "no" /\ (x1[o] = "up" \/ ~Diag!Halved(o)) => x4[o] = {} \/ x3[o] = "begun"
          BY <2>3, <3>2, <3>7, <3>15 DEF Diag!ToldOf
        <4>6. v \notin {"gone_open", "running_open"}
          BY <3>1, <3>15, <4>0 DEF Diag!Verdict
        <4> QED BY <3>11, <3>12, <3>13, <4>1, <4>2, <4>3, <4>4, <4>5, <4>6
      <3> QED BY <3>14, <3>15
    <2> QED BY <2>2, <2>3 DEF Diag!SoundVerdict
  <1> QED BY <1>1, DiagHolds, PTL

\* A prune takes no file from a process that ran and had files when it chose, for any processes,
\* pids and reuse of them (prune_with).
THEOREM PrunesSpareRunning == Spec => PruneSparesRunning
  <1>1. DiagInv /\ [Next]_vars => [part = "diag" => Diag!SparesRunning]_vars
    BY DEF DiagInv, Diag!IInv, Diag!Courses, Diag!SparesRunning
  <1> QED BY <1>1, DiagHolds, PTL DEF Spec, PruneSparesRunning

-----------------------------------------------------------------------------
(* A property from a snapshot to another body (SnapshotEdit, TransplantPlan).  x1 is value, x2     *)
(* gate, x3 editable, x4 edits, x5 asked, x6 body, x7 plan.                                        *)

LEMMA PropertyCounts ==
    ASSUME NEW S
    PROVE  Property!Cardinality(S) = Cardinality(S)
  BY DEF Property!Cardinality, Cardinality

\* A letter is read on to a label.
LEMMA OneMore ==
    ASSUME NEW S, NEW a \in Seq(S), NEW e \in Seq(S), Len(e) <= 1, e # <<>>
    PROVE  /\ a \o e \in Seq(S) /\ Len(a \o e) = Len(a) + 1 /\ DOMAIN (a \o e) = 1..(Len(a) + 1)
           /\ \A k \in 1..Len(a) : (a \o e)[k] = a[k]
           /\ (a \o e)[Len(a) + 1] = e[1]
  <1>1. Len(a) \in Nat /\ Len(e) \in Nat
    OBVIOUS
  <1>2. Len(e) # 0
    OBVIOUS
  <1>3. Len(e) = 1
    <2>1. \A l \in Nat : l <= 1 /\ l # 0 => l = 1
      OBVIOUS
    <2>2. Len(e) \in Nat /\ Len(e) <= 1
      BY <1>1
    <2> QED BY <2>1, <2>2, <1>2
  <1>4. a \o e \in Seq(S) /\ Len(a \o e) = Len(a) + 1
    <2>1. a \o e \in Seq(S) /\ Len(a \o e) = Len(a) + Len(e)
      OBVIOUS
    <2> QED BY <2>1, <1>3
  <1>5. DOMAIN (a \o e) = 1..(Len(a) + 1)
    BY <1>4
  <1>6. \A k \in 1..Len(a) : (a \o e)[k] = a[k]
    BY <1>1, <1>3
  <1>7. (a \o e)[Len(a) + 1] = e[1]
    BY <1>1, <1>3
  <1> QED BY <1>4, <1>5, <1>6, <1>7

\* What the loop holds after n elements is a function of the elements before.
LEMMA ReadingIs ==
    ASSUME NEW s \in Seq(Seq(Letters))
    PROVE LET f == Property!Reading(s) IN
          f = [n \in 0..Len(s) |->
                 IF n = 0 THEN [done |-> <<>>, label |-> <<>>]
                 ELSE IF s[n] = <<>> THEN [done |-> Append(f[n - 1].done, f[n - 1].label), label |-> <<>>]
                 ELSE [done |-> f[n - 1].done, label |-> f[n - 1].label \o s[n]]]
  <1> DEFINE Takes(r, e) == IF e = <<>> THEN [done |-> Append(r.done, r.label), label |-> <<>>]
                            ELSE [done |-> r.done, label |-> r.label \o e]
             Start == [done |-> <<>>, label |-> <<>>]
             Reads(f, m) == f = [n \in 0..m |-> IF n = 0 THEN Start ELSE Takes(f[n - 1], s[n])]
  <1>0. Len(s) \in Nat
    OBVIOUS
  <1>1. \A n \in Nat : n <= Len(s) => \E f : Reads(f, n)
    <2> DEFINE Missing == {n \in Nat : n <= Len(s) /\ ~\E f : Reads(f, n)}
    <2> SUFFICES ASSUME NEW m \in Missing, \A k \in Missing : m <= k
                 PROVE FALSE
      <3> HIDE DEF Reads
      <3> QED BY Least
    <2>1. CASE m = 0
      <3>1. Reads([n \in 0..0 |-> Start], 0)
        OBVIOUS
      <3> QED BY <2>1, <3>1
    <2>2. CASE m # 0
      <3>1. m - 1 \in Nat /\ m \in Nat /\ m <= Len(s) /\ m - 1 <= Len(s) /\ ~(m <= m - 1)
        <4> HIDE DEF Reads
        <4> QED BY <1>0, <2>2
      <3>2. \E f : Reads(f, m - 1)
        <4> HIDE DEF Reads
        <4> QED BY <3>1
      <3>3. PICK f : Reads(f, m - 1)
        <4> HIDE DEF Reads
        <4> QED BY <3>2
      <3> DEFINE g == [n \in 0..m |-> IF n = m THEN Takes(f[m - 1], s[m]) ELSE f[n]]
      <3>4. \A n \in 0..(m - 1) : f[n] = IF n = 0 THEN Start ELSE Takes(f[n - 1], s[n])
        <4> HIDE DEF Takes, Start
        <4> QED BY <3>1, <3>3
      <3>5. \A n \in 0..m : g[n] = IF n = 0 THEN Start ELSE Takes(g[n - 1], s[n])
        <4> SUFFICES ASSUME NEW n \in 0..m
                     PROVE  g[n] = IF n = 0 THEN Start ELSE Takes(g[n - 1], s[n])
          OBVIOUS
        <4>1. n # 0 => g[n - 1] = f[n - 1]
          <5> HIDE DEF Takes
          <5> QED BY <3>1
        <4>2. g[n] = IF n = m THEN Takes(f[m - 1], s[m]) ELSE f[n]
          <5> HIDE DEF Takes
          <5> QED BY <3>1
        <4>3. n # m => n \in 0..(m - 1)
          BY <3>1
        <4> HIDE DEF Takes, Start, g
        <4> QED BY <4>1, <4>2, <4>3, <3>4, <2>2
      <3>6. Reads(g, m)
        <4> HIDE DEF Takes, Start
        <4> QED BY <3>5
      <3>7. ~\E h : Reads(h, m)
        <4> HIDE DEF Reads
        <4> QED OBVIOUS
      <3> HIDE DEF Reads
      <3> QED BY <3>6, <3>7
    <2> QED BY <2>1, <2>2
  <1>2. \E f : Reads(f, Len(s))
    <2> HIDE DEF Reads
    <2> QED BY <1>0, <1>1
  <1>3. Reads(Property!Reading(s), Len(s))
    BY <1>2 DEF Property!Reading
  <1> QED BY <1>3

\* How many labels end before the element i, and the letters between two places.
EndsBefore(s, i) == {j \in 1..Len(s) : s[j] = <<>> /\ j < i}
Ended(s, i) == Cardinality(EndsBefore(s, i))
IsRun(s, b, e) ==
    /\ b \in 0..Len(s) /\ e \in 1..(Len(s) + 1) /\ b < e
    /\ b = 0 \/ s[b] = <<>>
    /\ \A j \in (b + 1)..(e - 1) : s[j] # <<>>
Text(s, b, e) == [k \in 1..(e - b - 1) |-> s[b + k][1]]

LEMMA EndedCounts ==
    ASSUME NEW s \in Seq(Seq(Letters))
    PROVE  /\ \A i \in 1..(Len(s) + 1) : Ended(s, i) \in Nat /\ IsFiniteSet(EndsBefore(s, i))
           /\ Ended(s, 1) = 0
           /\ \A i \in 1..Len(s) : Ended(s, i + 1) = IF s[i] = <<>> THEN Ended(s, i) + 1 ELSE Ended(s, i)
           /\ \A i, j \in 1..(Len(s) + 1) : i <= j => Ended(s, i) <= Ended(s, j)
           /\ \A i, j \in 1..(Len(s) + 1) : \A k \in 1..Len(s) :
                 i <= k /\ k < j /\ s[k] = <<>> => Ended(s, i) < Ended(s, j)
  <1>0. Len(s) \in Nat
    OBVIOUS
  <1>1. IsFiniteSet(1..Len(s))
    BY <1>0, FS_Interval
  <1>2. \A i \in 1..(Len(s) + 1) : EndsBefore(s, i) \in SUBSET (1..Len(s))
    BY DEF EndsBefore
  <1>3. \A i \in 1..(Len(s) + 1) : IsFiniteSet(EndsBefore(s, i)) /\ Ended(s, i) \in Nat
    BY <1>1, <1>2, FS_Subset, FS_CardinalityType DEF Ended
  <1>4. Ended(s, 1) = 0
    <2>1. EndsBefore(s, 1) = {}
      BY <1>0 DEF EndsBefore
    <2> QED BY <2>1, FS_EmptySet DEF Ended
  <1>5. \A i \in 1..Len(s) : Ended(s, i + 1) = IF s[i] = <<>> THEN Ended(s, i) + 1 ELSE Ended(s, i)
    <2> SUFFICES ASSUME NEW i \in 1..Len(s)
                 PROVE  Ended(s, i + 1) = IF s[i] = <<>> THEN Ended(s, i) + 1 ELSE Ended(s, i)
      OBVIOUS
    <2>1. CASE s[i] = <<>>
      <3>1. EndsBefore(s, i + 1) = EndsBefore(s, i) \cup {i}
        BY <1>0, <2>1 DEF EndsBefore
      <3>2. i \notin EndsBefore(s, i)
        BY <1>0 DEF EndsBefore
      <3>3. i \in 1..(Len(s) + 1)
        BY <1>0
      <3>4. IsFiniteSet(EndsBefore(s, i))
        BY <1>3, <3>3
      <3>5. Cardinality(EndsBefore(s, i) \cup {i}) = Cardinality(EndsBefore(s, i)) + 1
        BY <3>2, <3>4, FS_AddElement
      <3> QED BY <3>1, <3>5, <2>1 DEF Ended
    <2>2. CASE s[i] # <<>>
      <3>1. EndsBefore(s, i + 1) = EndsBefore(s, i)
        BY <1>0, <2>2 DEF EndsBefore
      <3> QED BY <3>1, <2>2 DEF Ended
    <2> QED BY <2>1, <2>2
  <1>6. \A i, j \in 1..(Len(s) + 1) : i <= j => Ended(s, i) <= Ended(s, j)
    <2> SUFFICES ASSUME NEW i \in 1..(Len(s) + 1), NEW j \in 1..(Len(s) + 1), i <= j
                 PROVE  Ended(s, i) <= Ended(s, j)
      OBVIOUS
    <2>1. EndsBefore(s, i) \in SUBSET EndsBefore(s, j)
      BY <1>0 DEF EndsBefore
    <2>2. IsFiniteSet(EndsBefore(s, j))
      BY <1>3
    <2> QED BY <2>1, <2>2, FS_Subset DEF Ended
  <1>7. ASSUME NEW i \in 1..(Len(s) + 1), NEW j \in 1..(Len(s) + 1), NEW k \in 1..Len(s),
               i <= k, k < j, s[k] = <<>>
        PROVE  Ended(s, i) < Ended(s, j)
    <2>1. Ended(s, k + 1) = Ended(s, k) + 1
      BY <1>5, <1>7
    <2>2. k \in 1..(Len(s) + 1) /\ k + 1 \in 1..(Len(s) + 1) /\ k + 1 <= j
      BY <1>0, <1>7
    <2>3. Ended(s, i) <= Ended(s, k) /\ Ended(s, k + 1) <= Ended(s, j)
      BY <1>6, <1>7, <2>2
    <2> QED BY <1>3, <2>1, <2>2, <2>3
  <1> QED BY <1>3, <1>4, <1>5, <1>6, <1>7

\* The k-th label the loop has read is the one with k - 1 ends before its own, and what it has read
\* of the next are the letters since the last end.
HasRead(s, n, r) ==
    /\ r.done \in Seq(Seq(Letters)) /\ r.label \in Seq(Letters)
    /\ Len(r.done) = Ended(s, n + 1)
    /\ \A k \in 1..Len(r.done) :
          \E b \in 0..n, e \in 1..n :
             IsRun(s, b, e) /\ s[e] = <<>> /\ Ended(s, e) = k - 1 /\ r.done[k] = Text(s, b, e)
    /\ \E b \in 0..n : IsRun(s, b, n + 1) /\ r.label = Text(s, b, n + 1)

LEMMA ReadsOn ==
    ASSUME NEW s \in Seq(Seq(Letters)), \A i \in 1..Len(s) : Len(s[i]) <= 1,
           NEW n \in 1..Len(s), NEW r, HasRead(s, n - 1, r)
    PROVE  HasRead(s, n, IF s[n] = <<>> THEN [done |-> Append(r.done, r.label), label |-> <<>>]
                         ELSE [done |-> r.done, label |-> r.label \o s[n]])
  <1>0. Len(s) \in Nat /\ n \in Nat /\ n - 1 + 1 = n /\ n <= Len(s) /\ n >= 1
    OBVIOUS
  <1>1. PICK b \in 0..(n - 1) : IsRun(s, b, n) /\ r.label = Text(s, b, n)
    BY <1>0 DEF HasRead
  <1>2. Len(r.done) = Ended(s, n) /\ r.done \in Seq(Seq(Letters)) /\ r.label \in Seq(Letters)
    BY <1>0 DEF HasRead
  <1>3. Ended(s, n + 1) = IF s[n] = <<>> THEN Ended(s, n) + 1 ELSE Ended(s, n)
    BY EndedCounts
  <1>4. \A k \in 1..Len(r.done) :
          \E bb \in 0..n, e \in 1..n :
             IsRun(s, bb, e) /\ s[e] = <<>> /\ Ended(s, e) = k - 1 /\ r.done[k] = Text(s, bb, e)
    <2>1. 0..(n - 1) \subseteq 0..n /\ 1..(n - 1) \subseteq 1..n
      BY <1>0
    <2>2. \A k \in 1..Len(r.done) :
            \E bb \in 0..(n - 1), e \in 1..(n - 1) :
               IsRun(s, bb, e) /\ s[e] = <<>> /\ Ended(s, e) = k - 1 /\ r.done[k] = Text(s, bb, e)
      BY DEF HasRead
    <2> QED BY <2>1, <2>2
  <1>5. CASE s[n] = <<>>
    <2> DEFINE new == [done |-> Append(r.done, r.label), label |-> <<>>]
    <2>1. new.done \in Seq(Seq(Letters)) /\ new.label \in Seq(Letters) /\ Len(new.done) = Ended(s, n + 1)
      BY <1>2, <1>3, <1>5
    <2>2. IsRun(s, n, n + 1)
      BY <1>0, <1>5 DEF IsRun
    <2>3. Text(s, n, n + 1) = <<>>
      BY <1>0 DEF Text
    <2>4. ASSUME NEW k \in 1..Len(new.done)
          PROVE  \E bb \in 0..n, e \in 1..n :
             IsRun(s, bb, e) /\ s[e] = <<>> /\ Ended(s, e) = k - 1 /\ new.done[k] = Text(s, bb, e)
      <3>1. Len(new.done) = Len(r.done) + 1 /\ Len(r.done) \in Nat
        BY <1>2
      <3>2. CASE k = Len(r.done) + 1
        <4>1. new.done[k] = Text(s, b, n) /\ Ended(s, n) = k - 1
          BY <1>1, <1>2, <3>1, <3>2
        <4>2. b \in 0..n /\ n \in 1..n
          BY <1>0
        <4> QED BY <1>1, <1>5, <4>1, <4>2
      <3>3. CASE k # Len(r.done) + 1
        <4>1. k \in 1..Len(r.done)
          <5> HIDE DEF new
          <5> QED BY <3>1, <3>3
        <4>2. new.done[k] = r.done[k]
          BY <1>2, <3>1, <4>1
        <4> HIDE DEF new
        <4> QED BY <1>4, <4>1, <4>2
      <3> QED BY <3>2, <3>3
    <2>5. HasRead(s, n, new)
      <3>1. n \in 0..n /\ IsRun(s, n, n + 1) /\ new.label = Text(s, n, n + 1)
        BY <1>0, <2>2, <2>3
      <3> HIDE DEF new
      <3> QED BY <2>1, <2>4, <3>1 DEF HasRead
    <2> QED BY <2>5, <1>5
  <1>6. CASE s[n] # <<>>
    <2> DEFINE new == [done |-> r.done, label |-> r.label \o s[n]]
    <2>0. s[n] \in Seq(Letters) /\ Len(s[n]) <= 1
      BY <1>0
    <2>1. /\ r.label \o s[n] \in Seq(Letters) /\ Len(r.label \o s[n]) = Len(r.label) + 1
          /\ DOMAIN (r.label \o s[n]) = 1..(Len(r.label) + 1)
          /\ \A k \in 1..Len(r.label) : (r.label \o s[n])[k] = r.label[k]
          /\ (r.label \o s[n])[Len(r.label) + 1] = s[n][1]
      <3>1. \A a, e \in Seq(Letters) : Len(e) <= 1 /\ e # <<>> =>
               /\ a \o e \in Seq(Letters) /\ Len(a \o e) = Len(a) + 1 /\ DOMAIN (a \o e) = 1..(Len(a) + 1)
               /\ \A k \in 1..Len(a) : (a \o e)[k] = a[k]
               /\ (a \o e)[Len(a) + 1] = e[1]
        BY OneMore
      <3> HIDE DEF new
      <3> QED BY <3>1, <2>0, <1>2, <1>6
    <2>2. new.done \in Seq(Seq(Letters)) /\ new.label \in Seq(Letters) /\ Len(new.done) = Ended(s, n + 1)
      BY <1>2, <1>3, <1>6, <2>1
    <2>3. IsRun(s, b, n + 1)
      BY <1>0, <1>1, <1>6 DEF IsRun
    <2>4. r.label \o s[n] = Text(s, b, n + 1)
      <3>1. Len(r.label) = n - b - 1
        BY <1>0, <1>1, <1>2 DEF Text
      <3> DEFINE text == r.label \o s[n]
      <3>2. Len(r.label) + 1 = n - b /\ n + 1 - b - 1 = n - b /\ n - b \in Nat
        BY <1>0, <3>1
      <3>3. DOMAIN text = 1..(n - b) /\ text \in Seq(Letters)
        BY <2>1, <3>2
      <3>4. ASSUME NEW k \in 1..(n - b)
            PROVE  text[k] = s[b + k][1]
        <4>1. CASE k = n - b
          <5>1. b + k = n
            BY <1>0, <4>1
          <5> QED BY <2>1, <3>2, <4>1, <5>1
        <4>2. CASE k # n - b
          <5>1. k \in 1..(n - b - 1)
            BY <1>0, <4>2
          <5>2. text[k] = r.label[k]
            BY <2>1, <3>1, <5>1
          <5> QED BY <1>1, <5>1, <5>2 DEF Text
        <4> QED BY <4>1, <4>2
      <3>5. text = [k \in 1..(n - b) |-> s[b + k][1]]
        <4> HIDE DEF text
        <4> QED BY <3>3, <3>4
      <3> QED BY <3>2, <3>5 DEF Text
    <2>5. \A k \in 1..Len(new.done) :
            \E bb \in 0..n, e \in 1..n :
             IsRun(s, bb, e) /\ s[e] = <<>> /\ Ended(s, e) = k - 1 /\ new.done[k] = Text(s, bb, e)
      BY <1>4
    <2>6. HasRead(s, n, new)
      <3>1. b \in 0..n /\ IsRun(s, b, n + 1) /\ new.label = Text(s, b, n + 1)
        BY <1>0, <2>3, <2>4
      <3> HIDE DEF new
      <3> QED BY <2>2, <2>5, <3>1 DEF HasRead
    <2> QED BY <2>6, <1>6
  <1> QED BY <1>5, <1>6

LEMMA ReadingHolds ==
    ASSUME NEW s \in Seq(Seq(Letters)), \A i \in 1..Len(s) : Len(s[i]) <= 1
    PROVE  \A n \in 0..Len(s) : HasRead(s, n, Property!Reading(s)[n])
  <1> DEFINE f == Property!Reading(s)
  <1>0. Len(s) \in Nat
    OBVIOUS
  <1>1. \A n \in 0..Len(s) :
           f[n] = IF n = 0 THEN [done |-> <<>>, label |-> <<>>]
                  ELSE IF s[n] = <<>> THEN [done |-> Append(f[n - 1].done, f[n - 1].label), label |-> <<>>]
                  ELSE [done |-> f[n - 1].done, label |-> f[n - 1].label \o s[n]]
    <2>1. f = [n \in 0..Len(s) |->
                 IF n = 0 THEN [done |-> <<>>, label |-> <<>>]
                 ELSE IF s[n] = <<>> THEN [done |-> Append(f[n - 1].done, f[n - 1].label), label |-> <<>>]
                 ELSE [done |-> f[n - 1].done, label |-> f[n - 1].label \o s[n]]]
      BY ReadingIs
    <2> HIDE DEF f
    <2> QED BY <2>1
  <1> HIDE DEF f
  <1>2. HasRead(s, 0, [done |-> <<>>, label |-> <<>>])
    <2>1. Ended(s, 0 + 1) = 0
      BY EndedCounts
    <2>2. 0 \in 0..0 /\ IsRun(s, 0, 0 + 1) /\ <<>> = Text(s, 0, 0 + 1)
      BY <1>0 DEF IsRun, Text
    <2>3. <<>> \in Seq(Seq(Letters)) /\ <<>> \in Seq(Letters) /\ Len(<<>>) = 0
      OBVIOUS
    <2> QED BY <2>1, <2>2, <2>3 DEF HasRead
  <1> DEFINE Missing == {n \in Nat : n <= Len(s) /\ ~HasRead(s, n, f[n])}
  <1> SUFFICES ASSUME NEW m \in Missing, \A k \in Missing : m <= k
               PROVE FALSE
    <2>1. Missing \subseteq Nat
      OBVIOUS
    <2>2. Missing = {}
      BY <2>1, Least
    <2>3. \A n \in 0..Len(s) : HasRead(s, n, f[n])
      <3> SUFFICES ASSUME NEW n \in 0..Len(s) PROVE HasRead(s, n, f[n])
        OBVIOUS
      <3>1. n \in Nat /\ n <= Len(s)
        BY <1>0
      <3>2. n \notin Missing
        <4> HIDE DEF Missing
        <4> QED BY <2>2
      <3> QED BY <3>1, <3>2
    <2> QED BY <2>3 DEF f
  <1>3. m # 0
    <2>1. 0 \in 0..Len(s)
      BY <1>0
    <2>2. f[0] = [done |-> <<>>, label |-> <<>>]
      BY <1>1, <2>1
    <2>3. HasRead(s, 0, f[0])
      BY <1>2, <2>2
    <2> QED BY <2>3
  <1>4. m \in 1..Len(s) /\ m - 1 \in 0..Len(s) /\ m \in 0..Len(s)
    BY <1>0, <1>3
  <1>5. HasRead(s, m - 1, f[m - 1])
    <2>1. m - 1 \notin Missing
      BY <1>0, <1>3
    <2> QED BY <2>1, <1>0, <1>3, <1>4
  <1>6. HasRead(s, m, IF s[m] = <<>> THEN [done |-> Append(f[m - 1].done, f[m - 1].label), label |-> <<>>]
                      ELSE [done |-> f[m - 1].done, label |-> f[m - 1].label \o s[m]])
    BY <1>4, <1>5, ReadsOn
  <1>7. f[m] = IF s[m] = <<>> THEN [done |-> Append(f[m - 1].done, f[m - 1].label), label |-> <<>>]
               ELSE [done |-> f[m - 1].done, label |-> f[m - 1].label \o s[m]]
    BY <1>1, <1>3, <1>4
  <1> QED BY <1>6, <1>7

\* The options of a packed table, each the letters of a run that so many ends come before.
LEMMA OptionsAreRuns ==
    ASSUME NEW v, NEW s \in Seq(Seq(Letters)), v.values = s, v.bytes = 1, s # <<>>,
           \A i \in 1..Len(s) : Len(s[i]) <= 1
    PROVE  /\ Property!Options(v) \in Seq(Seq(Letters)) /\ Len(Property!Options(v)) = Property!Listed(v)
           /\ \A k \in 1..Len(Property!Options(v)) :
                \E b \in 0..Len(s), e \in 1..(Len(s) + 1) :
                   /\ IsRun(s, b, e) /\ (e <= Len(s) => s[e] = <<>>)
                   /\ Ended(s, e) = k - 1 /\ Property!Options(v)[k] = Text(s, b, e)
  <1> DEFINE all == Property!Reading(s)[Len(s)]
  <1>0. Len(s) \in Nat /\ Len(s) # 0
    OBVIOUS
  <1>1. HasRead(s, Len(s), all)
    BY <1>0, ReadingHolds
  <1>2. Property!Options(v) = IF all.label = <<>> THEN all.done ELSE Append(all.done, all.label)
    BY DEF Property!Options
  <1> HIDE DEF all
  <1>3. all.done \in Seq(Seq(Letters)) /\ all.label \in Seq(Letters) /\ Len(all.done) = Ended(s, Len(s) + 1)
    BY <1>1 DEF HasRead
  <1>4. PICK b \in 0..Len(s) : IsRun(s, b, Len(s) + 1) /\ all.label = Text(s, b, Len(s) + 1)
    BY <1>1 DEF HasRead
  <1>5. Property!Nuls(v) = EndsBefore(s, Len(s) + 1)
    BY <1>0 DEF Property!Nuls, EndsBefore
  <1>6. Property!Listed(v) = Ended(s, Len(s) + 1) + (IF s[Len(s)] = <<>> THEN 0 ELSE 1)
    <2>1. Len(s) \in Property!Nuls(v) <=> s[Len(s)] = <<>>
      BY <1>0 DEF Property!Nuls
    <2>2. Property!Listed(v) = Cardinality(Property!Nuls(v)) + (IF Len(s) \in Property!Nuls(v) THEN 0 ELSE 1)
      <3>1. Len(v.values) = Len(s)
        OBVIOUS
      <3> QED BY <3>1, PropertyCounts, Zenon DEF Property!Listed
    <2>3. Cardinality(Property!Nuls(v)) = Ended(s, Len(s) + 1)
      BY <1>5 DEF Ended
    <2> QED BY <2>1, <2>2, <2>3
  <1>7. \A k \in 1..Len(all.done) :
          \E c \in 0..Len(s), e \in 1..(Len(s) + 1) :
             IsRun(s, c, e) /\ (e <= Len(s) => s[e] = <<>>) /\ Ended(s, e) = k - 1 /\ all.done[k] = Text(s, c, e)
    <2>1. \A k \in 1..Len(all.done) :
          \E c \in 0..Len(s), e \in 1..Len(s) :
             IsRun(s, c, e) /\ s[e] = <<>> /\ Ended(s, e) = k - 1 /\ all.done[k] = Text(s, c, e)
      BY <1>1 DEF HasRead
    <2>2. 1..Len(s) \subseteq 1..(Len(s) + 1)
      BY <1>0
    <2> QED BY <2>1, <2>2
  <1>8. CASE all.label = <<>>
    <2>1. b = Len(s)
      <3>1. Len(Text(s, b, Len(s) + 1)) = Len(s) - b
        BY <1>0 DEF Text
      <3>2. Len(Text(s, b, Len(s) + 1)) = 0
        BY <1>4, <1>8
      <3>3. Len(s) - b = 0
        BY <3>1, <3>2
      <3> QED BY <1>0, <3>3
    <2>2. s[Len(s)] = <<>>
      BY <1>0, <1>4, <2>1 DEF IsRun
    <2> QED BY <1>2, <1>3, <1>6, <1>7, <1>8, <2>2, EndedCounts
  <1>9. CASE all.label # <<>>
    <2>1. b # Len(s)
      BY <1>0, <1>4, <1>9 DEF Text
    <2>2. s[Len(s)] # <<>>
      BY <1>0, <1>4, <2>1 DEF IsRun
    <2> DEFINE o == Append(all.done, all.label)
    <2>3. o \in Seq(Seq(Letters)) /\ Len(o) = Len(all.done) + 1 /\ Len(all.done) \in Nat
      BY <1>3
    <2>4. o[Len(all.done) + 1] = all.label /\ \A k \in 1..Len(all.done) : o[k] = all.done[k]
      BY <1>3
    <2> HIDE DEF o
    <2>5. ASSUME NEW k \in 1..Len(o)
          PROVE  \E c \in 0..Len(s), e \in 1..(Len(s) + 1) :
             IsRun(s, c, e) /\ (e <= Len(s) => s[e] = <<>>) /\ Ended(s, e) = k - 1 /\ o[k] = Text(s, c, e)
      <3>1. CASE k = Len(all.done) + 1
        <4>1. Len(s) + 1 \in 1..(Len(s) + 1) /\ ~(Len(s) + 1 <= Len(s)) /\ Ended(s, Len(s) + 1) = k - 1
          BY <1>0, <1>3, <2>3, <3>1
        <4> QED BY <1>4, <2>4, <3>1, <4>1
      <3>2. CASE k # Len(all.done) + 1
        <4>1. k \in 1..Len(all.done)
          BY <2>3, <3>2
        <4> QED BY <1>7, <2>4, <4>1
      <3> QED BY <3>1, <3>2
    <2>6. Property!Options(v) = o
      BY <1>2, <1>9 DEF o
    <2>7. Len(o) = Property!Listed(v)
      BY <1>3, <1>6, <2>2, <2>3
    <2> QED BY <2>3, <2>5, <2>6, <2>7
  <1> QED BY <1>8, <1>9

\* What the reference says of an index is the run that so many ends come before.
LEMMA LabelIsRun ==
    ASSUME NEW v, NEW s \in Seq(Seq(Letters)), v.values = s,
           v.index \in Nat, Property!Listed(v) \in Nat, v.index < Property!Listed(v),
           NEW b \in 0..Len(s), NEW e \in 1..(Len(s) + 1),
           IsRun(s, b, e), e <= Len(s) => s[e] = <<>>, Ended(s, e) = v.index
    PROVE  Property!Label(v) = Text(s, b, e)
  <1>0. Len(s) \in Nat /\ b < e /\ DOMAIN s = 1..Len(s)
    BY DEF IsRun
  <1>1. Property!Nuls(v) = {i \in 1..Len(s) : s[i] = <<>>}
    BY <1>0 DEF Property!Nuls
  <1>2. \A i \in 1..Len(s) : {j \in Property!Nuls(v) : j < i} = EndsBefore(s, i)
    BY <1>1 DEF EndsBefore
  <1>3. \A i \in 1..Len(s) : Property!Cardinality({j \in Property!Nuls(v) : j < i}) = Ended(s, i)
    BY <1>2, PropertyCounts DEF Ended
  <1>4. Property!Written(v) = {i \in 1..Len(s) : s[i] # <<>> /\ Ended(s, i) = v.index}
    <2>1. DOMAIN v.values = 1..Len(s)
      BY <1>0
    <2>2. Property!Written(v) = {i \in (1..Len(s)) \ Property!Nuls(v) : Ended(s, i) = v.index}
      BY <1>3, <2>1 DEF Property!Written
    <2> QED BY <1>1, <2>2
  <1>5. Property!Written(v) = (b + 1)..(e - 1)
    <2>1. ASSUME NEW i \in (b + 1)..(e - 1)
          PROVE  i \in 1..Len(s) /\ s[i] # <<>> /\ Ended(s, i) = v.index
      <3>1. i \in 1..Len(s) /\ s[i] # <<>>
        BY <1>0 DEF IsRun
      <3>2. Ended(s, i) = Ended(s, e)
        <4> DEFINE same == {j \in Nat : i + j <= e /\ Ended(s, i + j) # Ended(s, i)}
        <4>1. same = {}
          <5> SUFFICES ASSUME same # {} PROVE FALSE
            OBVIOUS
          <5>1. same \subseteq Nat
            OBVIOUS
          <5>2. PICK m \in same : \A k \in same : m <= k
            BY <5>1, Least
          <5>3. m # 0
            BY <3>1
          <5>4. m - 1 \in Nat /\ m - 1 \notin same /\ i + (m - 1) <= e
            <6>1. m \in Nat /\ i + m <= e /\ i \in Int /\ e \in Int
              BY <1>0
            <6>2. m - 1 \in Nat /\ i + (m - 1) <= e /\ ~(m <= m - 1)
              BY <6>1, <5>3
            <6> HIDE DEF same
            <6> QED BY <6>2, <5>2
          <5>5. Ended(s, i + (m - 1)) = Ended(s, i)
            BY <5>4
          <5>6. i + (m - 1) \in (b + 1)..(e - 1) /\ i + (m - 1) \in 1..Len(s) /\ i + (m - 1) + 1 = i + m
            BY <1>0, <5>3, <3>1
          <5>7. s[i + (m - 1)] # <<>>
            BY <5>6 DEF IsRun
          <5>8. Ended(s, i + (m - 1) + 1) = Ended(s, i + (m - 1))
            BY <5>6, <5>7, EndedCounts
          <5> QED BY <5>5, <5>6, <5>8
        <4>2. e - i \in Nat /\ i + (e - i) = e
          BY <1>0
        <4>3. e - i \notin same
          <5> HIDE DEF same
          <5> QED BY <4>1
        <4>4. i + (e - i) <= e
          BY <4>2, <1>0
        <4>5. Ended(s, i + (e - i)) = Ended(s, i)
          BY <4>2, <4>3, <4>4
        <4> QED BY <4>2, <4>5
      <3> QED BY <3>1, <3>2
    <2>2. ASSUME NEW i \in 1..Len(s), s[i] # <<>>, Ended(s, i) = v.index
          PROVE  i \in (b + 1)..(e - 1)
      <3>1. i > b
        <4> SUFFICES ASSUME i <= b PROVE FALSE
          BY <1>0
        <4>1. s[b] = <<>> /\ b \in 1..Len(s)
          BY <1>0 DEF IsRun
        <4>2. i \in 1..(Len(s) + 1)
          BY <1>0
        <4>3. Ended(s, i) < Ended(s, e)
          BY <1>0, <4>1, <4>2, EndedCounts
        <4> QED BY <2>2, <4>3
      <3>2. i # e
        BY <1>0, <2>2
      <3>3. ~(e < i)
        <4> SUFFICES ASSUME e < i PROVE FALSE
          BY <1>0
        <4>1. e \in 1..Len(s) /\ s[e] = <<>> /\ i \in 1..(Len(s) + 1) /\ e <= e
          BY <1>0
        <4>2. Ended(s, e) < Ended(s, i)
          BY <4>1, EndedCounts
        <4> QED BY <2>2, <4>2
      <3> QED BY <1>0, <3>1, <3>2, <3>3
    <2> QED BY <1>4, <2>1, <2>2
  <1>6. Property!Cardinality(Property!Written(v)) = e - b - 1
    <2>1. Cardinality((b + 1)..(e - 1)) = IF b + 1 > e - 1 THEN 0 ELSE (e - 1) - (b + 1) + 1
      <3>1. b + 1 \in Int /\ e - 1 \in Int
        BY <1>0
      <3> QED BY <3>1, FS_Interval
    <2> QED BY <1>0, <1>5, <2>1, PropertyCounts
  <1> DEFINE W == Property!Written(v)
             First == CHOOSE i \in W : \A j \in W : i <= j
  <1>7. b + 1 <= e - 1 => First = b + 1
    <2> SUFFICES ASSUME b + 1 <= e - 1 PROVE First = b + 1
      OBVIOUS
    <2>1. b + 1 \in W /\ \A j \in W : b + 1 <= j
      BY <1>0, <1>5
    <2>2. First \in W /\ \A j \in W : First <= j
      <3> HIDE DEF W
      <3> QED BY <2>1
    <2>3. First <= b + 1 /\ b + 1 <= First /\ First \in Int
      BY <2>1, <2>2, <1>0, <1>5
    <2> QED BY <2>3, <1>0
  <1>8. Property!Label(v) = [k \in 1..(e - b - 1) |-> s[First + k - 1][1]]
    <2>1. ~(v.index >= Property!Listed(v))
      OBVIOUS
    <2> QED BY <1>6, <2>1 DEF Property!Label
  <1> HIDE DEF First
  <1>9. ASSUME NEW k \in 1..(e - b - 1)
        PROVE  First + k - 1 = b + k
    BY <1>0, <1>7
  <1> QED BY <1>8, <1>9 DEF Text

\* The loop that puts the labels of a packed table together gives the labels that its bytes spell, in
\* their order, for tables of any length but none: no label is lost, split or moved
\* (packed_string_options).
THEOREM OptionsAreTheLabels ==
    ASSUME NEW v \in Property!Enums, Property!IsPacked(v), Property!IsDecoded(v), v.values # <<>>
    PROVE  /\ Len(Property!Options(v)) = Property!Listed(v) /\ Property!Options(v) \in Seq(Seq(Letters))
           /\ v.index \in 0..(Property!Listed(v) - 1) =>
                Property!Label(v) = Property!Options(v)[v.index + 1]
  <1> DEFINE s == v.values
  <1>1. s \in Seq(Seq(Letters)) /\ v.bytes = 1 /\ s # <<>>
    BY DEF Property!IsPacked, Property!IsTable, Property!Enums
  <1>2. \A i \in 1..Len(s) : Len(s[i]) <= 1
    BY <1>1 DEF Property!IsDecoded
  <1> HIDE DEF s
  <1>3. v.values = s
    BY DEF s
  <1>4. /\ Property!Options(v) \in Seq(Seq(Letters)) /\ Len(Property!Options(v)) = Property!Listed(v)
        /\ \A k \in 1..Len(Property!Options(v)) :
                \E b \in 0..Len(s), e \in 1..(Len(s) + 1) :
                   /\ IsRun(s, b, e) /\ (e <= Len(s) => s[e] = <<>>)
                   /\ Ended(s, e) = k - 1 /\ Property!Options(v)[k] = Text(s, b, e)
    <2> DEFINE Runs(w, t) ==
             /\ Property!Options(w) \in Seq(Seq(Letters)) /\ Len(Property!Options(w)) = Property!Listed(w)
             /\ \A k \in 1..Len(Property!Options(w)) :
                \E b \in 0..Len(t), e \in 1..(Len(t) + 1) :
                   /\ IsRun(t, b, e) /\ (e <= Len(t) => t[e] = <<>>)
                   /\ Ended(t, e) = k - 1 /\ Property!Options(w)[k] = Text(t, b, e)
               Short(t) == \A i \in 1..Len(t) : Len(t[i]) <= 1
    <2>1. \A w : \A t \in Seq(Seq(Letters)) :
             w.values = t /\ w.bytes = 1 /\ t # <<>> /\ Short(t) => Runs(w, t)
      BY OptionsAreRuns
    <2>2. Short(s)
      BY <1>2
    <2> HIDE DEF Runs, Short
    <2>3. Runs(v, s)
      BY <1>1, <1>3, <2>1, <2>2
    <2> QED BY <2>3 DEF Runs
  <1>5. ASSUME v.index \in 0..(Property!Listed(v) - 1)
        PROVE  Property!Label(v) = Property!Options(v)[v.index + 1]
    <2>1. Property!Listed(v) \in Nat
      <3>1. Len(Property!Options(v)) \in Nat
        BY <1>4
      <3> QED BY <1>4, <3>1
    <2>2. v.index \in Nat /\ v.index < Property!Listed(v) /\ v.index + 1 \in 1..Len(Property!Options(v))
      BY <1>4, <1>5, <2>1
    <2>3. PICK b \in 0..Len(s), e \in 1..(Len(s) + 1) :
             /\ IsRun(s, b, e) /\ (e <= Len(s) => s[e] = <<>>)
             /\ Ended(s, e) = v.index + 1 - 1 /\ Property!Options(v)[v.index + 1] = Text(s, b, e)
      BY <1>4, <2>2
    <2>4. Ended(s, e) = v.index
      BY <2>2, <2>3
    <2> QED BY <1>1, <1>3, <2>1, <2>2, <2>3, <2>4, LabelIsRun
  <1> QED BY <1>4, <1>5

\* What a value means, by the names its options go by.
Named(v, byLabel) ==
    IF v.index # None /\ v.index < Len(Property!Names(v, byLabel))
    THEN Property!Names(v, byLabel)[v.index + 1] ELSE None

LEMMA NamesAreMeanings ==
    ASSUME NEW v \in Property!Enums, NEW byLabel \in BOOLEAN, Property!IsDecoded(v),
           v.values # None, v.values # <<>>,
           byLabel => Property!IsSound(v) /\ v.bytes > 0 /\ (Property!IsLabel(v) \/ v.type = "none"),
           ~byLabel => ~Property!IsPacked(v)
    PROVE  /\ Property!Names(v, byLabel) \in Seq(Seq(Letters))
           /\ Property!Chosen(v) = Named(v, byLabel)
  <1>1. v.values \in Seq(Seq(Letters)) /\ v.bytes \in Nat /\ v.index \in Nat \cup {None}
    BY DEF Property!Enums
  <1>2. CASE byLabel /\ v.bytes = 1
    <2>1. Property!IsLabel(v) /\ Property!IsPacked(v)
      BY <1>2 DEF Property!IsSound, Property!IsPacked, Property!IsTable, Property!IsEnum, Property!Enums, Property!IsLabel
    <2>2. /\ Len(Property!Options(v)) = Property!Listed(v) /\ Property!Options(v) \in Seq(Seq(Letters))
          /\ v.index \in 0..(Property!Listed(v) - 1) => Property!Label(v) = Property!Options(v)[v.index + 1]
      BY <2>1, OptionsAreTheLabels
    <2>3. Property!Names(v, byLabel) = Property!Options(v)
      BY <1>2 DEF Property!Names
    <2>4. Property!Listed(v) \in Nat
      BY <2>2
    <2>5. CASE v.index = None
      BY <1>1, <2>2, <2>3, <2>5 DEF Property!Chosen, Named
    <2>6. CASE v.index # None
      <3>1. v.index \in Nat
        BY <1>1, <2>6
      <3>2. Property!Chosen(v) = Property!Label(v)
        BY <1>2, <2>1, <2>6 DEF Property!Chosen
      <3>3. CASE v.index < Property!Listed(v)
        BY <2>2, <2>3, <2>4, <2>6, <3>1, <3>2, <3>3 DEF Named
      <3>4. CASE ~(v.index < Property!Listed(v))
        <4>1. v.index >= Property!Listed(v)
          BY <2>4, <3>1, <3>4
        <4>2. Property!Label(v) = None
          BY <4>1 DEF Property!Label
        <4> QED BY <2>2, <2>3, <3>2, <3>4, <4>2 DEF Named
      <3> QED BY <3>3, <3>4, <2>2, <2>3
    <2> QED BY <2>5, <2>6
  <1>3. CASE ~(byLabel /\ v.bytes = 1)
    <2>1. Property!Names(v, byLabel) = v.values
      BY <1>1, <1>3 DEF Property!Names, Property!Options
    <2>2. ~(Property!IsLabel(v) /\ v.bytes = 1)
      BY <1>3 DEF Property!IsPacked, Property!IsTable, Property!IsEnum, Property!Enums
    <2> QED BY <1>1, <2>1, <2>2 DEF Property!Chosen, Named
  <1> QED BY <1>2, <1>3

LEMMA OnePlace ==
    ASSUME NEW o \in Seq(Seq(Letters)), NEW name, Property!Cardinality(Property!Places(o, name)) = 1
    PROVE  \E p \in 1..Len(o) : Property!Places(o, name) = {p} /\ o[p] = name
  <1>1. Property!Places(o, name) \in SUBSET (1..Len(o)) /\ Len(o) \in Nat
    BY DEF Property!Places
  <1>2. IsFiniteSet(1..Len(o))
    BY <1>1, FS_Interval
  <1>3. IsFiniteSet(Property!Places(o, name))
    BY <1>1, <1>2, FS_Subset
  <1>4. Cardinality(Property!Places(o, name)) = 1
    BY PropertyCounts
  <1>5. PICK p : Property!Places(o, name) = {p}
    BY <1>3, <1>4, FS_Singleton
  <1>6. p \in 1..Len(o) /\ o[p] = name
    BY <1>1, <1>5 DEF Property!Places
  <1> QED BY <1>5, <1>6

LEMMA NoOptions ==
    ASSUME NEW v, v.values = <<>>, v.bytes \in Nat
    PROVE  Len(Property!Options(v)) = 0 /\ Property!Options(v) \in Seq(Seq(Letters))
  <1> DEFINE all == Property!Reading(<<>>)[0]
  <1>1. HasRead(<<>>, 0, all)
    <2>1. <<>> \in Seq(Seq(Letters)) /\ Len(<<>>) = 0 /\ 0 \in 0..0
      OBVIOUS
    <2>2. \A s \in Seq(Seq(Letters)) : Len(s) = 0 =>
             \A n \in 0..Len(s) : HasRead(s, n, Property!Reading(s)[n])
      <3>1. \A s \in Seq(Seq(Letters)) : Len(s) = 0 => \A i \in 1..Len(s) : Len(s[i]) <= 1
        OBVIOUS
      <3> QED BY <3>1, ReadingHolds
    <2> QED BY <2>1, <2>2
  <1>2. Ended(<<>>, 0 + 1) = 0
    <2>1. <<>> \in Seq(Seq(Letters)) /\ 0 + 1 = 1
      OBVIOUS
    <2>2. \A s \in Seq(Seq(Letters)) : Ended(s, 1) = 0
      BY EndedCounts
    <2> QED BY <2>1, <2>2
  <1> HIDE DEF all
  <1>3. all.done \in Seq(Seq(Letters)) /\ Len(all.done) = 0
    BY <1>1, <1>2 DEF HasRead
  <1>4. all.label = <<>>
    <2>1. PICK b \in 0..0 : all.label = Text(<<>>, b, 0 + 1)
      BY <1>1 DEF HasRead
    <2> QED BY <2>1 DEF Text
  <1>5. Property!Options(v) = IF v.bytes > 1 THEN <<>> ELSE all.done
    BY <1>4 DEF Property!Options, all
  <1> QED BY <1>3, <1>5

\* An option that is carried over means the same, and another index of the live table does not.
LEMMA EnumsKeepMeaning ==
    ASSUME NEW source, NEW live \in Answered, Property!IsGenuine(source), Property!IsDecoded(live),
           Property!IsEnum(source), Property!EnumFits(source, live)
    PROVE  LET out == Property!EnumOut(source, live) IN
           /\ Property!IsEnum(live) /\ Property!IsEnum(out)
           /\ Property!Chosen(out) = Property!Chosen(source)
           /\ Property!Chosen(live) = Property!Chosen(out) <=> live.index = out.index
  <1> DEFINE byLabel == Property!IsLabel(source)
             mine == Property!Names(source, byLabel)
             theirs == Property!Names(live, byLabel)
             name == mine[source.index + 1]
             out == Property!EnumOut(source, live)
  <1>1. source \in Property!Enums /\ live \in Property!Enums /\ byLabel \in BOOLEAN
    BY DEF Property!EnumFits, Property!IsGenuine, Property!IsDecoded, Property!Values, Property!IsEnum, Property!Scales,
           Property!Plain, Property!IsLabel
  <1>2. /\ Property!IsSound(source) /\ Property!IsSound(live) /\ source.index \in 0..(Len(source.values) - 1)
        /\ source.index < Len(mine)
        /\ Property!Cardinality(Property!Places(mine, name)) = 1
        /\ Property!Cardinality(Property!Places(theirs, name)) = 1
    BY DEF Property!EnumFits
  <1>3. source.values \in Seq(Seq(Letters)) /\ live.values \in Seq(Seq(Letters)) /\ source.values # <<>>
        /\ source.values # None /\ live.values # None /\ source.index \in Nat
    BY <1>1, <1>2 DEF Property!Enums, Property!IsSound
  <1>4. byLabel => source.bytes > 0 /\ live.bytes > 0 /\ (Property!IsLabel(live) \/ live.type = "none")
    BY <1>1 DEF Property!EnumFits, Property!IsLabel
  <1>5. ~byLabel => ~Property!IsPacked(source)
    BY DEF Property!IsPacked
  <1>6. mine \in Seq(Seq(Letters)) /\ Property!Chosen(source) = Named(source, byLabel)
    BY <1>1, <1>2, <1>3, <1>4, <1>5, NamesAreMeanings DEF Property!IsGenuine
  <1>7. Property!Chosen(source) = name /\ name \in Seq(Letters)
    <2>1. source.index # None /\ source.index + 1 \in 1..Len(mine)
      BY <1>2, <1>3, <1>6, PropertyAssumption
    <2> QED BY <1>2, <1>6, <2>1 DEF Named
  <1>8. live.values # <<>>
    <2> SUFFICES ASSUME live.values = <<>> PROVE FALSE
      OBVIOUS
    <2>1. theirs \in Seq(Seq(Letters)) /\ Len(theirs) = 0
      BY <1>1, <1>3, NoOptions DEF Property!Names, Property!Enums
    <2>2. PICK p \in 1..Len(theirs) : theirs[p] = name
      BY <1>2, <2>1, OnePlace
    <2> QED BY <2>1, <2>2
  <1>9. ~byLabel => ~Property!IsPacked(live)
    <2> SUFFICES ASSUME ~byLabel, Property!IsPacked(live) PROVE FALSE
      OBVIOUS
    <2>1. mine = source.values /\ theirs = live.values
      BY DEF Property!Names
    <2>2. Property!Places(live.values, name) # {}
      <3>1. \E p \in 1..Len(live.values) : Property!Places(live.values, name) = {p}
        BY <1>2, <1>3, <2>1, OnePlace
      <3> QED BY <3>1
    <2>3. name \in Property!Elements(live)
      BY <2>2 DEF Property!Places, Property!Elements
    <2>4. name \in Property!Elements(source)
      BY <1>2, <1>3, <2>1 DEF Property!Elements
    <2>5. source.type = "none"
      BY DEF Property!EnumFits, Property!IsPacked, Property!IsLabel
    <2>6. Property!IsUntyped(source)
      BY <1>2, <1>3, <2>5 DEF Property!IsUntyped, Property!IsTable
    <2> QED BY <2>3, <2>4, <2>6 DEF Property!IsGenuine
  <1>10. theirs \in Seq(Seq(Letters)) /\ Property!Chosen(live) = Named(live, byLabel)
    BY <1>1, <1>2, <1>3, <1>4, <1>8, <1>9, NamesAreMeanings
  <1>11. PICK p \in 1..Len(theirs) : Property!Places(theirs, name) = {p} /\ theirs[p] = name
    BY <1>2, <1>10, OnePlace
  <1>12. out = [live EXCEPT !.index = p - 1] /\ p - 1 \in Nat /\ p - 1 + 1 = p /\ p - 1 < Len(theirs)
    <2>1. out = [live EXCEPT !.index = (CHOOSE i \in Property!Places(theirs, name) : TRUE) - 1]
      BY DEF Property!EnumOut
    <2>2. (CHOOSE i \in Property!Places(theirs, name) : TRUE) = p
      BY <1>11
    <2>3. p \in Nat /\ p # 0 /\ p <= Len(theirs) /\ Len(theirs) \in Nat
      BY <1>10, <1>11
    <2> HIDE DEF theirs, out
    <2>4. p - 1 \in Nat /\ p - 1 + 1 = p /\ p - 1 < Len(theirs)
      BY <2>3
    <2> QED BY <2>1, <2>2, <2>4
  <1> HIDE DEF out, theirs, mine
  <1>13. /\ out \in Property!Enums /\ out.values = live.values /\ out.bytes = live.bytes /\ out.type = live.type
         /\ out.counted = live.counted /\ out.index = p - 1 /\ out.kind = "enum"
    BY <1>1, <1>12 DEF Property!Enums
  <1>14. Property!Names(out, byLabel) = theirs /\ Property!IsDecoded(out) /\ Property!IsSound(out)
         /\ (Property!IsLabel(out) <=> Property!IsLabel(live)) /\ (Property!IsPacked(out) <=> Property!IsPacked(live))
    BY <1>1, <1>2, <1>13 DEF theirs, Property!Names, Property!Options, Property!IsDecoded, Property!Values, Property!IsPacked,
       Property!IsTable, Property!IsEnum, Property!IsLabel, Property!IsRange, Property!IsSound, Property!Enums
  <1>15. Property!Chosen(out) = Named(out, byLabel)
    BY <1>1, <1>3, <1>4, <1>8, <1>9, <1>13, <1>14, NamesAreMeanings
  <1>16. Property!Chosen(out) = name
    <2>1. out.index # None /\ out.index < Len(theirs) /\ theirs[out.index + 1] = name
      BY <1>11, <1>12, <1>13, PropertyAssumption
    <2>2. Property!Names(out, byLabel) = theirs
      BY <1>14
    <2>3. Named(out, byLabel) = IF out.index # None /\ out.index < Len(Property!Names(out, byLabel))
                                THEN Property!Names(out, byLabel)[out.index + 1] ELSE None
      BY Zenon DEF Named
    <2> HIDE DEF byLabel, name
    <2> QED BY <1>15, <2>1, <2>2, <2>3
  <1>17. ASSUME live.index = p - 1
         PROVE  Property!Chosen(live) = Property!Chosen(out)
    <2>1. Named(out, byLabel) = Named(live, byLabel)
      BY <1>13, <1>14, <1>17, Zenon DEF Named, theirs
    <2> QED BY <2>1, <1>10, <1>15
  <1>18. ASSUME live.index # p - 1
         PROVE  Property!Chosen(live) # name
    <2>0. Named(live, byLabel) = IF live.index # None /\ live.index < Len(theirs) THEN theirs[live.index + 1] ELSE None
      BY Zenon DEF Named, theirs
    <2>1. name # None
      BY <1>7, PropertyAssumption
    <2>2. CASE live.index # None /\ live.index < Len(theirs)
      <3>1. live.index \in Nat
        BY <1>1, <2>2 DEF Property!Enums
      <3>2. live.index + 1 \in 1..Len(theirs) /\ live.index + 1 # p
        BY <1>10, <1>12, <1>18, <2>2, <3>1
      <3>3. theirs[live.index + 1] # name
        BY <1>10, <1>11, <3>2 DEF Property!Places
      <3> HIDE DEF byLabel, name
      <3> QED BY <1>10, <2>0, <2>2, <3>3
    <2>3. CASE ~(live.index # None /\ live.index < Len(theirs))
      <3> HIDE DEF byLabel, name
      <3> QED BY <1>10, <2>0, <2>1, <2>3
    <2> QED BY <2>2, <2>3
  <1>19. Property!IsEnum(live) /\ Property!IsEnum(out)
    BY <1>1, <1>13 DEF Property!IsEnum, Property!Enums
  <1>20. Property!Chosen(live) = Property!Chosen(out) <=> live.index = out.index
    <2> HIDE DEF name
    <2> QED BY <1>13, <1>16, <1>17, <1>18
  <1>21. Property!Chosen(out) = Property!Chosen(source)
    BY <1>7, <1>16
  <1> QED BY <1>19, <1>20, <1>21 DEF out

LEMMA DivIs ==
    ASSUME NEW x \in Int, NEW m \in Nat, m > 0, NEW q \in Int, m * q <= x, x < m * q + m
    PROVE  x \div m = q
  OBVIOUS

LEMMA DivBetween ==
    ASSUME NEW x \in Int, NEW m \in Nat, m > 0
    PROVE  x \div m \in Int /\ m * (x \div m) <= x /\ x < m * (x \div m) + m
  OBVIOUS

LEMMA Cancels ==
    ASSUME NEW a \in Int, NEW b \in Int, NEW m \in Nat, m > 0, m * a < m * b + m
    PROVE  a <= b
  <1> SUFFICES ASSUME a >= b + 1 PROVE FALSE
    OBVIOUS
  <1>1. m * a >= m * (b + 1)
    OBVIOUS
  <1>2. m * (b + 1) = m * b + m
    OBVIOUS
  <1> QED BY <1>1, <1>2

\* A stepped scale has a step that is not nothing, and its positions are whole steps from its lower end.
LEMMA ScaleFacts ==
    ASSUME NEW v \in Property!Scales, Property!IsStepped(v), Property!IsDecoded(v)
    PROVE  /\ v.lower \in Int /\ v.upper \in Int /\ v.steps \in Nat /\ v.steps >= 2 /\ v.steps - 1 \in Nat
           /\ Property!Step(v) \in Int /\ Property!Step(v) # 0
           /\ Property!Step(v) * (v.steps - 1) = v.upper - v.lower
           /\ v.index \in Nat \cup {None}
  <1>1. v.lower \in Int /\ v.upper \in Int /\ v.steps \in Nat \cup {None} /\ v.index \in Nat \cup {None} /\ v.kind = "range"
    BY DEF Property!Scales
  <1>2. v.steps \in Nat /\ v.steps >= 2 /\ v.lower # v.upper
    BY <1>1 DEF Property!IsStepped, Property!HasScale, Property!HasSpan
  <1>3. Property!Step(v) * (v.steps - 1) = v.upper - v.lower
    BY <1>1 DEF Property!IsDecoded, Property!IsRange
  <1>4. Property!Step(v) = (v.upper - v.lower) \div (v.steps - 1)
    BY DEF Property!Step
  <1>5. v.steps - 1 \in Nat /\ v.steps - 1 > 0 /\ v.upper - v.lower \in Int /\ v.upper - v.lower # 0
    BY <1>1, <1>2
  <1>6. Property!Step(v) \in Int
    BY <1>4, <1>5, DivBetween
  <1>7. Property!Step(v) # 0
    BY <1>3, <1>5, <1>6
  <1> QED BY <1>1, <1>2, <1>3, <1>5, <1>6, <1>7

LEMMA PositionIs ==
    ASSUME NEW v \in Property!Scales, Property!IsDecoded(v)
    PROVE  Property!Position(v) = Property!RangeValue(v)
  <1>1. v.steps \in Nat \cup {None} /\ v.index \in Nat \cup {None}
    BY DEF Property!Scales
  <1>2. CASE Property!IsStepped(v)
    <2> DEFINE n == v.steps - 1
               K == Property!Step(v)
    <2>1. /\ v.lower \in Int /\ v.upper \in Int /\ v.steps \in Nat /\ v.steps >= 2 /\ n \in Nat /\ n > 0
          /\ K \in Int /\ K * n = v.upper - v.lower
      BY <1>2, ScaleFacts
    <2>2. Property!Position(v) = IF v.index \in 0..n
                                 THEN (v.lower * (n - v.index) + v.upper * v.index) \div n ELSE None
      BY <1>2 DEF Property!Position, Property!IsStepped, Property!HasScale, Property!HasSpan
    <2>3. Property!RangeValue(v) = IF v.index # None /\ v.index < v.steps THEN v.lower + v.index * K ELSE None
      BY <1>2 DEF Property!RangeValue, Property!ValueAt
    <2> HIDE DEF n, K
    <2>4. v.index \in 0..n <=> v.index # None /\ v.index < v.steps
      BY <1>1, <2>1, PropertyAssumption DEF n
    <2>5. ASSUME NEW i \in 0..n, i = v.index
          PROVE  (v.lower * (n - i) + v.upper * i) \div n = v.lower + i * K
      <3>1. v.upper = v.lower + K * n
        BY <2>1
      <3>2. v.lower * (n - i) + (v.lower + K * n) * i = n * (v.lower + i * K)
        BY <2>1
      <3> DEFINE q == v.lower + i * K
      <3>3. q \in Int
        BY <2>1
      <3> HIDE DEF q
      <3>4. (n * q) \div n = q
        BY <2>1, <3>3
      <3> QED BY <3>1, <3>2, <3>4 DEF q
    <2> QED BY <2>2, <2>3, <2>4, <2>5
  <1>3. CASE ~Property!IsStepped(v)
    BY <1>1, <1>3 DEF Property!Position, Property!RangeValue, Property!IsStepped, Property!HasScale, Property!HasSpan
  <1> QED BY <1>2, <1>3

\* Two readings on one scale agree only if they are the same position.
LEMMA AgreeIsSame ==
    ASSUME NEW a, NEW b, Property!SameScale(a, b)
    PROVE  /\ Property!RangeValuesAgree(a, b) => Property!RangeValue(a) = Property!RangeValue(b)
           /\ Property!RangeValue(a) # None /\ Property!RangeValue(b) # None
              /\ Property!RangeValue(a) = Property!RangeValue(b) => Property!RangeValuesAgree(a, b)
  <1>1. /\ a \in Property!Scales /\ b \in Property!Scales /\ Property!IsDecoded(a)
        /\ a.lower = b.lower /\ a.upper = b.upper /\ a.steps = b.steps
    BY DEF Property!SameScale
  <1>2. (Property!IsStepped(a) <=> Property!IsStepped(b)) /\ Property!Step(a) = Property!Step(b)
    BY <1>1, Zenon DEF Property!IsStepped, Property!Step, Property!HasScale, Property!HasSpan
  <1> DEFINE x == Property!RangeValue(a)
             y == Property!RangeValue(b)
             stepped == {v \in {a, b} : Property!IsStepped(v)}
  <1>3. Property!RangeValuesAgree(a, b) <=>
          /\ x # None /\ y # None
          /\ \A v \in stepped : 2 * Property!Distance(x, y) < Property!Distance(Property!Step(v), 0)
          /\ stepped = {} => x = y
    BY DEF Property!RangeValuesAgree
  <1>4. CASE ~Property!IsStepped(a)
    <2>1. stepped = {}
      BY <1>2, <1>4
    <2> HIDE DEF x, y, stepped
    <2>2. Property!RangeValuesAgree(a, b) <=> x # None /\ y # None /\ x = y
      BY <1>3, <2>1
    <2> QED BY <2>2 DEF x, y
  <1>5. CASE Property!IsStepped(a)
    <2> DEFINE K == Property!Step(a)
    <2>1. stepped = {a, b}
      BY <1>2, <1>5
    <2>2. K \in Int /\ K # 0 /\ a.lower \in Int
      BY <1>1, <1>5, ScaleFacts
    <2>3. Property!RangeValuesAgree(a, b) <=>
            x # None /\ y # None /\ 2 * Property!Distance(x, y) < Property!Distance(K, 0)
      <3> HIDE DEF x, y, stepped
      <3> QED BY <1>2, <1>3, <2>1
    <2>4. a.index \in Nat \cup {None} /\ b.index \in Nat \cup {None}
      BY <1>1 DEF Property!Scales
    <2>5. x # None => a.index \in Nat /\ x = a.lower + a.index * K
      BY <1>5, <2>4 DEF Property!RangeValue, Property!ValueAt
    <2>6. y # None => b.index \in Nat /\ y = a.lower + b.index * K
      BY <1>1, <1>2, <1>5, <2>4 DEF Property!RangeValue, Property!ValueAt
    <2>7. ASSUME x # None, y # None
          PROVE  2 * Property!Distance(x, y) < Property!Distance(K, 0) <=> x = y
      <3> DEFINE i == a.index
                 j == b.index
      <3>1. i \in Nat /\ j \in Nat /\ x = a.lower + i * K /\ y = a.lower + j * K
        BY <2>5, <2>6, <2>7
      <3> HIDE DEF x, y, i, j, K
      <3>2. x - y = (i - j) * K /\ x \in Int /\ y \in Int
        BY <2>2, <3>1
      <3>3. CASE i = j
        BY <2>2, <3>1, <3>3 DEF Property!Distance
      <3>4. CASE i # j
        <4>1. K > 0 => (i - j) * K >= K \/ (i - j) * K <= -K
          BY <2>2, <3>1, <3>4
        <4>2. K < 0 => (i - j) * K >= -K \/ (i - j) * K <= K
          BY <2>2, <3>1, <3>4
        <4> QED BY <2>2, <3>2, <4>1, <4>2 DEF Property!Distance
      <3> QED BY <3>3, <3>4
    <2> HIDE DEF x, y, K
    <2>8. Property!RangeValuesAgree(a, b) <=> x # None /\ y # None /\ x = y
      BY <2>3, <2>7
    <2> QED BY <2>8 DEF x, y
  <1> QED BY <1>4, <1>5

\* The position nearest to a position is itself, and the one nearest to a number between the ends is
\* one of the scale.
LEMMA NearestIs ==
    ASSUME NEW v \in Property!Scales, Property!IsStepped(v), Property!IsDecoded(v)
    PROVE  /\ \A i \in 0..(v.steps - 1) :
                /\ Property!ValueAt(v, i) \in Property!Lowest(v)..Property!Highest(v)
                /\ Property!Nearest(Property!ValueAt(v, i), v) = i
           /\ \A x \in Property!Lowest(v)..Property!Highest(v) : Property!Nearest(x, v) \in 0..(v.steps - 1)
  <1> DEFINE n == v.steps - 1
             K == Property!Step(v)
             L == v.lower
             U == v.upper
             d == Property!Distance(K, 0)
  <1>1. L \in Int /\ U \in Int /\ v.steps \in Nat /\ n \in Nat /\ n > 0 /\ K \in Int /\ K # 0 /\ K * n = U - L
    BY ScaleFacts
  <1>2. /\ \A x : Property!Nearest(x, v) = (2 * Property!Distance(x, L) + d) \div (2 * d)
        /\ \A i : Property!ValueAt(v, i) = L + i * K
        /\ Property!Lowest(v) = (IF L < U THEN L ELSE U)
        /\ Property!Highest(v) = (IF L < U THEN U ELSE L)
    BY DEF Property!Nearest, Property!ValueAt, Property!Lowest, Property!Highest
  <1>3. d = IF K > 0 THEN K ELSE -K
    BY <1>1 DEF Property!Distance
  <1> HIDE DEF n, K, L, U, d
  <1>4. d \in Nat /\ d > 0 /\ 2 * d \in Nat /\ 2 * d > 0
    BY <1>1, <1>3
  <1>5. (K > 0 => L < U) /\ (K < 0 => U < L)
    <2>1. K > 0 => K * n > 0
      BY <1>1
    <2>2. K < 0 => K * n < 0
      BY <1>1
    <2> QED BY <1>1, <2>1, <2>2
  <1>6. ASSUME NEW i \in 0..n
        PROVE  /\ L + i * K \in Property!Lowest(v)..Property!Highest(v)
               /\ (2 * Property!Distance(L + i * K, L) + d) \div (2 * d) = i
    <2>1. i * K \in Int /\ i \in Nat /\ i <= n
      BY <1>1
    <2>2. CASE K > 0
      <3>1. i * K >= 0 /\ i * K <= K * n
        BY <1>1, <2>1, <2>2
      <3>2. Property!Distance(L + i * K, L) = i * d
        BY <1>1, <1>3, <2>1, <2>2, <3>1 DEF Property!Distance
      <3>3. (2 * d) * i <= 2 * (i * d) + d /\ 2 * (i * d) + d < (2 * d) * i + 2 * d
        BY <1>4, <2>1
      <3>4. (2 * (i * d) + d) \div (2 * d) = i
        BY <1>4, <2>1, <3>3, DivIs
      <3>5. L + i * K \in L..U
        BY <1>1, <2>1, <3>1
      <3> QED BY <1>2, <1>5, <2>2, <3>2, <3>4, <3>5
    <2>3. CASE K < 0
      <3>1. i * K <= 0 /\ i * K >= K * n
        BY <1>1, <2>1, <2>3
      <3>2. Property!Distance(L + i * K, L) = i * d
        BY <1>1, <1>3, <2>1, <2>3, <3>1 DEF Property!Distance
      <3>3. (2 * d) * i <= 2 * (i * d) + d /\ 2 * (i * d) + d < (2 * d) * i + 2 * d
        BY <1>4, <2>1
      <3>4. (2 * (i * d) + d) \div (2 * d) = i
        BY <1>4, <2>1, <3>3, DivIs
      <3>5. L + i * K \in U..L /\ ~(L < U)
        BY <1>1, <1>5, <2>1, <2>3, <3>1
      <3> QED BY <1>2, <3>2, <3>4, <3>5
    <2> QED BY <1>1, <2>2, <2>3
  <1>7. ASSUME NEW x \in Property!Lowest(v)..Property!Highest(v)
        PROVE  (2 * Property!Distance(x, L) + d) \div (2 * d) \in 0..n
    <2> DEFINE D == Property!Distance(x, L)
               q == (2 * D + d) \div (2 * d)
    <2>1. x \in Int /\ D \in Nat /\ D <= d * n
      <3>1. CASE K > 0
        <4>1. x >= L /\ x <= U /\ x \in Int /\ U - L = d * n
          BY <1>1, <1>2, <1>3, <1>5, <3>1
        <4> QED BY <1>1, <4>1 DEF Property!Distance
      <3>2. CASE K < 0
        <4>1. x >= U /\ x <= L /\ x \in Int /\ L - U = d * n
          BY <1>1, <1>2, <1>3, <1>5, <3>2
        <4> QED BY <1>1, <4>1 DEF Property!Distance
      <3> QED BY <1>1, <3>1, <3>2
    <2> HIDE DEF D
    <2>2. 2 * D + d \in Int /\ q \in Int /\ (2 * d) * q <= 2 * D + d /\ 2 * D + d < (2 * d) * q + 2 * d
      <3>1. 2 * D + d \in Int
        BY <1>4, <2>1
      <3> QED BY <1>4, <3>1, DivBetween
    <2> HIDE DEF q
    <2>3. (2 * d) * q < (2 * d) * n + 2 * d
      <3>1. 2 * D + d < 2 * (d * n) + 2 * d
        BY <1>1, <1>4, <2>1
      <3>2. 2 * (d * n) = (2 * d) * n /\ 2 * (d * n) \in Int /\ (2 * d) * q \in Int
        BY <1>1, <1>4, <2>2
      <3> QED BY <1>4, <2>1, <2>2, <3>1, <3>2
    <2>4. q <= n
      BY <1>1, <1>4, <2>2, <2>3, Cancels
    <2>5. (2 * d) * (-1) < (2 * d) * q
      <3>1. 0 <= 2 * D + d
        BY <1>4, <2>1
      <3>2. (2 * d) * q \in Int /\ (2 * d) * (-1) = -(2 * d)
        BY <1>4, <2>2
      <3> QED BY <1>4, <2>1, <2>2, <3>1, <3>2
    <2>6. (2 * d) * 0 < (2 * d) * q + 2 * d
      <3>1. (2 * d) * q \in Int /\ (2 * d) * (-1) = -(2 * d) /\ (2 * d) * 0 = 0
        BY <1>4, <2>2
      <3> QED BY <1>4, <2>5, <3>1
    <2>7. 0 <= q
      BY <1>4, <2>2, <2>6, Cancels
    <2> QED BY <1>1, <2>2, <2>4, <2>7 DEF q, D
  <1> QED BY <1>2, <1>6, <1>7 DEF n

LEMMA RangesKeepMeaning ==
    ASSUME NEW source, NEW live, Property!IsGenuine(source), Property!IsDecoded(live),
           Property!IsRange(source), Property!RangeFits(source, live)
    PROVE  LET out == Property!RangeOut(source, live) IN
           /\ Property!SameScale(out, live) /\ Property!SameScale(out, source)
           /\ Property!RangeValue(out) = Property!RangeValue(source)
  <1> DEFINE out == Property!RangeOut(source, live)
             x == Property!RangeValue(source)
             fit == Property!Clamped(x, live)
             i == Property!Nearest(fit, live)
  <1>1. source \in Property!Scales /\ live \in Property!Scales /\ Property!IsDecoded(source)
    BY DEF Property!RangeFits, Property!IsGenuine, Property!IsDecoded, Property!Values, Property!IsRange, Property!Enums,
           Property!Plain
  <1>2. /\ Property!HasScale(source) /\ Property!HasSpan(source) /\ x # None
        /\ live.lower = source.lower /\ live.upper = source.upper /\ live.steps = source.steps
    BY DEF Property!RangeFits
  <1>3. /\ (Property!IsStepped(live) <=> Property!IsStepped(source)) /\ Property!Step(live) = Property!Step(source)
        /\ Property!Lowest(live) = Property!Lowest(source) /\ Property!Highest(live) = Property!Highest(source)
        /\ \A j : Property!ValueAt(live, j) = Property!ValueAt(source, j)
    BY <1>2, Zenon DEF Property!IsStepped, Property!Step, Property!HasScale, Property!HasSpan, Property!Lowest,
       Property!Highest, Property!ValueAt
  <1>4. x \in Property!Lowest(live)..Property!Highest(live) /\ Property!Lowest(live) \in Int /\ Property!Highest(live) \in Int
        /\ (Property!IsStepped(source) => source.index \in 0..(source.steps - 1) /\ x = Property!ValueAt(source, source.index))
        /\ (~Property!IsStepped(source) => x = source.value)
    <2>1. Property!Lowest(live) \in Int /\ Property!Highest(live) \in Int
      BY <1>1 DEF Property!Lowest, Property!Highest, Property!Scales
    <2>2. CASE Property!IsStepped(source)
      <3>1. source.index \in Nat /\ source.index < source.steps /\ source.steps \in Nat
        BY <1>1, <1>2, <2>2, ScaleFacts DEF Property!RangeValue
      <3>2. source.index \in 0..(source.steps - 1)
        BY <3>1
      <3>3. x = Property!ValueAt(source, source.index)
        BY <1>2, <2>2 DEF Property!RangeValue
      <3> QED BY <1>1, <1>3, <2>1, <2>2, <3>2, <3>3, NearestIs
    <2>3. CASE ~Property!IsStepped(source)
      <3>1. x = source.value
        BY <2>3 DEF Property!RangeValue
      <3> QED BY <1>2, <1>3, <2>1, <2>3, <3>1 DEF Property!IsGenuine
    <2> QED BY <2>2, <2>3
  <1> HIDE DEF x
  <1>5. fit = x
    BY <1>4 DEF Property!Clamped
  <1>6. CASE Property!IsStepped(source)
    <2>1. source.index \in 0..(source.steps - 1) /\ i = source.index /\ source.steps \in Nat
      <3>1. Property!Nearest(x, source) = source.index
        BY <1>1, <1>4, <1>6, NearestIs
      <3>2. Property!Nearest(x, live) = Property!Nearest(x, source)
        BY <1>2, <1>3, Zenon DEF Property!Nearest
      <3>3. i = Property!Nearest(x, live)
        BY <1>5
      <3> QED BY <1>1, <1>4, <1>6, <3>1, <3>2, <3>3, ScaleFacts
    <2>2. Property!ValueAt(live, i) \in Int
      BY <1>3, <1>4, <1>6, <2>1
    <2> HIDE DEF i
    <2>3. out = [live EXCEPT !.index = i, !.value = Property!ValueAt(live, i)]
      BY <1>3, <1>6 DEF Property!RangeOut, i, x
    <2> HIDE DEF out
    <2>4. /\ out \in Property!Scales /\ out.lower = live.lower /\ out.upper = live.upper /\ out.steps = live.steps
          /\ out.index = i
      BY <1>1, <2>1, <2>2, <2>3 DEF Property!Scales
    <2>5. /\ Property!IsStepped(out) /\ Property!Step(out) = Property!Step(live)
          /\ Property!ValueAt(out, source.index) = x
      BY <1>2, <1>3, <1>4, <1>6, <2>4, Zenon DEF Property!IsStepped, Property!Step, Property!HasScale, Property!HasSpan,
         Property!ValueAt
    <2>6. Property!RangeValue(out) = x
      <3>1. out.index # None /\ out.index < out.steps
        BY <1>2, <2>1, <2>4, PropertyAssumption
      <3> QED BY <2>1, <2>4, <2>5, <3>1 DEF Property!RangeValue
    <2>7. Property!IsDecoded(out) /\ Property!HasScale(out) /\ Property!HasSpan(out)
      BY <1>1, <1>2, <1>3, <1>6, <2>4, <2>5 DEF Property!IsDecoded, Property!Values, Property!IsPacked, Property!IsTable,
         Property!IsEnum, Property!IsRange, Property!Scales, Property!HasScale, Property!HasSpan
    <2> QED BY <1>1, <1>2, <2>4, <2>6, <2>7 DEF Property!SameScale, out, x
  <1>7. CASE ~Property!IsStepped(source)
    <2>1. out = [live EXCEPT !.index = 0, !.value = x]
      BY <1>3, <1>5, <1>7 DEF Property!RangeOut, x
    <2> HIDE DEF out
    <2>2. /\ out \in Property!Scales /\ out.lower = live.lower /\ out.upper = live.upper /\ out.steps = live.steps
          /\ out.value = x
      <3>1. x \in Int
        BY <1>4
      <3> QED BY <1>1, <2>1, <3>1 DEF Property!Scales
    <2>3. ~Property!IsStepped(out)
      BY <1>2, <1>3, <1>7, <2>2, Zenon DEF Property!IsStepped, Property!HasScale, Property!HasSpan
    <2>4. Property!RangeValue(out) = x
      BY <2>2, <2>3 DEF Property!RangeValue
    <2>5. Property!IsDecoded(out) /\ Property!HasScale(out) /\ Property!HasSpan(out)
      BY <1>1, <1>2, <2>2, <2>3 DEF Property!IsDecoded, Property!Values, Property!IsPacked, Property!IsTable,
         Property!IsEnum, Property!IsRange, Property!Scales, Property!HasScale, Property!HasSpan
    <2> QED BY <1>1, <1>2, <2>2, <2>4, <2>5 DEF Property!SameScale, out, x
  <1> QED BY <1>6, <1>7

\* A value on the same scale at the same position is as near to what was asked.
LEMMA StillOnScale ==
    ASSUME NEW a, NEW b, NEW m, Property!SameScale(a, b),
           Property!RangeValue(a) = Property!RangeValue(b), Property!IsStill(b, m)
    PROVE  Property!IsStill(a, m)
  <1>1. /\ a \in Property!Scales /\ b \in Property!Scales /\ Property!IsDecoded(a)
        /\ a.lower = b.lower /\ a.upper = b.upper /\ a.steps = b.steps
    BY DEF Property!SameScale
  <1>2. (Property!IsStepped(a) <=> Property!IsStepped(b)) /\ Property!Step(a) = Property!Step(b)
    BY <1>1, Zenon DEF Property!IsStepped, Property!Step, Property!HasScale, Property!HasSpan
  <1>3. a.kind = "range" /\ b.kind = "range"
    BY <1>1 DEF Property!Scales
  <1>4. Property!IsDecoded(b)
    BY <1>1, <1>2, <1>3 DEF Property!IsDecoded, Property!Values, Property!IsPacked, Property!IsTable, Property!IsEnum,
       Property!IsRange
  <1>5. Property!Meaning(a) = Property!Meaning(b)
    BY <1>1, <1>3, <1>4, PositionIs DEF Property!Meaning
  <1> QED BY <1>2, <1>3, <1>5 DEF Property!IsStill, Property!IsRange

LEMMA SameScaleSwaps ==
    ASSUME NEW a, NEW b, Property!SameScale(a, b)
    PROVE  Property!SameScale(b, a)
  <1>1. /\ a \in Property!Scales /\ b \in Property!Scales /\ Property!IsDecoded(a)
        /\ a.lower = b.lower /\ a.upper = b.upper /\ a.steps = b.steps
    BY DEF Property!SameScale
  <1>2. (Property!IsStepped(a) <=> Property!IsStepped(b)) /\ Property!Step(a) = Property!Step(b)
        /\ (Property!HasScale(a) <=> Property!HasScale(b)) /\ (Property!HasSpan(a) <=> Property!HasSpan(b))
    BY <1>1, Zenon DEF Property!IsStepped, Property!Step, Property!HasScale, Property!HasSpan
  <1>3. a.kind = "range" /\ b.kind = "range"
    BY <1>1 DEF Property!Scales
  <1>4. Property!IsDecoded(b)
    BY <1>1, <1>2, <1>3 DEF Property!IsDecoded, Property!Values, Property!IsPacked, Property!IsTable, Property!IsEnum,
       Property!IsRange
  <1> QED BY <1>1, <1>2, <1>4 DEF Property!SameScale

LEMMA KindsOf ==
    ASSUME NEW v \in Property!Values
    PROVE  /\ Property!IsEnum(v) => v \in Property!Enums
           /\ Property!IsRange(v) => v \in Property!Scales
           /\ ~Property!IsEnum(v) /\ ~Property!IsRange(v) => v \in Property!Plain
           /\ v \in Property!Enums => Property!IsEnum(v) /\ ~Property!IsRange(v)
           /\ v \in Property!Scales => Property!IsRange(v) /\ ~Property!IsEnum(v)
           /\ v \in Property!Plain => ~Property!IsRange(v) /\ ~Property!IsEnum(v)
  BY DEF Property!Values, Property!IsEnum, Property!IsRange, Property!Enums, Property!Scales, Property!Plain

LEMMA PropertyInit == Property!Init => Property!IInv
  <1> SUFFICES ASSUME Property!Init PROVE Property!IInv
    OBVIOUS
  <1>1. Property!IsGenuine(x1)
    BY PropertyAssumption DEF Property!Init
  <1>2. Property!IsStill(x1, x5)
    BY DEF Property!Init, Property!IsStill
  <1>3. Property!IsPlan(x7) /\ x7.result = "none"
    BY DEF Property!Init, Property!NoPlan, Property!IsPlan
  <1> QED BY <1>1, <1>2, <1>3 DEF Property!IInv, Property!MeaningIsKept, Property!ChangesAreTrue

\* An edit to a value that shows what was asked for.
LEMMA PropertyEdits ==
    ASSUME Property!IInv, NEW wanted, NEW new, Property!Edits(wanted, new),
           Property!IsGenuine(new), Property!IsStill(new, wanted)
    PROVE  Property!IInv'
  <1>1. x1' = new /\ x5' = wanted /\ x7' = x7 /\ x7 = Property!NoPlan
    BY DEF Property!Edits
  <1>2. Property!IsPlan(x7') /\ x7'.result = "none"
    BY <1>1 DEF Property!NoPlan, Property!IsPlan
  <1>3. Property!IsGenuine(x1') /\ Property!IsStill(x1', x5')
    BY <1>1
  <1> QED BY <1>2, <1>3 DEF Property!IInv, Property!MeaningIsKept, Property!ChangesAreTrue

LEMMA PropertyCopyForEdit ==
    ASSUME Property!IInv, Property!CopyForEdit
    PROVE  Property!IInv'
  BY DEF Property!IInv, Property!CopyForEdit, Property!MeaningIsKept, Property!ChangesAreTrue

\* A code stands for an option of its own, not for a letter of a packed table.
LEMMA PropertySetEnumValue ==
    ASSUME Property!IInv, NEW code \in Codes, Property!SetEnumValue(code)
    PROVE  Property!IInv'
  <1> DEFINE v == x1
             places == Property!Places(v.values, code)
             First(i) == \A j \in places : i <= j
             p == CHOOSE i \in places : First(i)
             new == [v EXCEPT !.index = p - 1]
  <1>1. Property!IsGenuine(v) /\ v \in Property!Enums /\ v.values # None /\ places # {}
    BY KindsOf DEF Property!SetEnumValue, Property!IInv, Property!IsGenuine, Property!IsDecoded
  <1>2. v.values \in Seq(Seq(Letters)) /\ v.bytes \in Nat
    BY <1>1 DEF Property!Enums
  <1>3. places \subseteq 1..Len(v.values)
    BY <1>2 DEF Property!Places
  <1>4. p \in places
    <2>1. \E i \in places : First(i)
      BY <1>1, <1>3, Least
    <2> HIDE DEF First, places
    <2> QED BY <2>1
  <1>5. Property!Edits(code, new)
    BY DEF Property!SetEnumValue
  <1> HIDE DEF p
  <1>6. p \in 1..Len(v.values) /\ v.values[p] = code /\ p - 1 \in Nat /\ p - 1 < Len(v.values) /\ p - 1 + 1 = p
    BY <1>2, <1>3, <1>4 DEF Property!Places
  <1>7. /\ new \in Property!Enums /\ new.values = v.values /\ new.bytes = v.bytes /\ new.type = v.type
        /\ new.counted = v.counted /\ new.index = p - 1 /\ new.kind = "enum"
    BY <1>1, <1>6 DEF Property!Enums
  <1> HIDE DEF new
  <1>8. Property!IsGenuine(new)
    <2>1. /\ (Property!IsPacked(new) <=> Property!IsPacked(v)) /\ (Property!IsUntyped(new) <=> Property!IsUntyped(v))
          /\ Property!Elements(new) = Property!Elements(v)
      BY <1>1, <1>7 DEF Property!IsPacked, Property!IsUntyped, Property!IsTable, Property!IsEnum, Property!IsLabel,
         Property!IsSound, Property!Elements, Property!Enums
    <2>2. ~Property!IsRange(new) /\ new \in Property!Values
      BY <1>7 DEF Property!IsRange, Property!Values
    <2>3. Property!IsDecoded(new)
      BY <1>1, <1>7, <2>1, <2>2 DEF Property!IsGenuine, Property!IsDecoded
    <2> QED BY <1>1, <2>1, <2>2, <2>3 DEF Property!IsGenuine
  <1>9. Property!Meaning(new) = code
    <2>1. ~(Property!IsLabel(new) /\ new.bytes = 1)
      <3>1. code \in Property!Elements(v)
        BY <1>6 DEF Property!Elements
      <3>2. ~Property!IsPacked(v)
        BY <1>1, <3>1 DEF Property!IsGenuine
      <3> QED BY <1>1, <1>7, <3>2 DEF Property!IsPacked, Property!IsTable, Property!IsEnum, Property!IsLabel, Property!Enums
    <2>2. new.index # None /\ new.index < Len(new.values) /\ new.values[new.index + 1] = code
      BY <1>6, <1>7, PropertyAssumption
    <2>3. Property!Chosen(new) = code
      BY <1>1, <1>7, <2>1, <2>2 DEF Property!Chosen
    <2> QED BY <1>7, <2>3 DEF Property!Meaning
  <1>10. Property!IsStill(new, code)
    BY <1>9 DEF Property!IsStill
  <1> QED BY <1>5, <1>8, <1>10, PropertyEdits

\* A position within the tolerance is the one asked for, on the scale of the snapshot.
LEMMA PropertySetRangeValue ==
    ASSUME Property!IInv, NEW x \in Positions, Property!SetRangeValue(x)
    PROVE  Property!IInv'
  <1> DEFINE v == x1
             i == Property!Nearest(x, v)
  <1>1. /\ Property!IsGenuine(v) /\ v \in Property!Scales /\ Property!HasScale(v) /\ Property!HasSpan(v)
        /\ x \in Property!Lowest(v)..Property!Highest(v) /\ Property!IsDecoded(v)
    BY KindsOf DEF Property!SetRangeValue, Property!IInv, Property!IsGenuine, Property!IsDecoded
  <1>2. x \in Int
    BY <1>1
  <1>3. CASE Property!IsStepped(v)
    <2> DEFINE new == [v EXCEPT !.index = i]
    <2>1. Property!Edits(x, new) /\ 20 * Property!Distance(Property!ValueAt(v, i), x) <= Property!Distance(Property!Step(v), 0)
      BY <1>3 DEF Property!SetRangeValue
    <2>2. i \in 0..(v.steps - 1) /\ v.steps \in Nat
      BY <1>1, <1>3, NearestIs, ScaleFacts
    <2> HIDE DEF i
    <2>3. /\ new \in Property!Scales /\ new.lower = v.lower /\ new.upper = v.upper /\ new.steps = v.steps
          /\ new.index = i /\ new.kind = "range"
      BY <1>1, <2>2 DEF Property!Scales
    <2> HIDE DEF new
    <2>4. Property!IsStepped(new) /\ Property!Step(new) = Property!Step(v) /\ Property!ValueAt(new, i) = Property!ValueAt(v, i)
      BY <1>3, <2>3, Zenon DEF Property!IsStepped, Property!Step, Property!HasScale, Property!HasSpan, Property!ValueAt
    <2>5. ~Property!IsPacked(new) /\ ~Property!IsUntyped(new) /\ Property!IsRange(new)
      BY <2>3 DEF Property!IsPacked, Property!IsUntyped, Property!IsTable, Property!IsEnum, Property!IsRange
    <2>6. Property!IsDecoded(new)
      BY <1>1, <1>3, <2>3, <2>4, <2>5 DEF Property!IsDecoded, Property!Values, Property!IsRange, Property!Scales
    <2>7. Property!IsGenuine(new)
      BY <2>4, <2>5, <2>6 DEF Property!IsGenuine
    <2>8. Property!Meaning(new) = Property!ValueAt(v, i)
      <3>1. new.index # None /\ new.index < new.steps
        BY <2>2, <2>3, PropertyAssumption
      <3>2. Property!RangeValue(new) = Property!ValueAt(v, i)
        BY <2>3, <2>4, <3>1 DEF Property!RangeValue
      <3> QED BY <2>3, <2>6, <3>2, PositionIs DEF Property!Meaning
    <2>9. Property!IsStill(new, x)
      BY <2>1, <2>4, <2>5, <2>8 DEF Property!IsStill
    <2> QED BY <2>1, <2>7, <2>9, PropertyEdits
  <1>4. CASE ~Property!IsStepped(v)
    <2> DEFINE new == [v EXCEPT !.value = x]
    <2>1. Property!Edits(x, new)
      BY <1>4 DEF Property!SetRangeValue
    <2>2. /\ new \in Property!Scales /\ new.lower = v.lower /\ new.upper = v.upper /\ new.steps = v.steps
          /\ new.value = x /\ new.kind = "range"
      BY <1>1, <1>2 DEF Property!Scales
    <2> HIDE DEF new
    <2>3. /\ ~Property!IsStepped(new) /\ Property!Lowest(new) = Property!Lowest(v)
          /\ Property!Highest(new) = Property!Highest(v)
      BY <1>4, <2>2, Zenon DEF Property!IsStepped, Property!HasScale, Property!HasSpan, Property!Lowest, Property!Highest
    <2>4. ~Property!IsPacked(new) /\ ~Property!IsUntyped(new) /\ Property!IsRange(new)
      BY <2>2 DEF Property!IsPacked, Property!IsUntyped, Property!IsTable, Property!IsEnum, Property!IsRange
    <2>5. Property!IsDecoded(new)
      BY <2>2, <2>3, <2>4 DEF Property!IsDecoded, Property!Values
    <2>6. Property!IsGenuine(new)
      BY <1>1, <2>2, <2>3, <2>4, <2>5 DEF Property!IsGenuine
    <2>7. Property!Meaning(new) = x
      <3>1. Property!RangeValue(new) = x
        BY <2>2, <2>3 DEF Property!RangeValue
      <3> QED BY <2>2, <2>5, <3>1, PositionIs DEF Property!Meaning
    <2>8. Property!IsStill(new, x)
      BY <2>7 DEF Property!IsStill
    <2> QED BY <2>1, <2>6, <2>8, PropertyEdits
  <1> QED BY <1>3, <1>4

LEMMA PropertySetScalar ==
    ASSUME Property!IInv, NEW n \in Numbers, Property!SetScalar(n)
    PROVE  Property!IInv'
  <1> DEFINE v == x1
             new == [v EXCEPT !.value = n]
  <1>1. v \in Property!Plain
    BY KindsOf DEF Property!SetScalar, Property!IInv, Property!IsGenuine, Property!IsDecoded, Property!Values, Property!IsEnum,
       Property!IsRange
  <1>2. n \in Int
    BY PropertyAssumption
  <1>3. new \in Property!Plain /\ new.value = n
    BY <1>1, <1>2 DEF Property!Plain
  <1>4. Property!Edits(n, new)
    BY DEF Property!SetScalar
  <1> HIDE DEF new
  <1>5. ~Property!IsEnum(new) /\ ~Property!IsRange(new) /\ new \in Property!Values
    BY <1>3 DEF Property!Values, Property!Plain, Property!IsEnum, Property!IsRange
  <1>6. Property!IsGenuine(new)
    BY <1>5 DEF Property!IsGenuine, Property!IsDecoded, Property!IsPacked, Property!IsUntyped, Property!IsTable
  <1>7. Property!IsStill(new, n)
    BY <1>3, <1>5 DEF Property!IsStill, Property!Meaning, Property!IsEnum, Property!IsRange
  <1> QED BY <1>4, <1>6, <1>7, PropertyEdits

\* What the planner makes of a value and an answer.
LEMMA PlanIsSound ==
    ASSUME NEW v, NEW m, Property!IsGenuine(v), Property!IsStill(v, m), NEW b \in Answered,
           NEW live \in {b, None}, NEW g, NEW optedIn \in BOOLEAN,
           Property!Plans(v, live, g, optedIn)
    PROVE  LET out == Property!Translated(v, live)
               says == Property!Changes(v, live) IN
           /\ Property!IsStill(out, m)
           /\ Property!IsRange(v) => Property!SameScale(out, b)
           /\ says = "no" => Property!Meaning(b) = Property!Meaning(out)
           /\ says = "yes" => Property!Meaning(b) # Property!Meaning(out)
           /\ Property!IsGated(v) /\ ~optedIn => Property!Meaning(b) = Property!Meaning(out)
  <1> DEFINE out == Property!Translated(v, live)
             says == Property!Changes(v, live)
  <1>1. Property!Translates(v, live) /\ Property!PassesGates(v, live, optedIn) /\ Property!IsDecoded(b) /\ Property!IsDecoded(v)
    BY PropertyAssumption DEF Property!Plans, Property!IsGenuine
  <1>2. v \in Property!Values /\ b \in Property!Values
    BY <1>1 DEF Property!IsDecoded
  <1>3. CASE Property!IsEnum(v)
    <2>1. ~Property!IsRange(v) /\ v.kind # "number" /\ v.kind \notin {"number", "bool", "text"}
      BY <1>3 DEF Property!IsEnum, Property!IsRange
    <2>2. live # None /\ live = b /\ Property!EnumFits(v, b)
      BY <1>1, <2>1 DEF Property!Translates
    <2>3. out = Property!EnumOut(v, b)
      BY <1>3, <2>2 DEF Property!Translated
    <2>4. /\ Property!IsEnum(b) /\ Property!IsEnum(out)
          /\ Property!Chosen(out) = Property!Chosen(v)
          /\ Property!Chosen(b) = Property!Chosen(out) <=> b.index = out.index
      BY <1>1, <1>3, <2>2, <2>3, EnumsKeepMeaning
    <2>5. says = IF b.index = out.index THEN "no" ELSE "yes"
      BY <1>3, <2>1, <2>2 DEF Property!Changes
    <2> HIDE DEF out, says
    <2>6. /\ Property!Meaning(out) = Property!Chosen(out) /\ Property!Meaning(b) = Property!Chosen(b)
          /\ Property!Meaning(v) = Property!Chosen(v)
      BY <1>3, <2>4 DEF Property!Meaning, Property!IsEnum
    <2>7. Property!IsStill(out, m)
      BY <2>1, <2>4, <2>6 DEF Property!IsStill
    <2>8. Property!IsGated(v) /\ ~optedIn => b.index = out.index
      BY <1>1, <2>1, <2>2, <2>3 DEF Property!PassesGates
    <2> QED BY <2>1, <2>4, <2>5, <2>6, <2>7, <2>8 DEF out, says
  <1>4. CASE Property!IsRange(v)
    <2>1. ~Property!IsEnum(v) /\ v.kind # "number" /\ v.kind \notin {"number", "bool", "text"}
      BY <1>4 DEF Property!IsEnum, Property!IsRange
    <2>2. live # None /\ live = b /\ Property!RangeFits(v, b)
      BY <1>1, <2>1 DEF Property!Translates
    <2>3. out = Property!RangeOut(v, b)
      BY <1>4, <2>1, <2>2 DEF Property!Translated
    <2>4. /\ Property!SameScale(out, b) /\ Property!SameScale(out, v)
          /\ Property!RangeValue(out) = Property!RangeValue(v)
      BY <1>1, <1>4, <2>2, <2>3, RangesKeepMeaning
    <2>5. says = IF Property!RangeValue(b) # None
                 THEN IF Property!RangeValuesAgree(out, b) THEN "no" ELSE "yes"
                 ELSE "unknown"
      BY <1>4, <2>1, <2>2 DEF Property!Changes
    <2> HIDE DEF out, says
    <2>6. Property!RangeValue(out) # None
      BY <2>2, <2>4 DEF Property!RangeFits
    <2>7. Property!IsStill(out, m)
      BY <2>4, StillOnScale
    <2>8. Property!Meaning(out) = Property!RangeValue(out) /\ Property!Meaning(b) = Property!RangeValue(b)
      <3>1. out \in Property!Scales /\ b \in Property!Scales /\ Property!IsDecoded(out)
        BY <2>4 DEF Property!SameScale
      <3> QED BY <1>1, <3>1, PositionIs DEF Property!Meaning, Property!Scales
    <2>9. ~Property!IsGated(v)
      BY <2>1 DEF Property!IsGated
    <2>10. /\ Property!RangeValuesAgree(out, b) => Property!RangeValue(out) = Property!RangeValue(b)
           /\ Property!RangeValue(out) # None /\ Property!RangeValue(b) # None
              /\ Property!RangeValue(out) = Property!RangeValue(b) => Property!RangeValuesAgree(out, b)
      BY <2>4, AgreeIsSame
    <2> QED BY <2>4, <2>5, <2>6, <2>7, <2>8, <2>9, <2>10 DEF out, says
  <1>5. CASE ~Property!IsEnum(v) /\ ~Property!IsRange(v)
    <2>1. out = v
      BY <1>5 DEF Property!Translated
    <2>2. says = IF v.kind = "number" /\ live # None
                 THEN IF live.value = v.value THEN "no" ELSE "yes"
                 ELSE "unknown"
      BY <1>5 DEF Property!Changes
    <2> HIDE DEF out, says
    <2>3. v.kind = "number" /\ live # None => live = b /\ b.kind = "number"
      BY <1>1 DEF Property!PassesGates
    <2>4. Property!Meaning(v) = v.value
      BY <1>5 DEF Property!Meaning, Property!IsEnum, Property!IsRange
    <2>5. b.kind = "number" => Property!Meaning(b) = b.value
      BY DEF Property!Meaning
    <2>6. Property!IsGated(v) /\ ~optedIn => v.kind = "number" /\ live # None /\ live.value = v.value
      BY <1>1, <1>5 DEF Property!IsGated, Property!PassesGates
    <2> QED BY <1>5, <2>1, <2>2, <2>3, <2>4, <2>5, <2>6 DEF out, says
  <1> QED BY <1>3, <1>4, <1>5

LEMMA PropertyTransplant ==
    ASSUME Property!IInv, NEW b \in Answered, NEW readable \in BOOLEAN, NEW optedIn \in BOOLEAN,
           Property!Transplant(b, readable, optedIn)
    PROVE  Property!IInv'
  <1> DEFINE live == IF Property!IsRead(x1) /\ readable THEN b ELSE None
             out == Property!Translated(x1, live)
             says == Property!Changes(x1, live)
  <1>1. x1' = x1 /\ x5' = x5 /\ x6' = b
    BY DEF Property!Transplant
  <1>2. Property!IsGenuine(x1) /\ Property!IsStill(x1, x5)
    BY DEF Property!IInv
  <1>3. Property!IsGenuine(x1') /\ Property!IsStill(x1', x5')
    BY <1>1, <1>2
  <1>4. CASE Property!Plans(x1, live, x2, optedIn)
    <2>1. x7' = [result |-> "planned", value |-> out, changes |-> says, optedIn |-> optedIn]
      BY <1>4 DEF Property!Transplant
    <2>2. /\ Property!IsStill(out, x5)
          /\ Property!IsRange(x1) => Property!SameScale(out, b)
          /\ says = "no" => Property!Meaning(b) = Property!Meaning(out)
          /\ says = "yes" => Property!Meaning(b) # Property!Meaning(out)
          /\ Property!IsGated(x1) /\ ~optedIn => Property!Meaning(b) = Property!Meaning(out)
      <3>1. live \in {b, None}
        OBVIOUS
      <3> HIDE DEF live
      <3> QED BY <1>2, <1>4, <3>1, PlanIsSound
    <2> HIDE DEF out, says, live
    <2>3. /\ Property!IsPlan(x7') /\ x7'.result = "planned" /\ x7'.value = out /\ x7'.changes = says
          /\ x7'.optedIn = optedIn
      BY <2>1 DEF Property!IsPlan
    <2>4. Property!MeaningIsKept'
      BY <1>1, <2>2, <2>3 DEF Property!MeaningIsKept
    <2>5. Property!ChangesAreTrue'
      BY <1>1, <2>2, <2>3 DEF Property!ChangesAreTrue
    <2>6. (x7.result = "planned" /\ Property!IsRange(x1) => Property!SameScale(x7.value, x6))'
      BY <1>1, <2>2, <2>3
    <2> QED BY <1>3, <2>3, <2>4, <2>5, <2>6 DEF Property!IInv
  <1>5. CASE ~Property!Plans(x1, live, x2, optedIn)
    <2>1. x7' = Property!Skipped
      BY <1>5 DEF Property!Transplant
    <2>2. Property!IsPlan(x7') /\ x7'.result = "skipped"
      BY <2>1 DEF Property!Skipped, Property!NoPlan, Property!IsPlan
    <2> QED BY <1>3, <2>2 DEF Property!IInv, Property!MeaningIsKept, Property!ChangesAreTrue
  <1> QED BY <1>4, <1>5

\* What the body may hold after the write of a range is on the same scale.
LEMMA WrittenOnScale ==
    ASSUME NEW p, NEW body, Property!SameScale(p, body),
           NEW after \in {Property!Held(w) : w \in {p} \cup Property!Beside(p)} \cup {body}
    PROVE  Property!SameScale(p, after)
  <1>1. /\ p \in Property!Scales /\ Property!IsDecoded(p) /\ Property!HasScale(p) /\ Property!HasSpan(p)
        /\ p.lower = body.lower /\ p.upper = body.upper /\ p.steps = body.steps /\ body \in Property!Scales
    BY DEF Property!SameScale
  <1>2. Property!IsRange(p) /\ p.lower \in Int /\ p.upper \in Int /\ p.steps \in Nat \cup {None}
        /\ p.index \in Nat \cup {None} /\ p.value \in Int
    BY <1>1 DEF Property!IsRange, Property!Scales
  <1>3. ASSUME NEW w \in {p} \cup Property!Beside(p)
        PROVE  w \in Property!Scales /\ w.lower = p.lower /\ w.upper = p.upper /\ w.steps = p.steps
    <2>1. CASE w = p
      BY <1>1, <2>1
    <2>2. CASE w \in Property!Beside(p) /\ Property!IsStepped(p)
      <3>1. PICK i \in {p.index - 1, p.index + 1} \cap 0..(p.steps - 1) : w = [p EXCEPT !.index = i]
        BY <1>2, <2>2 DEF Property!Beside
      <3>2. i \in Nat
        OBVIOUS
      <3> QED BY <1>1, <3>1, <3>2 DEF Property!Scales
    <2>3. CASE w \in Property!Beside(p) /\ ~Property!IsStepped(p)
      <3>1. w = [p EXCEPT !.value = p.value + 1]
        BY <1>2, <2>3 DEF Property!Beside
      <3> QED BY <1>1, <1>2, <3>1 DEF Property!Scales
    <2> QED BY <2>1, <2>2, <2>3
  <1>4. ASSUME NEW w \in {p} \cup Property!Beside(p)
        PROVE  /\ Property!Held(w) \in Property!Scales /\ Property!Held(w).lower = p.lower
               /\ Property!Held(w).upper = p.upper /\ Property!Held(w).steps = p.steps
    <2>1. w \in Property!Scales /\ w.lower = p.lower /\ w.upper = p.upper /\ w.steps = p.steps
      BY <1>3
    <2> QED BY <2>1 DEF Property!Held, Property!Scales
  <1>5. after \in Property!Scales /\ after.lower = p.lower /\ after.upper = p.upper /\ after.steps = p.steps
    BY <1>1, <1>4
  <1> QED BY <1>1, <1>5 DEF Property!SameScale

LEMMA PropertyWrite ==
    ASSUME Property!IInv, NEW fails \in BOOLEAN, Property!Write(fails)
    PROVE  Property!IInv'
  <1> DEFINE p == x7.value
             after == x6'
  <1>1. x1' = x1 /\ x5' = x5 /\ x7.result = "planned"
        /\ after \in {Property!Held(w) : w \in {p} \cup Property!Beside(p)} \cup {x6}
    BY DEF Property!Write
  <1>2. Property!IsGenuine(x1') /\ Property!IsStill(x1', x5') /\ Property!IsStill(p, x5)
    BY <1>1 DEF Property!IInv, Property!MeaningIsKept
  <1>3. /\ Property!IsPlan(x7') /\ x7'.value = p /\ x7'.result \in {"copied", "failed"}
        /\ x7'.result = "copied" => Property!IsVerified(p, after)
    <2>1. x7 = [result |-> x7.result, value |-> x7.value, changes |-> x7.changes, optedIn |-> x7.optedIn]
      BY DEF Property!IInv, Property!IsPlan
    <2>2. x7' = [x7 EXCEPT !.result = IF ~fails /\ Property!IsVerified(p, after) THEN "copied" ELSE "failed"]
      BY DEF Property!Write
    <2> QED BY <2>1, <2>2 DEF Property!IsPlan
  <1>4. x7'.result = "copied" /\ Property!IsRange(x1) => Property!IsStill(after, x5)
    <2> SUFFICES ASSUME x7'.result = "copied", Property!IsRange(x1) PROVE Property!IsStill(after, x5)
      OBVIOUS
    <2>1. Property!SameScale(p, x6)
      BY <1>1 DEF Property!IInv
    <2> HIDE DEF p, after
    <2>2. Property!SameScale(p, after)
      BY <1>1, <2>1, WrittenOnScale
    <2>3. Property!IsRange(p)
      BY <2>1 DEF Property!SameScale, Property!Scales, Property!IsRange
    <2>4. Property!RangeValue(p) = Property!RangeValue(after)
      BY <1>3, <2>2, <2>3, AgreeIsSame DEF Property!IsVerified
    <2>5. Property!SameScale(after, p)
      BY <2>2, SameScaleSwaps
    <2> QED BY <1>2, <2>4, <2>5, StillOnScale
  <1>5. Property!MeaningIsKept'
    BY <1>1, <1>2, <1>3, <1>4 DEF Property!MeaningIsKept
  <1> QED BY <1>2, <1>3, <1>5 DEF Property!IInv, Property!ChangesAreTrue

LEMMA PropertyNext ==
    ASSUME Property!IInv, [Property!Next]_Property!vars
    PROVE  Property!IInv'
  <1>1. CASE Property!Next
    BY <1>1, PropertyCopyForEdit, PropertySetEnumValue, PropertySetRangeValue, PropertySetScalar, PropertyTransplant,
       PropertyWrite DEF Property!Next
  <1>2. CASE UNCHANGED Property!vars
    BY <1>2 DEF Property!vars, Property!IInv, Property!MeaningIsKept, Property!ChangesAreTrue
  <1> QED BY <1>1, <1>2

LEMMA PropertyHolds == Spec => [](part = "property" => Property!IInv)
  <1> DEFINE Inv == part = "property" => Property!IInv
  <1>1. Init => Inv
    BY PropertyInit DEF Init
  <1>2. Inv /\ [Next]_vars => Inv'
    <2> SUFFICES ASSUME Inv, [Next]_vars, part' = "property"
                 PROVE  Property!IInv'
      OBVIOUS
    <2>1. part = "property" /\ [Property!Next]_Property!vars
      BY DEF Next, vars, Property!vars, FirmwareStep, DiagStep, RingStep, SessionStep, ServerStep, PropertyStep
    <2> QED BY <2>1, PropertyNext
  <1> QED BY <1>1, <1>2, PTL DEF Spec

\* What a transplant plans means what the snapshot showed or the last edit asked for, and a range that
\* counts as copied holds it, for tables of any length, order and layout, scales of any whole step, and
\* any sequence of edits (set_*, translate_value, verify_range_write).
THEOREM TransplantsKeepMeaning == Spec => []MeaningIsKept
  <1>1. (part = "property" => Property!IInv) => MeaningIsKept
    BY DEF MeaningIsKept, Property!IInv
  <1> QED BY <1>1, PropertyHolds, PTL

\* What a plan says of a change is so, and no raw code and no number is a change without the opt-in,
\* for any values a snapshot and a body hold (write_changes, raw_code_gate, literal_gate).
THEOREM PlansTellChanges == Spec => []ChangesAreTrue
  <1>1. (part = "property" => Property!IInv) => ChangesAreTrue
    BY DEF ChangesAreTrue, Property!IInv
  <1> QED BY <1>1, PropertyHolds, PTL
=============================================================================
