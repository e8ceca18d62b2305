------------------------------- MODULE FtpTest -------------------------------
(***************************************************************************)
(* The test of a server profile (ftp_test.rs, `run_test`): connect, log    *)
(* in, put a file, fetch it back, compare and delete it, each step with a  *)
(* time limit.  The server may refuse, fail, answer late or not at all,    *)
(* and a failed transfer may have left a file on it.  Over FTP the answer  *)
(* to a transfer that was given up is still on the control connection when *)
(* the delete reads its own.                                               *)
(***************************************************************************)
EXTENDS Naturals, Sequences

CONSTANTS Protocols

VARIABLES
    protocol, fileCheck,  \* the request
    at,       \* the step that runs, or "done"
    outcome,  \* per step of the plan: "none", "ok", "failed" or "skipped"
    refused,  \* the upload failed as PermissionDenied
    file,     \* the test file on the server: "none", "some" or "altered"
    late,     \* the answer to a transfer that was given up: "none", "completed" (250, which
              \* also confirms a delete) or "other"
    named,    \* TestReport::file_left_behind names the file
    mistaken  \* history: such an answer was taken for the delete's

vars == <<protocol, fileCheck, at, outcome, refused, file, late, named, mistaken>>
env == <<protocol, fileCheck>>
server == <<file, late, mistaken>>

plan ==
    IF protocol = "ftp"
    THEN <<"resolve", "connect", "login", "folder", "upload", "download", "compare", "delete">>
    ELSE <<"resolve", "connect", "handshake", "login", "folder", "upload", "download", "compare", "delete">>
Steps == {plan[i] : i \in DOMAIN plan}
After(s) == LET i == CHOOSE i \in DOMAIN plan : plan[i] = s IN
            IF i = Len(plan) THEN "done" ELSE plan[i + 1]

Init ==
    /\ protocol \in Protocols /\ fileCheck \in BOOLEAN
    /\ at = "resolve" /\ outcome = [s \in Steps |-> "none"]
    /\ refused = FALSE /\ file = "none" /\ late = "none" /\ named = FALSE /\ mistaken = FALSE

\* Recorder: ok, fail, skip, and skip_unrecorded for every step that has no outcome yet.
Recorded(o, s, what) == [o EXCEPT ![s] = what]
SkipUnrecorded(o) == [s \in Steps |-> IF o[s] = "none" THEN "skipped" ELSE o[s]]

\* The steps before the file: the first that fails is the last that is tried.
Early == {"resolve", "connect", "handshake", "login", "folder"}
EarlyOk ==
    /\ at \in Early
    /\ IF at = "folder" /\ ~fileCheck
       THEN outcome' = SkipUnrecorded(Recorded(outcome, at, "ok")) /\ at' = "done"
       ELSE outcome' = Recorded(outcome, at, "ok") /\ at' = After(at)
    /\ UNCHANGED <<env, refused, server, named>>

EarlyFails ==
    /\ at \in Early
    /\ outcome' = SkipUnrecorded(Recorded(outcome, at, "failed")) /\ at' = "done"
    /\ UNCHANGED <<env, refused, server, named>>

\* What a given-up FTP transfer may still say.
Unanswered == late' \in (IF protocol = "ftp" THEN {"none", "completed", "other"} ELSE {"none"})

PutOk ==
    /\ at = "upload"
    /\ outcome' = Recorded(outcome, at, "ok") /\ at' = "download"
    /\ file' \in {"some", "altered"}
    /\ UNCHANGED <<env, refused, late, named, mistaken>>

\* Plausible bug: a failed upload is taken to have left nothing.
MayHaveLeftNever(kind) == FALSE

\* upload_may_have_left_a_file: a refusal of the write is taken to have left nothing.
MayHaveLeft(kind) == kind # "permission_denied"
PutFails(kind) ==
    /\ at = "upload" /\ refused' = (kind = "permission_denied")
    /\ LET failed == Recorded(outcome, "upload", "failed") IN
       IF MayHaveLeft(kind)
       THEN /\ outcome' = Recorded(Recorded(failed, "download", "skipped"), "compare", "skipped")
            /\ at' = "delete"
       ELSE outcome' = SkipUnrecorded(failed) /\ at' = "done"
    /\ file' \in {"none", "some"}
    /\ IF MayHaveLeft(kind) THEN Unanswered ELSE UNCHANGED late
    /\ UNCHANGED <<env, named, mistaken>>

\* record_comparison follows a fetch that worked.
GetOk ==
    /\ at = "download"
    /\ \E same \in {file = "some", FALSE} :
         outcome' = Recorded(Recorded(outcome, "download", "ok"), "compare", IF same THEN "ok" ELSE "failed")
    /\ at' = "delete"
    /\ UNCHANGED <<env, refused, server, named>>

GetFails ==
    /\ at = "download"
    /\ outcome' = Recorded(Recorded(outcome, "download", "failed"), "compare", "skipped")
    /\ at' = "delete" /\ Unanswered
    /\ UNCHANGED <<env, refused, file, named, mistaken>>

\* The delete: the server does it or not, and its answer is the one that is next on the connection.
Deletes(done, answer) ==
    /\ at = "delete" /\ at' = "done"
    /\ file' = IF done THEN "none" ELSE file
    /\ outcome' = Recorded(outcome, "delete", IF answer = "completed" THEN "ok" ELSE "failed")
    /\ named' = (answer # "completed")
    /\ UNCHANGED <<env, refused, late>>

DeleteAnswered ==
    /\ late = "none"
    /\ \E done \in {file # "none", FALSE} : Deletes(done, IF done THEN "completed" ELSE "other")
    /\ UNCHANGED mistaken
DeleteUnanswered ==
    /\ late = "none"
    /\ \E done \in BOOLEAN : Deletes(done, "other")
    /\ UNCHANGED mistaken
DeleteMisread ==
    /\ late # "none"
    /\ \E done \in BOOLEAN : Deletes(done, late)
    /\ mistaken' = (late = "completed")

Next ==
    \/ EarlyOk \/ EarlyFails \/ PutOk \/ GetOk \/ GetFails
    \/ \E kind \in {"permission_denied", "transfer_failed"} : PutFails(kind)
    \/ DeleteAnswered \/ DeleteUnanswered \/ DeleteMisread

Spec == Init /\ [][Next]_vars

-----------------------------------------------------------------------------
TypeOK ==
    /\ at \in Steps \cup {"done"}
    /\ outcome \in [Steps -> {"none", "ok", "failed", "skipped"}]
    /\ file \in {"none", "some", "altered"} /\ late \in {"none", "completed", "other"}

\* A test that ended has an outcome for every step of its protocol, and a file it may have left on
\* the server is named (run_test), however transfers fail or answers are lost: but for an upload
\* the server refused, which is taken to have left nothing, and a late answer to a transfer that
\* says what a delete's would.
FileIsAccounted ==
    at = "done" =>
        /\ \A s \in Steps : outcome[s] # "none"
        /\ file # "none" => named \/ refused \/ mistaken
        /\ outcome["delete"] = "ok" /\ ~mistaken => file = "none"

-----------------------------------------------------------------------------
(* The inductive invariant. *)

\* The steps before the one that runs have an outcome.
Behind == \A i, j \in DOMAIN plan : i < j /\ plan[j] = at => outcome[plan[i]] # "none"

\* Nothing is on the server before the upload, nothing outstanding before it failed, and what the
\* delete says comes last.
Ahead ==
    /\ at \in Early \cup {"upload"} => file = "none"
    /\ at \in Early \cup {"upload", "download"} => late = "none"
    /\ at # "done" => ~mistaken /\ outcome["delete"] = "none"

IInv ==
    /\ TypeOK /\ at # "compare" /\ Behind /\ Ahead
    /\ FileIsAccounted
=============================================================================
