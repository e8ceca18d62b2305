--------------------------- MODULE MCWorkerCall ---------------------------
(* Model values for the runs of WorkerCall. *)
EXTENDS WorkerCall

CONSTANTS a, r

\* A claim of the source that the code does not keep: see the README's findings.

\* supervisor.rs, MARKER_FILE: "Written into the data directory when the server exits while
\* an apply that had reached `writing` is still running".
MarkerLeftForLostApply ==
    [][\A c \in ApplyCalls :
        /\ server # "gone" /\ server' = "gone"
        /\ wpc[c] = "writing" /\ report[c] = "none"
        => marker = c]_vars
=============================================================================
