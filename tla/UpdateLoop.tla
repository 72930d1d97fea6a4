----------------------------- MODULE UpdateLoop -----------------------------
(***************************************************************************)
(* What an update promises to whoever waits for it: one session at a time, *)
(* in it a round of revision files and then a round of content files, each *)
(* sized before it is fetched file by file, and an end.  DownloadSession   *)
(* shows that the slots and timers of DownloadManager do this; the session *)
(* of ContentUpdate takes the same steps.                                  *)
(***************************************************************************)
CONSTANTS
    RevisionFiles,  \* the files of the first round
    ContentFiles    \* those the second round may need

VARIABLES phase, revision, queue

vars == <<phase, revision, queue>>

Phases == {"idle", "sizing", "fetching"}

FilesOf(rev) == IF rev THEN RevisionFiles ELSE ContentFiles

\* Between sessions, the round to come is the first.
Init == phase = "idle" /\ queue = {} /\ revision = TRUE

Start ==
    /\ phase = "idle"
    /\ phase' = "sizing"
    /\ UNCHANGED <<revision, queue>>

\* Which files are fetched is known, any of those asked for.
Sized ==
    /\ phase = "sizing"
    /\ phase' = "fetching"
    /\ queue' \in SUBSET FilesOf(revision)
    /\ UNCHANGED revision

\* The session is given up; the next one begins anew.
GiveUp ==
    /\ phase = "sizing"
    /\ phase' = "idle"
    /\ revision' = TRUE
    /\ UNCHANGED queue

Fetch ==
    /\ phase = "fetching"
    /\ \E f \in queue : queue' = queue \ {f}
    /\ UNCHANGED <<phase, revision>>

\* There may be nothing to size in the second round.
NextRound ==
    /\ phase = "fetching" /\ queue = {}
    /\ revision
    /\ revision' = FALSE
    /\ phase' \in {"sizing", "fetching"}
    /\ UNCHANGED queue

Finish ==
    /\ phase = "fetching" /\ queue = {}
    /\ ~revision
    /\ phase' = "idle"
    /\ revision' = TRUE
    /\ UNCHANGED queue

Progress == Sized \/ GiveUp \/ Fetch \/ NextRound \/ Finish

Next == Start \/ Progress

\* A session that began comes to an end; when the next begins is not said.
Spec == Init /\ [][Next]_vars /\ WF_vars(Progress)

=============================================================================
