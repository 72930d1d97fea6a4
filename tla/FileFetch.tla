----------------------------- MODULE FileFetch -----------------------------
(***************************************************************************)
(* What the rest of the program needs of a download: a fetch is one step   *)
(* that grows the file in .sync and pronounces on it.  FileDownload shows  *)
(* that the slots, timers and queued signals of DownloadManager add up to  *)
(* this, and ContentUpdate is built from the same step.                    *)
(***************************************************************************)
EXTENDS LocalFile

VARIABLES
    kind,       \* the kind of the file
    lossy,      \* a write may fail or the server may end a transfer early
    told,       \* a size the verdict needs is told by the server
    dying,      \* the process may die in the middle of a fetch
    file,       \* the file in .sync
    status      \* the verdict on it

surroundings == <<kind, lossy, told, dying>>

Kinds == {"revision", "advert", "music"}

Verdicts(k) == IF k = "revision" THEN {"DOWNLOAD_FAIL"} ELSE {"DEFAULT"}

Init ==
    /\ kind \in Kinds
    /\ lossy \in BOOLEAN
    /\ told \in BOOLEAN
    /\ dying \in BOOLEAN
    /\ file = NoFile
    /\ status = "DEFAULT"

\* Listed files carry no verdict: untrusted content is listed, and the
\* directory that holds revstorage is removed before revision files are.
Fetch ==
    /\ status = "DEFAULT"
    /\ \E r \in FetchResults(file, lossy, told) :
          /\ file' = r.file
          /\ IF r.trusted THEN status' = "DOWNLOAD_OK" ELSE status' \in Verdicts(kind)
    /\ UNCHANGED surroundings

\* A process that dies leaves what it had appended and no verdict.
Die ==
    /\ dying
    /\ status = "DEFAULT"
    /\ file' \in Grown(file, lossy)
    /\ UNCHANGED <<surroundings, status>>

\* The file is listed again, or moved away.
Relist ==
    /\ kind = "revision" \/ status = "DEFAULT"
    /\ file' \in IF kind = "music" THEN {file, NoFile} ELSE {NoFile}
    /\ status' = "DEFAULT"
    /\ UNCHANGED surroundings

Move ==
    /\ kind # "revision"
    /\ status = "DOWNLOAD_OK"
    /\ file' = NoFile
    /\ status' = "DEFAULT"
    /\ UNCHANGED surroundings

Next == Fetch \/ Die \/ Relist \/ Move

Spec == Init /\ [][Next]_<<kind, lossy, told, dying, file, status>>

=============================================================================
