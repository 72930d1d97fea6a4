---------------------------- MODULE FileDownload ----------------------------
(***************************************************************************)
(* One file of the download list: DownloadManager's slots around one       *)
(* QNetworkReply, from nextDownload() to downloadFinished(), and what the  *)
(* next sessions do with the file it leaves in .sync.                      *)
(*                                                                         *)
(* Every connection to the reply is a Qt::QueuedConnection, so a signal is *)
(* a call appended to the event loop's queue (events), and the slot runs   *)
(* when it reaches the head, possibly long after the reply has moved on.   *)
(* mDownloadTimer may expire at any moment it is running, also between two *)
(* queued calls.                                                           *)
(***************************************************************************)
EXTENDS LocalFile, Sequences

\* The surroundings considered: records of the kind of file, what may go wrong
\* besides the network, and mBufferSize in chunks (0 is Qt's "unlimited").
CONSTANT Environments

AllKinds  == {"revision", "advert", "music"}
\* "open": the file may fail to open, now and then; "readonly": it never opens;
\* "write": a write may fail; "short": the server may send less than the file
\* and report no error; "unsized": it may not tell the size of the file;
\* "power": the process may die.
AllFaults == {"open", "readonly", "write", "short", "unsized", "power"}

ASSUME FileDownloadAssumption ==
    Environments \subseteq [kind : AllKinds, faults : SUBSET AllFaults, buffer : Nat]

VARIABLES
    env,        \* the surroundings of this file, chosen once
    stage,      \* "listed": nextDownload posted; "active": a reply; "ended"
    file,       \* the file in .sync
    status,     \* revstorage status of the file, or trust in checkstorage
    reply,      \* mCurrentReply and the transfer behind it
    events,     \* queued slot calls, oldest first
    timer,      \* mDownloadTimer is running
    timedOut,   \* mDownloadTimeout
    full,       \* mFullDownloadBytes
    begun       \* history: file as it was at nextDownload()

vars == <<env, stage, file, status, reply, events, timer, timedOut, full, begun>>

\* "revision" when mRevision, else the type of the content.
kind == env.kind

Faults == env.faults

\* The disk takes what it is given and a short transfer is an error.
Reliable == Faults \subseteq {"power", "unsized"}

\* mFullDownloadBytes can be relied upon: revision files do without it, and
\* content needs the size of the file for it.
Told == kind = "revision" \/ "unsized" \notin Faults

\* CheckDownloadedContent::CHECK_STATUS; setTrust() is recorded as DOWNLOAD_OK.
Status == {"DEFAULT", "DOWNLOAD_OK", "DOWNLOAD_FAIL"}

NoReply == [live |-> FALSE, open |-> FALSE, sized |-> FALSE, error |-> FALSE,
            recv |-> 0, avail |-> 0]

Reply == [live : BOOLEAN, open : BOOLEAN, sized : BOOLEAN, error : BOOLEAN,
          recv : 0 .. Size, avail : 0 .. Size]

Event == {<<"readyRead">>, <<"error">>, <<"finished">>} \cup
         ({"downloadProgress"} \X (0 .. Size) \X (-1 .. Size))

TypeOK ==
    /\ env \in Environments
    /\ stage \in {"listed", "active", "ended"}
    /\ file \in File
    /\ begun \in File
    /\ status \in Status
    /\ reply \in Reply
    /\ events \in Seq(Event)
    /\ timer \in BOOLEAN
    /\ timedOut \in BOOLEAN
    /\ full \in BOOLEAN

Init ==
    /\ env \in Environments
    /\ stage = "listed"
    /\ file = NoFile
    /\ begun = NoFile
    /\ status = "DEFAULT"
    /\ reply = NoReply
    /\ events = <<>>
    /\ timer = FALSE
    /\ timedOut = FALSE
    /\ full = FALSE

-----------------------------------------------------------------------------
(***************************************************************************)
(* Starting.                                                               *)
(***************************************************************************)

\* nextDownload() takes the file off mContentFiles and issues the request.
NextDownload ==
    /\ stage = "listed"
    /\ stage' = "active"
    /\ \E sized \in IF "unsized" \in Faults THEN BOOLEAN ELSE {TRUE} :
          reply' = [NoReply EXCEPT !.live = TRUE, !.open = TRUE, !.sized = sized]
    /\ timedOut' = FALSE
    /\ full' = FALSE
    /\ timer' = TRUE
    /\ begun' = file
    /\ UNCHANGED <<env, file, status, events>>

-----------------------------------------------------------------------------
(***************************************************************************)
(* The transfer, as far as its signals tell (QNetworkAccessManager).       *)
(***************************************************************************)

\* What downloadProgress tells of a transfer: the bytes received and, while it
\* lasts, the size of the file or -1.
Progress(r, total) == <<"downloadProgress", r.recv, total>>

Total(r) == IF r.sized THEN Size ELSE -1

\* When a transfer ends, however it ends, QNetworkReply tells its progress once
\* more if the size is unknown, with the bytes received for the size; of a file
\* whose size is known some versions do so too.  finished() follows.
Ending(calls, r) ==
    {calls \o last \o << <<"finished">> >> :
        last \in IF r.sized THEN {<<>>, <<Progress(r, Size)>>}
                           ELSE {<<Progress(r, r.recv)>>}}

\* A chunk arrives, unless the read buffer is full.
ReceiveData ==
    /\ reply.open
    /\ reply.recv < Size
    /\ env.buffer = 0 \/ reply.avail < env.buffer
    /\ reply' = [reply EXCEPT !.recv = @ + 1, !.avail = @ + 1]
    /\ events' = events \o << <<"readyRead">>, Progress(reply', Total(reply)) >>
    /\ UNCHANGED <<env, stage, file, status, timer, timedOut, full, begun>>

\* The transfer ends without an error; "short": before all data was sent.
TransferDone ==
    /\ reply.open
    /\ reply.recv = Size \/ "short" \in Faults
    /\ reply' = [reply EXCEPT !.open = FALSE]
    /\ events' \in Ending(events, reply)
    /\ UNCHANGED <<env, stage, file, status, timer, timedOut, full, begun>>

\* The transfer fails; QNetworkReply::abort() reports itself the same way.
Fail(r) == [r EXCEPT !.open = FALSE, !.error = TRUE]

Failure(r) == Ending(Append(events, <<"error">>), r)

TransferFails ==
    /\ reply.open
    /\ reply' = Fail(reply)
    /\ events' \in Failure(reply)
    /\ UNCHANGED <<env, stage, file, status, timer, timedOut, full, begun>>

-----------------------------------------------------------------------------
(***************************************************************************)
(* The slots.                                                              *)
(***************************************************************************)

Runs(slot) == events # <<>> /\ Head(events)[1] = slot

\* Mutants of Save: the file is opened with WriteOnly; one buffer's worth is
\* read whatever there is.
SaveTruncating ==
    /\ file' = [len |-> reply.avail, clean |-> reply.recv = reply.avail]
    /\ reply' = [reply EXCEPT !.avail = 0]
    /\ timer' = TRUE

SaveOneBuffer ==
    /\ file' = Appended(file, reply.recv - reply.avail, 1)
    /\ reply' = [reply EXCEPT !.avail = @ - 1]
    /\ timer' = TRUE

\* saveDownloadedFile(): append what the reply holds.  When the file cannot be
\* opened nothing is read; when write() fails what was read is gone.
Save ==
    /\ timer' = TRUE
    /\ \/ /\ Faults \cap {"open", "readonly"} # {}
          /\ UNCHANGED <<file, reply>>
       \/ /\ "readonly" \notin Faults
          /\ \E n \in 0 .. reply.avail :
                /\ n = reply.avail \/ "write" \in Faults
                /\ file' = Appended(file, reply.recv - reply.avail, n)
          /\ reply' = [reply EXCEPT !.avail = 0]

SaveDownloadedFile ==
    /\ Runs("readyRead")
    /\ Save
    /\ events' = Tail(events)
    /\ UNCHANGED <<env, stage, status, timedOut, full, begun>>

\* downloadProgress(cb, tb): the download is taken for complete when the bytes
\* received reach the total and the file on disk has just that size.
DownloadProgress ==
    /\ Runs("downloadProgress")
    /\ LET cb == Head(events)[2]
           tb == Head(events)[3]
       IN  full' = (full \/ /\ kind # "revision"
                            /\ cb >= tb /\ cb > 0 /\ tb # -1
                            /\ file.len = cb)
    /\ timer' = TRUE
    /\ events' = Tail(events)
    /\ UNCHANGED <<env, stage, file, status, reply, timedOut, begun>>

ReplyError ==
    /\ Runs("error")
    /\ timer' = FALSE
    /\ events' = Tail(events)
    /\ UNCHANGED <<env, stage, file, status, reply, timedOut, full, begun>>

\* The verdict of downloadFinished(): a transfer without error or timeout, or
\* (content only) one whose size was seen to be complete.
\* Mutant of Clear: the file need only be there.
ClearIfPresent == Exists(file)

Clear == Exists(file) /\ ~timedOut /\ ~reply.error

\* Mutant of Verdict: the received bytes do not count.
VerdictByError ==
    IF Clear THEN "DOWNLOAD_OK"
    ELSE IF kind = "revision" THEN "DOWNLOAD_FAIL" ELSE status

Verdict ==
    IF kind = "revision"
    THEN IF Clear THEN "DOWNLOAD_OK" ELSE "DOWNLOAD_FAIL"
    ELSE IF Clear \/ (Exists(file) /\ full) THEN "DOWNLOAD_OK" ELSE status

\* Mutant of DownloadFinished: the timer is not stopped.
FinishedWithTimer ==
    /\ Runs("finished")
    /\ status' = Verdict
    /\ reply' = NoReply
    /\ stage' = "ended"
    /\ events' = Tail(events)
    /\ UNCHANGED <<env, file, timer, timedOut, full, begun>>

DownloadFinished ==
    /\ Runs("finished")
    /\ timer' = FALSE
    /\ status' = Verdict
    /\ reply' = NoReply
    /\ stage' = "ended"
    /\ events' = Tail(events)
    /\ UNCHANGED <<env, file, timedOut, full, begun>>

\* Mutant of DownloadTimeout: the flag is set, abort() is not called.
TimeoutWithoutAbort ==
    /\ timer
    /\ IF reply.avail > 0
       THEN Save /\ UNCHANGED timedOut
       ELSE /\ timer' = FALSE
            /\ timedOut' = TRUE
            /\ UNCHANGED <<file, reply>>
    /\ UNCHANGED <<env, stage, status, events, full, begun>>

\* mDownloadTimer expires.  Unread data is saved instead; otherwise abort(),
\* which does nothing to a transfer that has already ended.
DownloadTimeout ==
    /\ timer
    /\ IF reply.avail > 0
       THEN Save /\ UNCHANGED <<events, timedOut>>
       ELSE /\ timer' = FALSE
            /\ timedOut' = TRUE
            /\ IF reply.open
               THEN reply' = Fail(reply) /\ events' \in Failure(reply)
               ELSE UNCHANGED <<reply, events>>
            /\ UNCHANGED file
    /\ UNCHANGED <<env, stage, status, full, begun>>

-----------------------------------------------------------------------------
(***************************************************************************)
(* Between two downloads of the same file.                                 *)
(***************************************************************************)

\* The process dies (power, SIGSEGV handler, service stopped): what is on disk
\* stays, everything else is gone.
PowerLoss ==
    /\ "power" \in Faults
    /\ stage = "active"
    /\ stage' = "ended"
    /\ reply' = NoReply
    /\ events' = <<>>
    /\ timer' = FALSE
    /\ UNCHANGED <<env, file, status, timedOut, full, begun>>

\* The next session lists the file again.  Content(REVISION) removes the whole
\* directory; checkFile() removes an untrusted advert.  For music checkFile()
\* looks under .sync/<box>/<channel> while the file is under
\* .sync/<box>/music/<channel>, so only checkAllFiles() at the end of the last
\* session may have removed it: it does so for the first untrusted file.
Collect ==
    /\ stage = "ended"
    /\ kind = "revision" \/ status # "DOWNLOAD_OK"
    /\ stage' = "listed"
    /\ \/ kind # "music" /\ file' = NoFile
       \/ kind = "music" /\ file' \in {file, NoFile}
    /\ status' = "DEFAULT"
    /\ UNCHANGED <<env, reply, events, timer, timedOut, full, begun>>

\* copyToDestination() moves a trusted file to the media directory.
MoveToMedia ==
    /\ stage = "ended"
    /\ kind # "revision" /\ status = "DOWNLOAD_OK"
    /\ file' = NoFile
    /\ status' = "DEFAULT"
    /\ UNCHANGED <<env, stage, reply, events, timer, timedOut, full, begun>>

Slot == SaveDownloadedFile \/ DownloadProgress \/ ReplyError \/ DownloadFinished

Next ==
    \/ NextDownload
    \/ ReceiveData \/ TransferDone \/ TransferFails
    \/ SaveDownloadedFile \/ DownloadProgress \/ ReplyError \/ DownloadFinished
    \/ DownloadTimeout
    \/ PowerLoss \/ Collect \/ MoveToMedia

\* The event loop runs posted calls and expired timers.  Nothing is assumed of
\* the network.
Fairness == WF_vars(Slot) /\ WF_vars(DownloadTimeout)

Spec == Init /\ [][Next]_vars /\ Fairness

-----------------------------------------------------------------------------
(***************************************************************************)
(* Properties.                                                             *)
(***************************************************************************)

\* A file with the verdict DOWNLOAD_OK is all of the server's file, whatever
\* mix of timeouts, errors and interrupted sessions came before: the lists
\* decide what is deleted and the content is played (downloadFinished).
\* Stated for a disk that writes, transfers that report being cut short and,
\* for content, a server that tells the size of the file.
TrustedIsComplete ==
    Reliable /\ Told /\ stage = "ended" /\ status = "DOWNLOAD_OK" => Intact(file)

\* The same of the transfer, whether or not the server tells the size: content
\* is trusted only when all of it was received.  The comments at
\* downloadmanager.cpp:251-253 and 292-294 say of mFullDownloadBytes that the
\* download was completed, and that an unknown size never sets it.
TrustedWasReceived ==
    [][ DownloadFinished /\ Reliable /\ kind # "revision" /\ status' = "DOWNLOAD_OK"
            => reply.recv = Size ]_vars

\* The other direction, as the comment at downloadmanager.cpp:251-253 has it: a
\* content file whose size the server told and that was received in full is
\* trusted, even when the timeout or an error struck before finished ran.
CompleteIsTrusted ==
    [][ DownloadFinished /\ Reliable /\ kind # "revision"
            /\ reply.sized /\ Intact(file)
            => status' = "DOWNLOAD_OK" ]_vars

\* No queued slot and no timeout runs without the reply it dereferences:
\* downloadFinished() sets mCurrentReply to null, and both downloadTimeout()
\* and saveDownloadedFile() use it unchecked.
TimerNeedsReply ==
    timer \/ events # <<>> => reply.live

\* Every download comes to an end, on a network that may fall silent at any
\* point: mDownloadTimer is always running when nothing else is queued, and
\* cannot be kept busy for ever by data that is there to be saved.  Left out is a
\* file that does not open: a timeout then saves nothing and starts again.
DownloadEnds ==
    stage = "active" /\ Faults \cap {"open", "readonly"} = {} ~> stage = "ended"

\* The slots implement one atomic fetch: seen from .sync and the two status
\* stores, a download is a single step from the file it began with.
Fetch == INSTANCE FileFetch WITH
    file  <- IF stage = "active" THEN begun ELSE file,
    lossy <- ~Reliable,
    told  <- Told,
    dying <- "power" \in Faults

FetchSpec == Fetch!Spec

=============================================================================
