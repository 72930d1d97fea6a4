-------------------------- MODULE DownloadSession --------------------------
(***************************************************************************)
(* The control of a session: UpdateController's timer, the account         *)
(* request, and DownloadManager's chains of slots, first around QFtp, which*)
(* tells the sizes of the files, then from download to download.           *)
(*                                                                         *)
(* Each chain is kept going by the slot that runs next: the answer of the  *)
(* FTP server or mFtpTimer, a posted nextDownload(), the end of the reply, *)
(* the update timer.  QFtp's signals are direct calls; a slot that asks    *)
(* for another command does so while the old one is still the head of      *)
(* QFtp's queue.                                                           *)
(***************************************************************************)
EXTENDS Integers, Sequences, Functions

CONSTANTS
    RevisionFiles,  \* numbers, in the order of mContentFilesMap
    ContentFiles,
    MaxAnswers      \* answers to one LIST: its lines, and its failure

NoFile == 0

Files == RevisionFiles \cup ContentFiles

FilesOf(rev) == IF rev THEN RevisionFiles ELSE ContentFiles

ASSUME DownloadSessionAssumption ==
    /\ RevisionFiles \subseteq Nat \ {NoFile}
    /\ ContentFiles \subseteq Nat \ {NoFile}
    /\ RevisionFiles # {}
    /\ RevisionFiles \cap ContentFiles = {}
    /\ MaxAnswers \in Nat \ {0}

VARIABLES
    updateTimer,    \* mUpdateTimer is running
    asking,         \* AccountManager will emit requestReady
    mRevision,      \* this is the round of revision files
    pending,        \* QFtp's commands; the head is in progress
    lines,          \* lines the LIST in progress has brought
    ftpTimer,       \* mFtpTimer is running
    mFtpTimeout,    \* it has expired
    toSize,         \* mFtpContentFiles
    mContentFiles,  \* files to download
    current,        \* mCurrentContentFile; NoFile when its Content is deleted
    posted,         \* calls of nextDownload() in the event queue
    reply           \* the file mCurrentReply was asked for

controller == <<updateTimer, asking>>
ftp        == <<pending, lines, ftpTimer, mFtpTimeout, toSize>>
download   == <<mRevision, mContentFiles, current, posted, reply>>

vars == <<controller, ftp, download>>

Commands == {"connect", "login", "list", "close"}

\* The two lists of files, and the file in hand, are of the round at hand.
TypeOK ==
    /\ updateTimer \in BOOLEAN
    /\ asking \in BOOLEAN
    /\ mRevision \in BOOLEAN
    /\ pending \in Seq(Commands)
    /\ lines \in Nat
    /\ ftpTimer \in BOOLEAN
    /\ mFtpTimeout \in BOOLEAN
    /\ toSize \subseteq FilesOf(mRevision)
    /\ mContentFiles \in Seq(FilesOf(mRevision))
    /\ current \in FilesOf(mRevision) \cup {NoFile}
    /\ posted \in Nat
    /\ reply \in Files \cup {NoFile}

\* UpdateController posts its first start(), which is as good as a timer.
Init ==
    /\ updateTimer = TRUE
    /\ asking = FALSE
    /\ mRevision = TRUE
    /\ pending = <<>> /\ lines = 0
    /\ ftpTimer = FALSE /\ mFtpTimeout = FALSE
    /\ toSize = {} /\ mContentFiles = <<>> /\ current = NoFile
    /\ posted = 0
    /\ reply = NoFile

-----------------------------------------------------------------------------
(***************************************************************************)
(* What several slots call.                                                *)
(***************************************************************************)

First(f, S) == f \in S /\ \A g \in S : f <= g

\* connectToFtp(), on a new QFtp.
ConnectToFtp ==
    /\ pending' = <<"connect", "login">>
    /\ lines' = 0
    /\ ftpTimer' = TRUE
    /\ mFtpTimeout' = FALSE

\* nextFtpFile(), called while QFtp's queue is to become rest.  The last call
\* closes the connection and posts nextDownload(); others restart the timer.
NextFtpFile(rest) ==
    \/ /\ toSize = {}
       /\ pending' = Append(rest, "close")
       /\ posted' = posted + 1
       /\ ftpTimer' = FALSE
       /\ UNCHANGED <<mFtpTimeout, toSize, current>>
    \/ /\ \E f \in toSize :
             /\ First(f, toSize)
             /\ current' = f
             /\ toSize' = toSize \ {f}
       /\ pending' = Append(rest, "list")
       /\ ftpTimer' = TRUE
       /\ mFtpTimeout' = FALSE
       /\ UNCHANGED posted

\* ftpCommandFinished(id, true) for an error that ends the session; QFtp has
\* dropped every command.
Fatal ==
    /\ pending' = <<>>
    /\ lines' = 0
    /\ IF mFtpTimeout
       THEN UNCHANGED <<ftpTimer, updateTimer>>
       ELSE ftpTimer' = FALSE /\ updateTimer' = TRUE
    /\ UNCHANGED <<asking, mFtpTimeout, toSize, download>>

-----------------------------------------------------------------------------
(***************************************************************************)
(* UpdateController and the account request.                               *)
(***************************************************************************)

\* start() sends the request.  When it cannot, it restarts the timer, which is
\* no change here.
UpdateTimeout ==
    /\ updateTimer
    /\ updateTimer' = FALSE
    /\ asking' = TRUE
    /\ UNCHANGED <<ftp, download>>

\* accountManagerReady() without an account or a box.
AccountRefused ==
    /\ asking
    /\ asking' = FALSE
    /\ updateTimer' = TRUE
    /\ UNCHANGED <<ftp, download>>

\* Mutant of DownloadStart: mRevision is not set again.
DownloadStartUnreset ==
    /\ asking
    /\ asking' = FALSE
    /\ mContentFiles' = <<>>
    /\ current' = NoFile
    /\ toSize' = RevisionFiles
    /\ UNCHANGED <<mRevision, posted, reply>>

\* DownloadManager::start() up to connectToFtp().
DownloadStart ==
    /\ asking
    /\ asking' = FALSE
    /\ mRevision' = TRUE
    /\ mContentFiles' = <<>>
    /\ current' = NoFile
    /\ toSize' = RevisionFiles
    /\ UNCHANGED <<posted, reply>>

\* The account has no host, login or password: connectToFtp() is false.
NoFtpLogin ==
    /\ DownloadStart
    /\ pending' = <<>> /\ lines' = 0
    /\ updateTimer' = TRUE
    /\ UNCHANGED <<ftpTimer, mFtpTimeout>>

AccountReady ==
    /\ DownloadStart
    /\ ConnectToFtp
    /\ UNCHANGED updateTimer

-----------------------------------------------------------------------------
(***************************************************************************)
(* QFtp's signals.                                                         *)
(***************************************************************************)

InProgress(cmd) == pending # <<>> /\ Head(pending) = cmd

Connected ==
    /\ InProgress("connect")
    /\ pending' = Tail(pending)
    /\ UNCHANGED <<controller, lines, ftpTimer, mFtpTimeout, toSize, download>>

\* The host is not found, or refuses the connection.
ConnectFails == InProgress("connect") /\ Fatal

LoggedIn ==
    /\ InProgress("login")
    /\ IF mFtpTimeout
       THEN /\ pending' = Tail(pending)
            /\ UNCHANGED <<ftpTimer, mFtpTimeout, toSize, current, posted>>
       ELSE NextFtpFile(Tail(pending))
    /\ UNCHANGED <<controller, lines, mRevision, mContentFiles, reply>>

\* The server refuses a command.  QFtp calls it an unknown error, after which
\* the chain goes on; a refused login makes every LIST fail as well.
MayBeRefused ==
    \/ InProgress("login")
    \/ InProgress("list") /\ lines < MaxAnswers

\* Mutant of Refused: mFtpTimeout is not looked at.
RefusedLate ==
    /\ MayBeRefused
    /\ lines' = 0
    /\ NextFtpFile(<<>>)
    /\ UNCHANGED <<controller, mRevision, mContentFiles, reply>>

Refused ==
    /\ MayBeRefused
    /\ lines' = 0
    /\ IF mFtpTimeout
       THEN /\ pending' = <<>>
            /\ UNCHANGED <<ftpTimer, mFtpTimeout, toSize, current, posted>>
       ELSE NextFtpFile(<<>>)
    /\ UNCHANGED <<controller, mRevision, mContentFiles, reply>>

\* The data connection of LIST is refused; or, after a line, the connection is
\* gone by the time LIST ends, and the next command finds itself not connected.
ListBreaks == InProgress("list") /\ lines < MaxAnswers /\ Fatal

\* Mutant of ListInfo: mFtpTimeout is not looked at.
ListInfoLate ==
    /\ InProgress("list")
    /\ lines < MaxAnswers
    /\ lines' = lines + 1
    /\ mContentFiles' \in {mContentFiles, Append(mContentFiles, current)}
    /\ NextFtpFile(pending)
    /\ UNCHANGED <<controller, mRevision, reply>>

\* listInfo() for a line of LIST, which may be that of a directory.
ListInfo ==
    /\ InProgress("list")
    /\ lines < MaxAnswers
    /\ lines' = lines + 1
    /\ IF mFtpTimeout
       THEN /\ ftpTimer' = FALSE
            /\ UNCHANGED <<pending, mFtpTimeout, toSize, mContentFiles, current, posted>>
       ELSE /\ mContentFiles' \in {mContentFiles, Append(mContentFiles, current)}
            /\ NextFtpFile(pending)
    /\ UNCHANGED <<controller, mRevision, reply>>

\* LIST ends well, with or without a line; nothing is done about it.
ListDone ==
    /\ InProgress("list")
    /\ pending' = Tail(pending)
    /\ lines' = 0
    /\ UNCHANGED <<controller, ftpTimer, mFtpTimeout, toSize, download>>

Closed ==
    /\ InProgress("close")
    /\ pending' = Tail(pending)
    /\ UNCHANGED <<controller, lines, ftpTimer, mFtpTimeout, toSize, download>>

\* Mutant of FtpTimeout: mFtpTimeout is not set.
FtpTimeoutForgotten ==
    /\ ftpTimer
    /\ ftpTimer' = FALSE
    /\ pending' = Append(pending, "close")
    /\ updateTimer' = TRUE
    /\ UNCHANGED <<asking, lines, mFtpTimeout, toSize, download>>

\* No answer: the session is over, and what QFtp still says is not heard.
FtpTimeout ==
    /\ ftpTimer
    /\ ftpTimer' = FALSE
    /\ mFtpTimeout' = TRUE
    /\ pending' = Append(pending, "close")
    /\ updateTimer' = TRUE
    /\ UNCHANGED <<asking, lines, toSize, download>>

-----------------------------------------------------------------------------
(***************************************************************************)
(* nextDownload() and the reply.                                           *)
(***************************************************************************)

Download ==
    /\ posted > 0
    /\ mContentFiles # <<>>
    /\ posted' = posted - 1
    /\ current' = Head(mContentFiles)
    /\ reply' = Head(mContentFiles)
    /\ mContentFiles' = Tail(mContentFiles)
    /\ UNCHANGED <<controller, ftp, mRevision>>

\* startContent(): the Content objects of the revision files are deleted, and
\* the lists are read.  When nothing is missing there is nothing to size.
StartContent ==
    /\ posted > 0
    /\ mContentFiles = <<>>
    /\ mRevision
    /\ mRevision' = FALSE
    /\ current' = NoFile
    /\ toSize' \in SUBSET ContentFiles
    /\ IF toSize' = {}
       THEN /\ pending' = <<>> /\ lines' = 0
            /\ UNCHANGED <<posted, ftpTimer, mFtpTimeout>>
       ELSE /\ ConnectToFtp
            /\ posted' = posted - 1
    /\ UNCHANGED <<controller, mContentFiles, reply>>

\* Mutant of Finish: startTimer is not emitted.
FinishForGood ==
    /\ posted > 0
    /\ mContentFiles = <<>>
    /\ ~mRevision
    /\ posted' = posted - 1
    /\ current' = NoFile
    /\ UNCHANGED <<controller, ftp, mRevision, mContentFiles, reply>>

\* The end of nextDownload(): syncContent(), which deletes the Content objects
\* of the content files, and startTimer().
Finish ==
    /\ posted > 0
    /\ mContentFiles = <<>>
    /\ ~mRevision
    /\ posted' = posted - 1
    /\ current' = NoFile
    /\ updateTimer' = TRUE
    /\ UNCHANGED <<asking, ftp, mRevision, mContentFiles, reply>>

\* The reply ends (FileDownload!DownloadEnds), and nextDownload() is posted.
DownloadFinished ==
    /\ reply # NoFile
    /\ reply' = NoFile
    /\ posted' = posted + 1
    /\ UNCHANGED <<controller, ftp, mRevision, mContentFiles, current>>

Account == UpdateTimeout \/ AccountRefused \/ NoFtpLogin \/ AccountReady

FtpSignal ==
    \/ Connected \/ ConnectFails \/ LoggedIn \/ Refused \/ ListBreaks
    \/ ListInfo \/ ListDone \/ Closed

Downloading == Download \/ StartContent \/ Finish \/ DownloadFinished

Next == Account \/ FtpSignal \/ FtpTimeout \/ Downloading

\* The event loop runs what is posted and expired timers, and AccountManager
\* has a timer of its own.  Nothing is assumed of the FTP server.
Fairness ==
    /\ WF_vars(Account)
    /\ WF_vars(FtpTimeout)
    /\ WF_vars(Downloading)

Spec == Init /\ [][Next]_vars /\ Fairness

-----------------------------------------------------------------------------
(***************************************************************************)
(* Properties.                                                             *)
(***************************************************************************)

One(b) == IF b THEN 1 ELSE 0

\* At any moment exactly one thing is due that carries the update on.  None,
\* and the box would never be updated again; two, and two chains of slots would
\* share mCurrentContentFile, mContentFiles, mCurrentReply and the Content
\* objects.  The late answers of a server that was given up are the danger.
OneThingDue ==
    One(updateTimer) + One(asking) + One(ftpTimer) + posted + One(reply # NoFile) = 1

\* The slots of a reply save to mCurrentContentFile, through the Content object
\* it points to: no other slot may have changed or deleted it meanwhile.
SavedWhereAsked == reply # NoFile => current = reply

\* When nextDownload() reports "download of files finished" (downloadmanager.cpp:145)
\* and lets syncContent() delete the Content objects, no file is being sized or
\* downloaded.
FinishedWhenDone ==
    [][ Finish => toSize = {} /\ ~ftpTimer /\ reply = NoFile ]_vars

\* "The server does not respond" (downloadmanager.cpp:451): when ftpTimeout() says
\* so and gives the session up, the server owes an answer.
TimeoutMeansSilence == [][ FtpTimeout => pending # <<>> ]_vars

\* The loop as UpdateLoop sees it: idle until the account is known, sizing while
\* mFtpTimer runs.
Idle == updateTimer \/ asking

LoopPhase == IF Idle THEN "idle" ELSE IF ftpTimer THEN "sizing" ELSE "fetching"

LoopRevision == Idle \/ mRevision

LoopQueue ==
    IF LoopPhase = "fetching" THEN Range(mContentFiles) \cup ({reply} \ {NoFile}) ELSE {}

Loop == INSTANCE UpdateLoop WITH
    phase    <- LoopPhase,
    revision <- LoopRevision,
    queue    <- LoopQueue

\* The chains implement the loop, liveness included: however the server behaves
\* or falls silent, a session takes its steps in order and ends.
LoopSpec == Loop!Spec

=============================================================================
