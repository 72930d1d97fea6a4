----------------------- MODULE DownloadSessionProofs -----------------------
(***************************************************************************)
(* Theorems about DownloadSession, for any files, when every LIST has one  *)
(* answer at most: its one line, or its failure.                           *)
(***************************************************************************)
EXTENDS DownloadSession, SequenceTheorems, TLAPS

-----------------------------------------------------------------------------
(***************************************************************************)
(* The inductive invariant.                                                *)
(***************************************************************************)

\* While the server has not been given up, what QFtp does next and whether
\* mFtpTimer runs go together.
Chain ==
    \/ pending = <<"connect", "login">> /\ lines = 0 /\ ftpTimer
    \/ pending = <<"login">> /\ lines = 0 /\ ftpTimer
    \/ pending = <<"list">> /\ lines = 0 /\ ftpTimer /\ current # NoFile
    \/ pending = <<"list", "list">> /\ lines = 1 /\ ftpTimer /\ current # NoFile
    \/ pending = <<"list", "close">> /\ lines = 1 /\ ~ftpTimer
    \/ pending = <<"close">> /\ lines = 0 /\ ~ftpTimer
    \/ pending = <<>> /\ lines = 0

ChainInv == IF mFtpTimeout THEN ~ftpTimer ELSE Chain

\* No file is left to size when files are downloaded.
SizedInv == posted > 0 \/ reply # NoFile => toSize = {}

\* TypeOK in three parts.
FlagsOK ==
    /\ updateTimer \in BOOLEAN /\ asking \in BOOLEAN
    /\ mRevision \in BOOLEAN
    /\ ftpTimer \in BOOLEAN /\ mFtpTimeout \in BOOLEAN

FtpOK == pending \in Seq(Commands) /\ lines \in Nat

FilesOK ==
    /\ toSize \subseteq FilesOf(mRevision)
    /\ mContentFiles \in Seq(FilesOf(mRevision))
    /\ current \in FilesOf(mRevision) \cup {NoFile}
    /\ posted \in Nat
    /\ reply \in Files \cup {NoFile}

SessionInv == TypeOK /\ OneThingDue /\ ChainInv /\ SizedInv /\ SavedWhereAsked
-----------------------------------------------------------------------------
(***************************************************************************)
(* QFtp's queue.                                                           *)
(***************************************************************************)

\* Queues of one or two commands.
LEMMA ShortQueues ==
    ASSUME NEW a \in Commands, NEW b \in Commands
    PROVE  /\ <<a>> # <<>> /\ Head(<<a>>) = a /\ Tail(<<a>>) = <<>>
           /\ <<a, b>> # <<>> /\ Head(<<a, b>>) = a /\ Tail(<<a, b>>) = <<b>>
           /\ Append(<<>>, a) = <<a>>
           /\ Append(<<a>>, b) = <<a, b>>
<1>1. <<a>> # <<>> /\ Head(<<a>>) = a
  OBVIOUS
<1>2. Tail(<<a>>) = <<>>
  OBVIOUS
<1>3. <<a, b>> # <<>> /\ Head(<<a, b>>) = a
  OBVIOUS
<1>4. Tail(<<a, b>>) = <<b>>
  OBVIOUS
<1>5. Append(<<>>, a) = <<a>>
  OBVIOUS
<1>6. Append(<<a>>, b) = <<a, b>>
  <2> DEFINE s == Append(<<a>>, b)
             t == <<a, b>>
  <2>1. s \in Seq(Commands) /\ t \in Seq(Commands) /\ Len(s) = 2 /\ Len(t) = 2
    OBVIOUS
  <2>2. s[1] = a /\ s[2] = b /\ t[1] = a /\ t[2] = b
    OBVIOUS
  <2> HIDE DEF s, t
  <2>3. \A i \in 1 .. 2 : s[i] = t[i]
    BY <2>2
  <2>4. s = t
    BY <2>1, <2>3, SeqEqual
  <2> QED
    BY <2>4 DEF s, t
<1> QED
  BY <1>1, <1>2, <1>3, <1>4, <1>5, <1>6

\* What the command in progress says of the rest.
LEMMA ChainHead ==
    ASSUME Chain
    PROVE  /\ InProgress("connect") =>
                  pending = <<"connect", "login">> /\ lines = 0 /\ ftpTimer
           /\ InProgress("login") => pending = <<"login">> /\ lines = 0 /\ ftpTimer
           /\ InProgress("list") /\ lines < 1 =>
                  pending = <<"list">> /\ lines = 0 /\ ftpTimer /\ current # NoFile
           /\ InProgress("list") =>
                  \/ pending = <<"list">> /\ lines = 0 /\ ftpTimer
                  \/ pending = <<"list", "list">> /\ ftpTimer /\ current # NoFile
                  \/ pending = <<"list", "close">> /\ ~ftpTimer
           /\ InProgress("close") => pending = <<"close">> /\ lines = 0 /\ ~ftpTimer
  BY ShortQueues DEF Chain, InProgress, Commands

\* The chain moves on to the next LIST, or to the end of the session's sizing.
LEMMA ChainMovesOn ==
    ASSUME TypeOK, NEW rest, NextFtpFile(rest), lines' \in Nat,
           \/ rest = <<>> /\ lines' = 0
           \/ rest = <<"list">> /\ lines' = 1
    PROVE  Chain'
<1>1. Append(rest, "list") = IF rest = <<>> THEN <<"list">> ELSE <<"list", "list">>
  BY ShortQueues DEF Commands
<1>2. Append(rest, "close") = IF rest = <<>> THEN <<"close">> ELSE <<"list", "close">>
  BY ShortQueues DEF Commands
<1>3. CASE pending' = Append(rest, "close") /\ ftpTimer' = FALSE
  BY <1>2, <1>3 DEF Chain
<1>4. CASE pending' = Append(rest, "list") /\ ftpTimer' = TRUE /\ current' \in toSize
  <2>1. current' # NoFile
    BY <1>4, DownloadSessionAssumption DEF TypeOK, FilesOf
  <2> QED
    BY <1>1, <1>4, <2>1 DEF Chain
<1> QED
  BY <1>3, <1>4 DEF NextFtpFile, First
-----------------------------------------------------------------------------
(***************************************************************************)
(* What is due.                                                            *)
(***************************************************************************)

\* The thing that is due is the only one.
LEMMA DueAlone ==
    ASSUME TypeOK, OneThingDue
    PROVE  /\ updateTimer => ~asking /\ ~ftpTimer /\ posted = 0 /\ reply = NoFile
           /\ asking => ~updateTimer /\ ~ftpTimer /\ posted = 0 /\ reply = NoFile
           /\ ftpTimer => ~updateTimer /\ ~asking /\ posted = 0 /\ reply = NoFile
           /\ posted > 0 => /\ ~updateTimer /\ ~asking /\ ~ftpTimer
                            /\ posted = 1 /\ reply = NoFile
           /\ reply # NoFile => ~updateTimer /\ ~asking /\ ~ftpTimer /\ posted = 0
  BY DEF TypeOK, OneThingDue, One

\* NextFtpFile keeps its part of the types, and hands over what mFtpTimer is for.
LEMMA NextFtpFileTyped ==
    ASSUME TypeOK, NEW rest \in Seq(Commands), NextFtpFile(rest)
    PROVE  /\ pending' \in Seq(Commands)
           /\ ftpTimer' \in BOOLEAN /\ mFtpTimeout' \in BOOLEAN
           /\ toSize' \subseteq FilesOf(mRevision)
           /\ current' \in FilesOf(mRevision) \cup {NoFile}
           /\ posted' \in Nat
<1>1. "list" \in Commands /\ "close" \in Commands
  BY DEF Commands
<1>2. pending' \in {Append(rest, "list"), Append(rest, "close")}
  BY DEF NextFtpFile
<1>3. pending' \in Seq(Commands)
  BY <1>1, <1>2
<1>4. ftpTimer' \in BOOLEAN /\ mFtpTimeout' \in BOOLEAN
  BY DEF NextFtpFile, TypeOK
<1>5. toSize' \subseteq FilesOf(mRevision)
  BY DEF NextFtpFile, TypeOK
<1>6. current' \in FilesOf(mRevision) \cup {NoFile}
  BY DEF NextFtpFile, TypeOK, First
<1>7. posted' \in Nat
  BY DEF NextFtpFile, TypeOK
<1> QED
  BY <1>3, <1>4, <1>5, <1>6, <1>7

LEMMA NextFtpFileDue ==
    ASSUME NEW rest, NextFtpFile(rest)
    PROVE  \/ toSize = {} /\ toSize' = {} /\ posted' = posted + 1 /\ ftpTimer' = FALSE
           \/ posted' = posted /\ ftpTimer' = TRUE
  BY DEF NextFtpFile
-----------------------------------------------------------------------------
(***************************************************************************)
(* Every step keeps the invariant.                                         *)
(***************************************************************************)

LEMMA InvInit == Init => SessionInv
<1> SUFFICES ASSUME Init
             PROVE  SessionInv
  OBVIOUS
<1> USE DEF Init
<1>1. TypeOK
  <2>1. FlagsOK
    BY DEF FlagsOK
  <2>2. FtpOK
    BY DEF FtpOK
  <2>3. FilesOK
    BY DEF FilesOK, FilesOf
  <2> QED
    BY <2>1, <2>2, <2>3 DEF TypeOK, FlagsOK, FtpOK, FilesOK
<1>2. OneThingDue
  BY DEF OneThingDue, One
<1>3. ChainInv
  BY DEF ChainInv, Chain
<1> QED
  BY <1>1, <1>2, <1>3 DEF SessionInv, SizedInv, SavedWhereAsked

LEMMA InvAccount == SessionInv /\ Account => SessionInv'
<1> SUFFICES ASSUME SessionInv, Account
             PROVE  SessionInv'
  OBVIOUS
<1> USE DEF SessionInv, controller, ftp, download
<1>1. CASE UpdateTimeout
  <2> USE <1>1 DEF UpdateTimeout
  <2>1. TypeOK'
    BY DEF TypeOK
  <2>2. OneThingDue'
    BY DEF TypeOK, OneThingDue, One
  <2>3. ChainInv' /\ SizedInv' /\ SavedWhereAsked'
    BY DEF ChainInv, Chain, SizedInv, SavedWhereAsked
  <2> QED
    BY <2>1, <2>2, <2>3
<1>2. CASE AccountRefused
  <2> USE <1>2 DEF AccountRefused
  <2>1. TypeOK'
    BY DEF TypeOK
  <2>2. OneThingDue'
    BY DEF TypeOK, OneThingDue, One
  <2>3. ChainInv' /\ SizedInv' /\ SavedWhereAsked'
    BY DEF ChainInv, Chain, SizedInv, SavedWhereAsked
  <2> QED
    BY <2>1, <2>2, <2>3
<1>3. CASE NoFtpLogin
  <2> USE <1>3 DEF NoFtpLogin, DownloadStart
  <2>1. /\ ~updateTimer /\ ~ftpTimer /\ posted = 0 /\ reply = NoFile
    BY DueAlone
  <2>2. TypeOK'
    <3>1. FlagsOK'
      BY DEF TypeOK, FlagsOK
    <3>2. FtpOK'
      BY DEF TypeOK, FtpOK, Commands
    <3>3. FilesOK'
      BY DEF TypeOK, FilesOK, FilesOf
    <3> QED
      BY <3>1, <3>2, <3>3 DEF TypeOK, FlagsOK, FtpOK, FilesOK
  <2>3. OneThingDue'
    BY <2>1 DEF OneThingDue, One
  <2>4. ChainInv' /\ SizedInv' /\ SavedWhereAsked'
    BY <2>1 DEF ChainInv, Chain, SizedInv, SavedWhereAsked
  <2> QED
    BY <2>2, <2>3, <2>4
<1>4. CASE AccountReady
  <2> USE <1>4 DEF AccountReady, DownloadStart, ConnectToFtp
  <2>1. /\ ~updateTimer /\ ~ftpTimer /\ posted = 0 /\ reply = NoFile
    BY DueAlone
  <2>2. TypeOK'
    <3>1. FlagsOK'
      BY DEF TypeOK, FlagsOK
    <3>2. FtpOK'
      BY DEF TypeOK, FtpOK, Commands
    <3>3. FilesOK'
      BY DEF TypeOK, FilesOK, FilesOf
    <3> QED
      BY <3>1, <3>2, <3>3 DEF TypeOK, FlagsOK, FtpOK, FilesOK
  <2>3. OneThingDue'
    BY <2>1 DEF OneThingDue, One
  <2>4. ChainInv' /\ SizedInv' /\ SavedWhereAsked'
    BY <2>1 DEF ChainInv, Chain, SizedInv, SavedWhereAsked
  <2> QED
    BY <2>2, <2>3, <2>4
<1> QED
  BY <1>1, <1>2, <1>3, <1>4 DEF Account

\* Everything that ends the session while it is sized: errors, and the timeout.
LEMMA InvFatal ==
    ASSUME SessionInv, Fatal, ~mFtpTimeout => ftpTimer
    PROVE  SessionInv'
<1> USE DEF SessionInv, Fatal, download
<1>1. TypeOK'
  <2>1. FlagsOK'
    BY DEF TypeOK, FlagsOK
  <2>2. FtpOK'
    BY DEF TypeOK, FtpOK, Commands
  <2>3. FilesOK'
    BY DEF TypeOK, FilesOK, FilesOf
  <2> QED
    BY <2>1, <2>2, <2>3 DEF TypeOK, FlagsOK, FtpOK, FilesOK
<1>2. CASE mFtpTimeout
  BY <1>1, <1>2 DEF OneThingDue, ChainInv, SizedInv, SavedWhereAsked
<1>3. CASE ~mFtpTimeout
  <2>1. ~updateTimer /\ ~asking /\ posted = 0 /\ reply = NoFile
    BY <1>3, DueAlone
  <2>2. OneThingDue'
    BY <1>3, <2>1 DEF OneThingDue, One
  <2>3. ChainInv' /\ SizedInv' /\ SavedWhereAsked'
    BY <1>3, <2>1 DEF ChainInv, Chain, SizedInv, SavedWhereAsked
  <2> QED
    BY <1>1, <2>2, <2>3
<1> QED
  BY <1>2, <1>3

LEMMA InvFtpTimeout == SessionInv /\ FtpTimeout => SessionInv'
<1> SUFFICES ASSUME SessionInv, FtpTimeout
             PROVE  SessionInv'
  OBVIOUS
<1> USE DEF SessionInv, FtpTimeout, download
<1>1. ~updateTimer /\ ~asking /\ posted = 0 /\ reply = NoFile
  BY DueAlone
<1>2. TypeOK'
  <2>1. FlagsOK'
    BY DEF TypeOK, FlagsOK
  <2>2. FtpOK'
    BY DEF TypeOK, FtpOK, Commands
  <2>3. FilesOK'
    BY DEF TypeOK, FilesOK, FilesOf
  <2> QED
    BY <2>1, <2>2, <2>3 DEF TypeOK, FlagsOK, FtpOK, FilesOK
<1>3. OneThingDue'
  BY <1>1 DEF OneThingDue, One
<1>4. ChainInv' /\ SizedInv' /\ SavedWhereAsked'
  BY <1>1 DEF ChainInv, SizedInv, SavedWhereAsked
<1> QED
  BY <1>2, <1>3, <1>4
\* The slots that call nextFtpFile() while the server is heard.
LEMMA InvMovesOn ==
    ASSUME SessionInv, ~mFtpTimeout, ftpTimer, NEW rest, NextFtpFile(rest),
           \/ rest = <<>> /\ lines' = 0
           \/ rest = <<"list">> /\ lines' = 1,
           mContentFiles' \in Seq(FilesOf(mRevision)),
           UNCHANGED <<controller, mRevision, reply>>
    PROVE  SessionInv'
<1> USE DEF SessionInv, controller
<1>1. rest \in Seq(Commands) /\ lines' \in Nat
  <2>1. "list" \in Commands
    BY DEF Commands
  <2>2. <<>> \in Seq(Commands) /\ <<"list">> \in Seq(Commands)
    BY <2>1
  <2>3. lines' \in Nat
    OBVIOUS
  <2> QED
    BY <2>2, <2>3
<1>2. ~updateTimer /\ ~asking /\ posted = 0 /\ reply = NoFile
  BY DueAlone
<1>3. TypeOK'
  <2>1. FlagsOK'
    BY <1>1, NextFtpFileTyped DEF TypeOK, FlagsOK
  <2>2. FtpOK'
    BY <1>1, NextFtpFileTyped DEF FtpOK
  <2>3. FilesOK'
    BY <1>1, NextFtpFileTyped DEF TypeOK, FilesOK
  <2> QED
    BY <2>1, <2>2, <2>3 DEF TypeOK, FlagsOK, FtpOK, FilesOK
<1>a. \/ toSize' = {} /\ posted' = 1 /\ ftpTimer' = FALSE
      \/ posted' = 0 /\ ftpTimer' = TRUE
  <2>1. \/ toSize = {} /\ toSize' = {} /\ posted' = posted + 1 /\ ftpTimer' = FALSE
        \/ posted' = posted /\ ftpTimer' = TRUE
    BY NextFtpFileDue
  <2> QED
    BY <1>2, <2>1
<1>b. ~updateTimer' /\ ~asking' /\ reply' = NoFile
  BY <1>2
<1>4. OneThingDue'
  BY <1>a, <1>b DEF OneThingDue, One
<1>5. ChainInv'
  <2>1. Chain'
    BY <1>1, ChainMovesOn
  <2>2. ~mFtpTimeout'
    BY DEF NextFtpFile
  <2> QED
    BY <2>1, <2>2 DEF ChainInv
<1>6. SizedInv' /\ SavedWhereAsked'
  BY <1>a, <1>b DEF SizedInv, SavedWhereAsked
<1> QED
  BY <1>3, <1>4, <1>5, <1>6

\* A signal nobody hears, and the end of a command that nobody waits for.
LEMMA InvQuiet ==
    ASSUME SessionInv, NEW rest \in Seq(Commands), pending' = rest,
           lines' \in Nat, ftpTimer' = ftpTimer, Chain /\ ~mFtpTimeout => Chain',
           UNCHANGED <<controller, mFtpTimeout, toSize, download>>
    PROVE  SessionInv'
<1> USE DEF SessionInv, controller, download
<1>1. TypeOK'
  <2>1. FlagsOK'
    BY DEF TypeOK, FlagsOK
  <2>2. FtpOK'
    BY DEF FtpOK
  <2>3. FilesOK'
    BY DEF TypeOK, FilesOK
  <2> QED
    BY <2>1, <2>2, <2>3 DEF TypeOK, FlagsOK, FtpOK, FilesOK
<1>2. OneThingDue'
  BY DEF OneThingDue
<1>3. ChainInv' /\ SizedInv' /\ SavedWhereAsked'
  BY DEF ChainInv, SizedInv, SavedWhereAsked
<1> QED
  BY <1>1, <1>2, <1>3

LEMMA TailTyped ==
    ASSUME TypeOK, NEW cmd, InProgress(cmd)
    PROVE  Tail(pending) \in Seq(Commands)
  BY DEF TypeOK, InProgress

LEMMA InvFtpSignal == MaxAnswers = 1 /\ SessionInv /\ FtpSignal => SessionInv'
<1> SUFFICES ASSUME MaxAnswers = 1, SessionInv, FtpSignal
             PROVE  SessionInv'
  OBVIOUS
<1> USE DEF SessionInv
<1>a. ~mFtpTimeout => Chain
  BY DEF ChainInv
<1>b. "login" \in Commands /\ "list" \in Commands /\ "close" \in Commands
  BY DEF Commands
<1>1. CASE Connected
  <2>1. Tail(pending) \in Seq(Commands) /\ lines' \in Nat
    BY <1>1, TailTyped DEF Connected, TypeOK
  <2>2. ~mFtpTimeout => pending' = <<"login">> /\ lines' = 0 /\ ftpTimer'
    BY <1>1, <1>a, ChainHead, ShortQueues DEF Connected, Commands
  <2>3. ~mFtpTimeout => Chain'
    BY <2>2 DEF Chain
  <2> QED
    BY <1>1, <2>1, <2>3, InvQuiet DEF Connected
<1>2. CASE ConnectFails
  BY <1>2, <1>a, ChainHead, InvFatal DEF ConnectFails
<1>3. CASE LoggedIn
  <2>1. Tail(pending) \in Seq(Commands) /\ lines' \in Nat
    BY <1>3, TailTyped DEF LoggedIn, TypeOK
  <2>2. CASE mFtpTimeout
    BY <1>3, <2>1, <2>2, InvQuiet DEF LoggedIn, download
  <2>3. CASE ~mFtpTimeout
    <3>1. pending = <<"login">> /\ lines = 0 /\ ftpTimer
      BY <1>3, <1>a, <2>3, ChainHead DEF LoggedIn
    <3>2. Tail(pending) = <<>>
      BY <3>1, <1>b, ShortQueues
    <3>3. NextFtpFile(Tail(pending)) /\ lines' = 0 /\ mContentFiles' = mContentFiles
      BY <1>3, <2>3, <3>1 DEF LoggedIn
    <3>4. mContentFiles' \in Seq(FilesOf(mRevision))
      BY <3>3 DEF TypeOK
    <3> QED
      BY <1>3, <2>3, <3>1, <3>2, <3>3, <3>4, InvMovesOn DEF LoggedIn
  <2> QED
    BY <2>2, <2>3
<1>4. CASE Refused
  <2>1. CASE mFtpTimeout
    <3>1. <<>> \in Seq(Commands)
      OBVIOUS
    <3> QED
      BY <1>4, <2>1, <3>1, InvQuiet DEF Refused, download
  <2>2. CASE ~mFtpTimeout
    <3>1. ftpTimer
      BY <1>4, <1>a, <2>2, ChainHead DEF Refused, MayBeRefused
    <3>2. NextFtpFile(<<>>) /\ lines' = 0 /\ mContentFiles' \in Seq(FilesOf(mRevision))
      BY <1>4, <2>2 DEF Refused, TypeOK
    <3> QED
      BY <1>4, <2>2, <3>1, <3>2, InvMovesOn DEF Refused
  <2> QED
    BY <2>1, <2>2
<1>5. CASE ListBreaks
  BY <1>5, <1>a, ChainHead, InvFatal DEF ListBreaks
<1>6. CASE ListInfo
  <2>1. CASE mFtpTimeout
    <3>1. ~ftpTimer /\ ftpTimer' = FALSE /\ ftpTimer \in BOOLEAN
      BY <1>6, <2>1 DEF ListInfo, ChainInv, TypeOK
    <3>2. pending \in Seq(Commands) /\ lines' \in Nat
      BY <1>6 DEF ListInfo, TypeOK
    <3> QED
      BY <1>6, <2>1, <3>1, <3>2, InvQuiet DEF ListInfo, download
  <2>2. CASE ~mFtpTimeout
    <3>1. pending = <<"list">> /\ lines' = 1 /\ ftpTimer /\ current # NoFile
      BY <1>6, <1>a, <2>2, ChainHead DEF ListInfo
    <3>2. NextFtpFile(pending) /\ mContentFiles' \in {mContentFiles, Append(mContentFiles, current)}
      BY <1>6, <2>2 DEF ListInfo
    <3>3. mContentFiles' \in Seq(FilesOf(mRevision))
      BY <3>1, <3>2 DEF TypeOK
    <3> QED
      BY <1>6, <2>2, <3>1, <3>2, <3>3, InvMovesOn DEF ListInfo
  <2> QED
    BY <2>1, <2>2
<1>7. CASE ListDone
  <2>1. Tail(pending) \in Seq(Commands) /\ lines' \in Nat
    BY <1>7, TailTyped DEF ListDone
  <2>2. ~mFtpTimeout => \/ pending = <<"list">> /\ lines = 0 /\ ftpTimer
                        \/ pending = <<"list", "list">> /\ ftpTimer /\ current # NoFile
                        \/ pending = <<"list", "close">> /\ ~ftpTimer
    BY <1>7, <1>a, ChainHead DEF ListDone
  <2>3. ~mFtpTimeout => \/ pending' = <<>> /\ ftpTimer
                        \/ pending' = <<"list">> /\ ftpTimer /\ current # NoFile
                        \/ pending' = <<"close">> /\ ~ftpTimer
    <3>1. /\ Tail(<<"list">>) = <<>>
          /\ Tail(<<"list", "list">>) = <<"list">>
          /\ Tail(<<"list", "close">>) = <<"close">>
      BY <1>b, ShortQueues
    <3>2. pending' = Tail(pending)
      BY <1>7 DEF ListDone
    <3> QED
      BY <2>2, <3>1, <3>2
  <2>4. ~mFtpTimeout => Chain'
    BY <1>7, <2>3 DEF Chain, ListDone, download
  <2> QED
    BY <1>7, <2>1, <2>4, InvQuiet DEF ListDone
<1>8. CASE Closed
  <2>1. Tail(pending) \in Seq(Commands) /\ lines' \in Nat
    BY <1>8, TailTyped DEF Closed, TypeOK
  <2>2. ~mFtpTimeout => pending' = <<>> /\ lines' = 0
    BY <1>8, <1>a, <1>b, ChainHead, ShortQueues DEF Closed
  <2>3. ~mFtpTimeout => Chain'
    BY <2>2 DEF Chain
  <2> QED
    BY <1>8, <2>1, <2>3, InvQuiet DEF Closed
<1> QED
  BY <1>1, <1>2, <1>3, <1>4, <1>5, <1>6, <1>7, <1>8 DEF FtpSignal

LEMMA InvDownloading == SessionInv /\ Downloading => SessionInv'
<1> SUFFICES ASSUME SessionInv, Downloading
             PROVE  SessionInv'
  OBVIOUS
<1> USE DEF SessionInv, controller, ftp, download
<1>a. posted > 0 => ~updateTimer /\ ~asking /\ ~ftpTimer /\ posted = 1 /\ reply = NoFile
  BY DueAlone
<1>b. FilesOf(mRevision) \subseteq Files /\ NoFile \notin Files
  BY DownloadSessionAssumption DEF FilesOf, Files
<1>1. CASE Download
  <2> USE <1>1 DEF Download
  <2>1. Head(mContentFiles) \in FilesOf(mRevision)
    BY DEF TypeOK
  <2>2. Tail(mContentFiles) \in Seq(FilesOf(mRevision))
    BY DEF TypeOK
  <2>3. posted' = 0 /\ ~updateTimer' /\ ~asking' /\ ~ftpTimer' /\ reply' # NoFile
    BY <1>a, <1>b, <2>1
  <2>4. TypeOK'
    <3>1. FlagsOK' /\ FtpOK'
      BY DEF TypeOK, FlagsOK, FtpOK
    <3>2. FilesOK'
      BY <1>b, <2>1, <2>2, <2>3 DEF TypeOK, FilesOK
    <3> QED
      BY <3>1, <3>2 DEF TypeOK, FlagsOK, FtpOK, FilesOK
  <2>5. OneThingDue'
    BY <2>3 DEF OneThingDue, One
  <2>6. ChainInv'
    BY <1>a, <1>b, <2>1 DEF ChainInv, Chain
  <2>7. SizedInv' /\ SavedWhereAsked'
    BY DEF SizedInv, SavedWhereAsked
  <2> QED
    BY <2>4, <2>5, <2>6, <2>7
<1>2. CASE StartContent
  <2> USE <1>2 DEF StartContent
  <2>1. ~updateTimer /\ ~asking /\ ~ftpTimer /\ posted = 1 /\ reply = NoFile
    BY <1>a
  <2>2. CASE toSize' = {}
    <3> USE <2>2
    <3>1. TypeOK'
      <4>1. FlagsOK'
        BY DEF TypeOK, FlagsOK
      <4>2. FtpOK'
        BY DEF FtpOK
      <4>3. FilesOK'
        BY DEF TypeOK, FilesOK
      <4> QED
        BY <4>1, <4>2, <4>3 DEF TypeOK, FlagsOK, FtpOK, FilesOK
    <3>2. OneThingDue'
      BY DEF OneThingDue
    <3>3. ChainInv' /\ SizedInv' /\ SavedWhereAsked'
      BY <2>1 DEF ChainInv, Chain, SizedInv, SavedWhereAsked
    <3> QED
      BY <3>1, <3>2, <3>3
  <2>3. CASE toSize' # {}
    <3> USE <2>3 DEF ConnectToFtp
    <3>1. TypeOK'
      <4>1. FlagsOK'
        BY DEF TypeOK, FlagsOK
      <4>2. FtpOK'
        <5>1. pending' = <<"connect", "login">> /\ lines' = 0
          OBVIOUS
        <5>2. "connect" \in Commands /\ "login" \in Commands
          BY DEF Commands
        <5> QED
          BY <5>1, <5>2 DEF FtpOK
      <4>3. FilesOK'
        BY <2>1 DEF TypeOK, FilesOK, FilesOf
      <4> QED
        BY <4>1, <4>2, <4>3 DEF TypeOK, FlagsOK, FtpOK, FilesOK
    <3>2. OneThingDue'
      BY <2>1 DEF OneThingDue, One
    <3>3. ChainInv' /\ SizedInv' /\ SavedWhereAsked'
      BY <2>1 DEF ChainInv, Chain, SizedInv, SavedWhereAsked
    <3> QED
      BY <3>1, <3>2, <3>3
  <2> QED
    BY <2>2, <2>3
<1>3. CASE Finish
  <2> USE <1>3 DEF Finish
  <2>1. ~updateTimer /\ ~asking /\ ~ftpTimer /\ posted = 1 /\ reply = NoFile
    BY <1>a
  <2>2. TypeOK'
    BY <2>1 DEF TypeOK
  <2>3. OneThingDue'
    BY <2>1 DEF OneThingDue, One
  <2>4. ChainInv'
    BY <2>1 DEF ChainInv, Chain
  <2>5. SizedInv' /\ SavedWhereAsked'
    BY <2>1 DEF SizedInv, SavedWhereAsked
  <2> QED
    BY <2>2, <2>3, <2>4, <2>5
<1>4. CASE DownloadFinished
  <2> USE <1>4 DEF DownloadFinished
  <2>1. ~updateTimer /\ ~asking /\ ~ftpTimer /\ posted = 0
    BY DueAlone
  <2>2. TypeOK'
    BY <2>1 DEF TypeOK
  <2>3. OneThingDue'
    BY <2>1 DEF OneThingDue, One
  <2>4. ChainInv' /\ SizedInv' /\ SavedWhereAsked'
    BY <2>1 DEF ChainInv, Chain, SizedInv, SavedWhereAsked
  <2> QED
    BY <2>2, <2>3, <2>4
<1> QED
  BY <1>1, <1>2, <1>3, <1>4 DEF Downloading

LEMMA InvStutter == SessionInv /\ UNCHANGED vars => SessionInv'
<1> SUFFICES ASSUME SessionInv, UNCHANGED vars
             PROVE  SessionInv'
  OBVIOUS
<1>1. UNCHANGED <<updateTimer, asking, mRevision, pending, lines, ftpTimer, mFtpTimeout,
                  toSize, mContentFiles, current, posted, reply>>
  BY DEF vars, controller, ftp, download
<1> QED
  BY <1>1 DEF SessionInv, TypeOK, OneThingDue, ChainInv, Chain, SizedInv, SavedWhereAsked

LEMMA InvNext == MaxAnswers = 1 /\ SessionInv /\ [Next]_vars => SessionInv'
  BY InvAccount, InvFtpSignal, InvFtpTimeout, InvDownloading, InvStutter DEF Next

LEMMA InvAlways == ASSUME MaxAnswers = 1 PROVE Spec => []SessionInv
  BY InvInit, InvNext, PTL DEF Spec

-----------------------------------------------------------------------------
(***************************************************************************)
(* The theorems.                                                           *)
(***************************************************************************)

\* The files to size, the files to download and the file in hand are always of
\* the round at hand, whatever the server answers and whenever it is given up.
THEOREM TypeCorrect == ASSUME MaxAnswers = 1 PROVE Spec => []TypeOK
  BY InvAlways, PTL DEF SessionInv

\* The update is never without a next step, and never has two: no late answer of
\* a server that was given up starts a second chain of slots.
THEOREM AlwaysOneThingDue == ASSUME MaxAnswers = 1 PROVE Spec => []OneThingDue
  BY InvAlways, PTL DEF SessionInv

\* What a reply brings is saved to the file the reply was asked for.
THEOREM AlwaysSavedWhereAsked == ASSUME MaxAnswers = 1 PROVE Spec => []SavedWhereAsked
  BY InvAlways, PTL DEF SessionInv

\* "Download of files finished" is reported, and syncContent() run, when no file
\* is being sized or downloaded.
THEOREM FinishedIsDone == ASSUME MaxAnswers = 1 PROVE Spec => FinishedWhenDone
<1>1. SessionInv /\ Finish => toSize = {} /\ ~ftpTimer /\ reply = NoFile
  BY DueAlone DEF SessionInv, SizedInv, Finish
<1> QED
  BY <1>1, InvAlways, PTL DEF FinishedWhenDone

-----------------------------------------------------------------------------
(***************************************************************************)
(* The steps of UpdateLoop.                                                *)
(***************************************************************************)

\* The files of a sequence, its first and the others.
LEMMA HeadAndTail ==
    ASSUME NEW S, NEW s \in Seq(S), s # <<>>
    PROVE  Range(s) = {Head(s)} \cup Range(Tail(s))
<1>1. Len(s) \in Nat \ {0} /\ DOMAIN s = 1 .. Len(s) /\ Head(s) = s[1]
  OBVIOUS
<1>2. DOMAIN Tail(s) = 1 .. Len(s) - 1 /\ \A i \in 1 .. Len(s) - 1 : Tail(s)[i] = s[i + 1]
  OBVIOUS
<1>3. ASSUME NEW x \in Range(s)
      PROVE  x = Head(s) \/ x \in Range(Tail(s))
  <2> PICK i \in 1 .. Len(s) : x = s[i]
    BY <1>1, <1>3 DEF Range
  <2>1. CASE i = 1
    BY <1>1, <2>1
  <2>2. CASE i # 1
    <3>1. i - 1 \in 1 .. Len(s) - 1 /\ (i - 1) + 1 = i
      BY <1>1, <2>2
    <3> QED
      BY <1>2, <3>1 DEF Range
  <2> QED
    BY <2>1, <2>2
<1>4. Head(s) \in Range(s)
  BY <1>1 DEF Range
<1>5. ASSUME NEW x \in Range(Tail(s))
      PROVE  x \in Range(s)
  <2> PICK i \in 1 .. Len(s) - 1 : x = s[i + 1]
    BY <1>2, <1>5 DEF Range
  <2>1. i + 1 \in 1 .. Len(s)
    BY <1>1
  <2> QED
    BY <1>1, <2>1 DEF Range
<1> QED
  BY <1>3, <1>4, <1>5

LEMMA RangeTyped ==
    ASSUME NEW S, NEW s \in Seq(S)
    PROVE  Range(s) \subseteq S
  BY DEF Range

LEMMA RangeEmpty == Range(<<>>) = {}
  BY DEF Range

\* The abstract state that goes with what is due.
LoopIs(p, rev, q) == LoopPhase = p /\ LoopRevision = rev /\ LoopQueue = q

LoopWhen ==
    /\ updateTimer \/ asking => LoopIs("idle", TRUE, {})
    /\ ftpTimer => LoopIs("sizing", mRevision, {})
    /\ posted > 0 => LoopIs("fetching", mRevision, Range(mContentFiles))
    /\ reply # NoFile => LoopIs("fetching", mRevision, Range(mContentFiles) \cup {reply})

LEMMA LoopKnown == SessionInv => LoopWhen
<1> SUFFICES ASSUME SessionInv
             PROVE  LoopWhen
  OBVIOUS
<1> USE DEF SessionInv, LoopIs, LoopPhase, LoopRevision, LoopQueue, Idle
<1>1. updateTimer \/ asking => LoopIs("idle", TRUE, {})
  BY DEF TypeOK
<1>2. ftpTimer => LoopIs("sizing", mRevision, {})
  BY DueAlone DEF TypeOK
<1>3. posted > 0 => LoopIs("fetching", mRevision, Range(mContentFiles))
  BY DueAlone DEF TypeOK
<1>4. reply # NoFile => LoopIs("fetching", mRevision, Range(mContentFiles) \cup {reply})
  BY DueAlone DEF TypeOK
<1> QED
  BY <1>1, <1>2, <1>3, <1>4 DEF LoopWhen

LEMMA LoopKnownNext == SessionInv' => LoopWhen'
  BY LoopKnown, PTL

LoopStep == [Loop!Next]_(Loop!vars)

\* A step that leaves what is due alone is none of the loop.
LEMMA LoopStutters ==
    ASSUME UNCHANGED <<updateTimer, asking, ftpTimer, mRevision, mContentFiles, reply>>
    PROVE  LoopStep
  BY DEF LoopStep, Loop!vars, LoopPhase, LoopRevision, LoopQueue, Idle

\* The session is given up while it is sized.
LEMMA LoopGivesUp ==
    ASSUME SessionInv, SessionInv', ftpTimer, updateTimer'
    PROVE  LoopStep
<1>1. LoopIs("sizing", mRevision, {})
  BY LoopKnown DEF LoopWhen
<1>2. LoopIs("idle", TRUE, {})'
  BY LoopKnownNext DEF LoopWhen
<1> QED
  BY <1>1, <1>2 DEF LoopStep, LoopIs, Loop!Next, Loop!Progress, Loop!GiveUp

\* The chain of sizing goes on or is at its end.
LEMMA LoopSizes ==
    ASSUME SessionInv, SessionInv', ftpTimer, NEW rest, NextFtpFile(rest),
           UNCHANGED <<mRevision, reply>>
    PROVE  LoopStep
<1> USE DEF SessionInv
<1>1. LoopIs("sizing", mRevision, {})
  BY LoopKnown DEF LoopWhen
<1>2. posted = 0 /\ mRevision \in BOOLEAN
  BY DueAlone DEF TypeOK
<1>3. CASE ftpTimer' = TRUE
  <2>1. LoopIs("sizing", mRevision, {})'
    BY <1>3, LoopKnownNext DEF LoopWhen
  <2> QED
    BY <1>1, <2>1 DEF LoopStep, Loop!vars, LoopIs
<1>4. CASE posted' = posted + 1
  <2>1. LoopIs("fetching", mRevision, Range(mContentFiles))'
    BY <1>2, <1>4, LoopKnownNext DEF LoopWhen
  <2>2. mContentFiles' \in Seq(FilesOf(mRevision))
    BY DEF TypeOK
  <2>3. Range(mContentFiles') \subseteq FilesOf(mRevision)
    BY <2>2, RangeTyped
  <2>4. Loop!FilesOf(mRevision) = FilesOf(mRevision)
    BY DEF Loop!FilesOf, FilesOf
  <2>5. LoopQueue' \in SUBSET Loop!FilesOf(LoopRevision)
    BY <1>1, <2>1, <2>3, <2>4 DEF LoopIs
  <2>6. Loop!Sized
    BY <1>1, <2>1, <2>5 DEF LoopIs, Loop!Sized
  <2> QED
    BY <2>6 DEF LoopStep, Loop!Next, Loop!Progress
<1> QED
  BY <1>3, <1>4, NextFtpFileDue

LEMMA LoopFtp ==
    ASSUME MaxAnswers = 1, SessionInv, SessionInv', FtpSignal \/ FtpTimeout
    PROVE  LoopStep
<1> USE DEF SessionInv, controller, download
<1>a. ~mFtpTimeout => Chain
  BY DEF ChainInv
<1>1. CASE Connected \/ ListDone \/ Closed
  BY <1>1, LoopStutters DEF Connected, ListDone, Closed
<1>2. CASE Fatal /\ (InProgress("connect") \/ (InProgress("list") /\ lines < 1))
  <2>1. CASE mFtpTimeout
    BY <1>2, <2>1, LoopStutters DEF Fatal
  <2>2. CASE ~mFtpTimeout
    BY <1>2, <2>2, <1>a, ChainHead, LoopGivesUp DEF Fatal
  <2> QED
    BY <2>1, <2>2
<1>3. CASE ConnectFails \/ ListBreaks
  BY <1>2, <1>3 DEF ConnectFails, ListBreaks
<1>4. CASE FtpTimeout
  BY <1>4, LoopGivesUp DEF FtpTimeout
<1>5. CASE LoggedIn
  <2>1. CASE mFtpTimeout
    BY <1>5, <2>1, LoopStutters DEF LoggedIn
  <2>2. CASE ~mFtpTimeout
    BY <1>5, <2>2, <1>a, ChainHead, LoopSizes DEF LoggedIn
  <2> QED
    BY <2>1, <2>2
<1>6. CASE Refused
  <2>1. CASE mFtpTimeout
    BY <1>6, <2>1, LoopStutters DEF Refused
  <2>2. CASE ~mFtpTimeout
    BY <1>6, <2>2, <1>a, ChainHead, LoopSizes DEF Refused, MayBeRefused
  <2> QED
    BY <2>1, <2>2
<1>7. CASE ListInfo
  <2>1. CASE mFtpTimeout
    <3>1. ftpTimer' = ftpTimer
      BY <1>7, <2>1 DEF ListInfo, ChainInv, TypeOK
    <3> QED
      BY <1>7, <2>1, <3>1, LoopStutters DEF ListInfo
  <2>2. CASE ~mFtpTimeout
    BY <1>7, <2>2, <1>a, ChainHead, LoopSizes DEF ListInfo
  <2> QED
    BY <2>1, <2>2
<1> QED
  BY <1>1, <1>3, <1>4, <1>5, <1>6, <1>7 DEF FtpSignal

LEMMA LoopAccount ==
    ASSUME SessionInv, SessionInv', Account
    PROVE  LoopStep
<1>1. updateTimer \/ asking
  BY DEF Account, UpdateTimeout, AccountRefused, NoFtpLogin, AccountReady, DownloadStart
<1>2. LoopIs("idle", TRUE, {})
  BY <1>1, LoopKnown DEF LoopWhen
<1>3. CASE updateTimer' \/ asking'
  <2>1. LoopIs("idle", TRUE, {})'
    BY <1>3, LoopKnownNext DEF LoopWhen
  <2> QED
    BY <1>2, <2>1 DEF LoopStep, Loop!vars, LoopIs
<1>4. CASE AccountReady
  <2>1. ftpTimer' /\ mRevision' = TRUE
    BY <1>4 DEF AccountReady, DownloadStart, ConnectToFtp
  <2>2. LoopIs("sizing", TRUE, {})'
    BY <2>1, LoopKnownNext DEF LoopWhen, LoopIs
  <2> QED
    BY <1>2, <2>2 DEF LoopStep, LoopIs, Loop!Next, Loop!Start
<1> QED
  BY <1>3, <1>4 DEF Account, UpdateTimeout, AccountRefused, NoFtpLogin

LEMMA LoopDownloading ==
    ASSUME SessionInv, SessionInv', Downloading
    PROVE  LoopStep
<1> USE DEF SessionInv, ftp
<1>a. posted > 0 => LoopIs("fetching", mRevision, Range(mContentFiles))
  BY LoopKnown DEF LoopWhen
<1>b. posted > 0 => posted = 1
  BY DueAlone
<1>1. CASE Download
  <2>1. mContentFiles \in Seq(FilesOf(mRevision)) /\ mContentFiles # <<>>
    BY <1>1 DEF Download, TypeOK
  <2>2. Head(mContentFiles) \in FilesOf(mRevision)
    BY <2>1
  <2>3. reply' # NoFile
    BY <1>1, <2>2, DownloadSessionAssumption DEF Download, FilesOf
  <2>4. LoopIs("fetching", mRevision, Range(mContentFiles) \cup {reply})'
    BY <2>3, LoopKnownNext DEF LoopWhen
  <2>5. Range(mContentFiles) = Range(mContentFiles') \cup {reply'}
    BY <1>1, <2>1, HeadAndTail DEF Download
  <2>6. LoopIs("fetching", mRevision, Range(mContentFiles))
    BY <1>1, <1>a DEF Download
  <2>7. mRevision' = mRevision
    BY <1>1 DEF Download
  <2> QED
    BY <2>4, <2>5, <2>6, <2>7 DEF LoopStep, Loop!vars, LoopIs
<1>2. CASE StartContent
  <2>1. LoopIs("fetching", TRUE, {})
    BY <1>2, <1>a, RangeEmpty DEF StartContent, LoopIs, TypeOK
  <2>2. posted' > 0 \/ ftpTimer'
    BY <1>2, <1>b DEF StartContent, ConnectToFtp
  <2>3. LoopIs("fetching", FALSE, {})' \/ LoopIs("sizing", FALSE, {})'
    BY <1>2, <2>2, LoopKnownNext, RangeEmpty DEF StartContent, LoopWhen, LoopIs
  <2> QED
    BY <2>1, <2>3 DEF LoopStep, LoopIs, Loop!Next, Loop!Progress, Loop!NextRound
<1>3. CASE Finish
  <2>1. LoopIs("fetching", FALSE, {})
    BY <1>3, <1>a, RangeEmpty DEF Finish, LoopIs, TypeOK
  <2>2. LoopIs("idle", TRUE, {})'
    BY <1>3, LoopKnownNext DEF Finish, LoopWhen
  <2> QED
    BY <2>1, <2>2 DEF LoopStep, LoopIs, Loop!Next, Loop!Progress, Loop!Finish
<1>4. CASE DownloadFinished
  <2>1. LoopIs("fetching", mRevision, Range(mContentFiles) \cup {reply})
    BY <1>4, LoopKnown DEF DownloadFinished, LoopWhen
  <2>2. posted' > 0 /\ mRevision' = mRevision /\ mContentFiles' = mContentFiles
    BY <1>4 DEF DownloadFinished, TypeOK
  <2>3. LoopIs("fetching", mRevision, Range(mContentFiles))'
    BY <2>2, LoopKnownNext DEF LoopWhen
  <2>4. CASE reply \in Range(mContentFiles)
    <3>1. LoopQueue' = LoopQueue
      BY <2>1, <2>2, <2>3, <2>4 DEF LoopIs
    <3> QED
      BY <2>1, <2>2, <2>3, <3>1 DEF LoopStep, Loop!vars, LoopIs
  <2>5. CASE reply \notin Range(mContentFiles)
    <3>1. LoopQueue' = LoopQueue \ {reply} /\ reply \in LoopQueue
      BY <2>1, <2>2, <2>3, <2>5 DEF LoopIs
    <3>2. Loop!Fetch
      BY <2>1, <2>2, <2>3, <3>1 DEF LoopIs, Loop!Fetch
    <3> QED
      BY <3>2 DEF LoopStep, Loop!Next, Loop!Progress
  <2> QED
    BY <2>4, <2>5
<1> QED
  BY <1>1, <1>2, <1>3, <1>4 DEF Downloading

\* The slots and timers take the steps of UpdateLoop and no others: one session
\* at a time, the revision files before the content files, each sized before it
\* is fetched.  (That a session ends is checked by TLC.)
THEOREM StepsOfTheLoop ==
    ASSUME MaxAnswers = 1 PROVE Spec => Loop!Init /\ [][Loop!Next]_(Loop!vars)
<1>1. Init => Loop!Init
  <2>1. Init => LoopIs("idle", TRUE, {})
    BY InvInit, LoopKnown DEF Init, LoopWhen
  <2> QED
    BY <2>1 DEF LoopIs, Loop!Init
<1>2. SessionInv /\ SessionInv' /\ [Next]_vars => LoopStep
  <2>1. UNCHANGED vars => LoopStep
    BY LoopStutters DEF vars, controller, ftp, download
  <2> QED
    BY <2>1, LoopAccount, LoopFtp, LoopDownloading DEF Next
<1>3. SessionInv /\ SessionInv' /\ [Next]_vars => [Loop!Next]_(Loop!vars)
  BY <1>2 DEF LoopStep
<1> QED
  BY <1>1, <1>3, InvAlways, PTL DEF Spec

=============================================================================
