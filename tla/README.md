# A TLA+ model of mediaupdater

mediaupdater is a Qt service that runs on a player box.  Every few minutes it asks an account server who it
is, asks an FTP server for the lists of adverts and music of the box, downloads what is missing into a
directory `.sync`, and moves what was completely received into the media directory, from which another
program, the player, plays it.  This directory holds a TLA+ model of that program, the TLC runs that check
it on small instances, and TLAPS proofs of the properties that matter most.

Paths below are relative to `src/src/` of the repository; *dm* is `updater/downloadmanager.cpp`, *content*
is `updater/content.cpp`, *cm* `updater/contentmanager.cpp`, *cdc* `updater/checkdownloadedcontent.cpp`.

## 1. Inventory

The updates run in one thread, but for two slots of the Eventer: what is concurrent there is the order in which the event
loop delivers queued slots, expired timers and socket signals, what the servers and the player do meanwhile, and the death
of the process between any two changes of the disk.  Around it are the processes that control the service, and, on Windows,
two more threads.

| Component | State it keeps | Operations | Talks to |
|---|---|---|---|
| **UpdateController** (`updater/updatecontroller.cpp`) | `mUpdateTimer` (single shot) | `start`, `accountManagerReady`, `startTimer` | owns AccountManager and DownloadManager; a session ends when DownloadManager emits `startTimer` |
| **AccountManager** (`managetools/accountmanager.cpp`) | the reply, the request timer, a cached answer in an encrypted file | `request`, `replyFinished`, `requestTimeout`, `saveCache`, `tryLoadCache` | emits `requestReady`, queued |
| **DownloadManager, sizing** (dm 330-455) | `mFtpContentFiles`, `mFtpTimer`, `mFtpTimeout`, `mCurrentContentFile` | `getTotalSize`, `nextFtpFile`, `listInfo`, `ftpCommandFinished`, `ftpTimeout` | direct slots of QFtp's signals |
| **DownloadManager, downloading** (dm 133-315, 457-470) | `mContentFiles`, `mCurrentReply`, `mDownloadTimer`, `mDownloadTimeout`, `mFullDownloadBytes`, `mRevision` | `nextDownload`, `saveDownloadedFile`, `downloadProgress`, `replyError`, `downloadFinished`, `downloadTimeout`, `startContent` | queued slots of a QNetworkReply |
| **ContentManager, Content** | lists of files per type, `.sync`, the media directory | `addNetworkContent`, `collectContentFromFile`, `copyToDestination`, `deleteExcessFiles`, `syncContent` | called by DownloadManager |
| **CheckDownloadedContent** | `revstorage` (status of revision files) and `checkstorage` (marks of trust) on disk | `checkFile`, `setTrust`, `setStatus`, `checkAllFiles`, `remove` | called by both |
| **StationManager, SettingsStore** | `revLocal`, `playerRestart`, logins, timeouts | getters and setters | shared with the player |
| **QFtp** (`qftp/qftp.cpp`, `qftp/qurlinfo.cpp`) | command queue; state machines of the control (PI) and the data connection (DTP) | `addCommand`, `_q_startNextCommand`, `_q_piFinished`, `_q_piError`, `processReply`, `startNextCmd`, `dtpConnectState`, `parseDir` | emits `commandFinished`, `listInfo` directly |
| **Eventer** (`eventer/`) | the pending messages and the server's address | `send`, `manager`, `getServerUri`, `dataUpdate` | one-way reports; an AccountManager of its own |
| **Logger, LoggerDelete** (`logger/`) | log files, one a day | `~Logger`, `deleteLogs` | - |
| **SettingsStore, SimpleCrypt** (`managetools/`) | a key; values as ciphertexts | `encryptToByteArray`, `decryptToByteArray` | AccountManager keeps its answer there |
| **QtService, Unix** (`qtservice/src/qtservice_unix.cpp`, `qtservice.cpp`) | a socket file with a fixed name; the daemon behind it | `start`, `sendCmd`, `terminate`, `setPath`, `slotReady`, `slotClosed`, `sysCleanup` | starts and stops LmMediaUpdaterService |
| **QtService, Windows** (`qtservice_win.cpp`) | a status, a mutex, a condition, two semaphores, three threads | `start`, `stop`, `handler`, `serviceMain`, `handleCustomEvent` | the service manager |
| UploadManager, FileUploader, LoginInfo, examples | - | - | no logic of their own |

What is hard here, and what makes each part correct:

* **Downloads.**  All slots are queued, so they run after the reply has moved on, and a timer may expire between
  any two.  The file is opened for appending on whatever an earlier session left.  Correct means: a verdict of
  "trusted" only for all of the server's file and always for a file seen to be complete, no slot without its
  reply, and an end to every download.
* **Sizing.**  Each slot must start the one thing that will run next, whatever the server answers, refuses or keeps to
  itself, and late answers of a server that was given up must start nothing.
* **Session and disk.**  Several lists, fetched one after the other from a server that publishes at any time, decide what is
  downloaded and deleted; marks of trust, files, the revision number and the restart flag live in different
  places and change one by one.  Correct means: what is played is whole, nothing the lists name is lost, the
  restart flag is not lost, the revision number is honest, and the box converges to the server.
* **Update cycle.**  Something must always start the next session, on an account server that may fall silent.  The last good
  answer bridges an outage, and is read back as it was written or not at all.
* **QFtp.**  All its signals are direct, so the slots of the program run in the middle of QFtp's own functions and change the queue those
  functions are about to change.  Correct means: commands end in order and once, a reply is taken for the command it answers, a
  listing is complete before its command ends although data and reply come on two connections, and a command ends.
* **Service.**  On Unix nothing locks the socket name; on Windows the handler of a control waits for the main thread to wake it.
  Correct means: a running service is found, a second one is not started beside it, "stopped" means that nothing updates, and
  who asks gets an answer.
* **Logs.**  Old logs go, the newest stay, whatever the clock shows.

The complete list of hazards, with the line where each bites and the properties that watch it, is under
`hazards` in `PROJECT.json`.

## 2. Modules

```
LocalFile        a file in .sync as the program sees it: a length, and whether it is a prefix of the server's file
 |- FileFetch        abstract: a fetch is one step from the file it began with to a file and a verdict
 |- FileDownload     the slots, timers and queued signals around one QNetworkReply; implements FileFetch
 `- ContentUpdate    the session and the disk, built from the same step (FetchResults); implements UpdateLoop
UpdateLoop       abstract: two rounds, each sized and fetched file by file, and an end
DownloadSession  UpdateController's timer, QFtp's signals, mFtpTimer, nextDownload(); implements UpdateLoop
CommandQueue     abstract: commands in order, one at a time, each ended once
QFtp             the queue, the interpreter of replies, the data connection, the server; implements CommandQueue
SimpleCrypt      encryption as functions on sequences of bytes, a byte as the set of its bits
 `- UpdateCycle      UpdateController and Eventer, each with its AccountManager, and account.dat
LogRetention     the log files, the clock, LoggerDelete
Box              UpdateCycle and LogRetention in one process that may die: what happens in the cycle is logged
UnixService      command lines, daemons, the socket file
WinService       controllers, the service manager, the three threads of the service
ServiceLibrary   the service built for one of the two platforms
FileDownloadProofs, ContentUpdateProofs, DownloadSessionProofs,
QFtpProofs, QFtpOrderProofs (which extends it),
BoxProofs, WinServiceProofs, ServiceLibraryProofs (UnixService and the library)       theorems
MCFileDownload, MCContentUpdate, MCDownloadSession, MCQFtp, MCBox, MCService           constants for TLC
```

FileDownload, ContentUpdate and DownloadSession meet in two abstract modules.  FileDownload shows that the event-level download *is* the
atomic fetch; ContentUpdate uses that step (`FetchResults` in LocalFile) for each file of a session.
DownloadSession shows that the chains of slots *are* the loop of UpdateLoop, ContentUpdate's sessions are such
loops as well, and DownloadSession's `DownloadFinished` stands on FileDownload's `DownloadEnds`.  UpdateCycle sees a session only
from outside (it begins, and ends once), which is what DownloadSession's `FinishedWhenDone` and `LoopSpec` show; and it shows in turn
that the account request which DownloadSession takes as one step (`Account`) is made, ends, and never overlaps a session.  QFtp is checked
against any client, of which DownloadSession is one: `ListingComplete` and `CommandsEnd` are what DownloadSession takes for granted of
the signals it receives.

### FileDownload

| Model | Code |
|---|---|
| `stage` | `listed`: `nextDownload()` is posted; `active`: there is a `mCurrentReply`; `ended` |
| `events` | calls queued by the four `Qt::QueuedConnection`s of dm 183-186, `downloadProgress` with its two arguments |
| `reply.recv`, `.avail`, `.open`, `.error`, `.sized` | bytes received, `bytesAvailable()`, still transferring, `error()`, the server told the size |
| `timer`, `timedOut`, `full` | `mDownloadTimer`, `mDownloadTimeout`, `mFullDownloadBytes` |
| `status` | the status in `revstorage`, or the mark in `checkstorage` (as `DOWNLOAD_OK`) |
| `Collect`, `MoveToMedia` | what later sessions do to the file: `checkFile()`, `copyToDestination()` |

QNetworkReply is external: a chunk is announced by `readyRead`, then `downloadProgress`, with -1 for the total while the size is
unknown; `abort()` of an open reply emits `error` and `finished`, of an ended one nothing.  Before `finished` a reply of unknown
size tells its progress once more with the bytes received for the total, however it ended (`Ending`); one of known size may do so with the
size.  So `mFullDownloadBytes` says of a file of unknown size only that what was received is on disk.  `Told` names the
surroundings in which it says more, and `Enough` in LocalFile what a trusted file holds in either case.  Sizes are chunks; the only fact kept of the
contents is whether they are a prefix of the server's file, which is what an append at the wrong offset
destroys.

### ContentUpdate

| Model | Code |
|---|---|
| `phase`, `mRevision`, `revQueue`, `files`, `queue` | where `start()` .. `syncContent()` stands, `mContentFilesMap`, `mContentFiles` |
| `sync`, `trust`, `media` | `.sync`, `checkstorage`, the media directory |
| `revFile`, `revFlag`, `dest` | the revision files in `.sync` by version, `revstorage`, the tables the player reads |
| `step`, `todo` | the three changes of the disk that move a file: `remove()`, `rename()`, `check.remove()` |
| `revLocal`, `restart` | `revLocal` and `playerRestart` in the settings |
| `dirty` | history: something was added since the player last restarted |
| `Publish`, `PlayerRestarts`, `FtpFails`, `RenameFails`, `Crash` | the environment; each failure is counted up to `MaxFailures` |

A fetch of an advert in `Unsized` is one of a file whose size the server may not tell (`FetchResults`).  The lists a session
collects from are those in `.sync`, each of its own version (`Publish` may come between two
requests).  `Torn` is a partially received list; it is refused by its status, and read as empty otherwise.

### DownloadSession

| Model | Code |
|---|---|
| `updateTimer`, `asking` | `mUpdateTimer`; a request of AccountManager whose `requestReady` is due |
| `pending`, `lines` | QFtp's commands, the head in progress; lines the LIST in progress has brought |
| `ftpTimer`, `mFtpTimeout` | the 25 second timer and the flag that makes slots deaf |
| `toSize`, `mContentFiles`, `current` | `mFtpContentFiles`, `mContentFiles`, `mCurrentContentFile` |
| `posted`, `reply` | `QTimer::singleShot(0, nextDownload)` calls in the event queue, `mCurrentReply` |

QFtp emits signals directly: a slot that asks for another command does so while the old one is still the head of QFtp's
queue (`NextFtpFile(rest)` appends to what the queue will be).  An error makes QFtp drop every pending command first.
After the first step of a second chain (run `session_again`) the model is no longer the program: the pointer
in `mCurrentContentFile` dangles and stale `finished` signals may be queued.  What is said of two chains is
that they occur.

### QFtp

| Model | Code |
|---|---|
| `ftp` | QFtpPrivate: `pending`, `state`, `error`, `close_waitForStateChange`, and `startNextCommand` calls that are posted |
| `pi` | QFtpPI: `state`, `pendingCommands` (`todo`), `currentCmd`, the reply in `replyText`, `transferConnectionExtended`, the flags `waitForDtpToConnect` and `waitForDtpToClose` |
| `dtp`, `net` | the data connection with the lines it has received; both TCP connections, raw commands and replies under way, the listing |
| `calls` | the stack of C++ calls: a signal calls its slots at once, and the rest of the function that emitted it is a frame below |
| `Call` (30 actions) | one function, or the part of one between two calls it makes |
| `Network`, `ConnectionLost` | the socket signals; `Serve` is the server, one raw command after the other |
| `CommandFinishedSlot`, `CommandFailedSlot`, `ListInfoSlot`, `ClientCloses` | any client that schedules at most one command in a slot, and a Close at any time, as DownloadManager does |

A reply is its code and the serial number of the raw command it answers, which the code does not know: `ReplyIsForCommand` compares
the two.  A line of a listing is what `parseDir()` makes of it; `missing` is the text "No such file" that some servers send in the place
of a listing.  After an error of that kind QFtp calls `startNextCmd()` although a slot of the error may have sent a command
(`qftp.cpp:1121-1124`): two commands are then under way and replies are taken for each other's.  The code's own word for it is
"Internal error! QFtpPI called in non-Idle state" (`qftp.cpp:1163`), which is printed when debugging and otherwise ignored.
`OverrunNeedsDataError` says that this is the only way there, and what is said of the queue, of replies and of listings is said until then
(`hist.overrun`).  What comes after it is as bad as it looks: with six commands (TLC runs four) the late reply to one command
ends another that has not been sent, and if that reply had to wait for the data connection, `_q_piError()` finishes a command inside its
own handling of the same command and goes on with a pointer to what was deleted.  The proof below found that: two properties had held with four
commands and no condition, and could not be proved without it.

### UpdateCycle, SimpleCrypt, LogRetention, Box

| Model | Code |
|---|---|
| `boot`, `timer`, `session` | the posted `start()`, `mUpdateTimer`, a session under way |
| `account[u]` | `UpdateController::mAccountManager` and `Eventer::account`: asking, an answer queued, or done |
| `file`, `saved` | `account.dat`, a ciphertext, and the damage a disk has done to it; history: the text last saved |
| `conf` | whether `mediabox.conf` holds a login and a box id; the tools of the box change both at any time |
| `reporting` | the Eventer's `serverUri`, its retry of five minutes |
| `Encrypt`, `Decrypt` | the two loops over the bytes, with the flags, the checksum and the compression of the modes the program uses |
| `day`, `logs`, `deleteDays`, `deleter` | the clock, the files in `logs/`, `loggerDeleteDays`, the LoggerDelete of this process |

`StartLogged`, `ReadyLogged`, `EndsLogged` are the handlers with the line they write.  Some things that are so in the code and in the model:
the Eventer's retry asks nobody, because `account` is set (`eventer.cpp:108`); `deleteLogs()` adds the days to today, so every log but the
newest is old enough (`loggerdelete.cpp:52`; the comment at 33-40 means something else); the flags byte of a ciphertext is not covered
by the checksum, so that damage of that byte is the one case `CacheReadIsSaved` leaves out; and the key is always 0, because
`toULongLong()` is applied to the bytes of a SHA-1 (`settingsstore.cpp:7-10`).

### UnixService, WinService, ServiceLibrary

| Model | Code |
|---|---|
| `path`, `daemon[d].listening`, `.path_` | who bound the socket file (it may be dead), `listen(2)`, `QtUnixServerSocket::path_` |
| `client[c]` | a process of the command line: its operation, its connection, the answer; `before` is history |
| `Connected`, `NotConnected`, `HangUp`, `Conclude`, `Spawn` | `isRunning()`, `sendCmd()`, `QtServiceBasePrivate::start()`, `startDetached()` |
| `UnlinkPath`, `Bind`, `Listen`, `SlotStart` | `setPath()`, `listen()`, the posted `start()`; one step per system call |
| `SlotReady`, `CloseServer`, `UnlinkAndExit`, `Crash` | `slotReady()`, `sysCleanup()`, the signal handlers of `main()` |
| `scm`, `status` | the status the service manager has, and `status.dwCurrentState` of the process |
| `thread[t]`, `main` | where `serviceMain()`, HandlerThread and the main thread are |
| `Handler`, `HandlerWoken`, `HandlerReports` | `handler()` up to the wait, up to the unlock, and behind it |
| `Acquire` .. `Exit` | `QtServiceBasePrivate::start()` of the main thread |

Daemons that overlap (two starts at once) take the name from each other; the properties of UnixService are about those that were alone all their
life, `overlapped` being the history of it.  On Windows the status is read again after the mutex was released and nobody joins the thread of
`serviceMain()`, which may find the status deleted (`qtservice_win.cpp:657-659`): what it reports then is any state.  The manager is
external; it delivers one control at a time and none after a shutdown.  `install()` writes `automaticStartup` where `startupType()`
reads `startupType` (`qtservice_unix.cpp:170`, `430`); the program uses neither.

### UpdateLoop, FileFetch, CommandQueue

Abstract specifications: what an update promises to who waits for it, what a download promises to the session, and what QFtp's
documentation says of its commands.  Their
actions are mapped to the code that carries the step out.

## 3. Runs

| Run | Question | Result |
|---|---|---|
| `file_download` | revision files and adverts on a sound disk, with process deaths, from a server that tells their size and from one that may not; all kinds with failing writes and opens, short transfers, unknown sizes and deaths; a file that never opens; any order of queued slots and timeouts | verdict right in both directions where the size is told, no slot without reply, downloads end, slots implement the atomic fetch |
| `file_download_append` | music, only the network fails | **violated**: the remains of a failed download are appended to and trusted |
| `file_download_unsized` | an advert of unknown size, only the network fails | **violated**: what was saved before the transfer broke off is trusted |
| `content_update` | two channels with tracks of one name, two versions, failing lists and moves | marks have files, restart is not lost, `revLocal` honest, converges, sessions are those of UpdateLoop |
| `content_update_crash` | an advert of unknown size that comes, goes and comes back beside one that stays, a timetable, three versions, death between any two changes | what is played is whole, or what one transfer brought where the size is unknown; a permanent advert stays |
| `content_prune` | as `content_update` | **violated**: removing an excess track removes a permanent one of the same name in another channel |
| `download_session` | an FTP server that answers, refuses (but for QUIT), breaks off or falls silent at any command | one chain at a time; it takes the steps of UpdateLoop and ends |
| `session_empty` | a LIST with no line | **violated**: the session is given up as unanswered |
| `session_again` | a LIST with two answers | **violated**: two chains; one ends the update while the other is sizing |
| `ftp_commands` | four commands of any kind, a server that answers, refuses, sends data before or after its reply, closes or is lost | commands in order and once, replies and listings are those of the command, all until an error text in the place of a listing; every command ends or its connection is gone |
| `update_cycle` | an account server that answers, refuses, sends garbage or nothing; a damaged cache; a clock that is set; process deaths | the cycle goes on, an outage is bridged, the cache is read as written, the newest logs stay |
| `service` | two command lines and two daemons with signals; controls and a shutdown on Windows | running services are found, none is started beside another, stopped means stopped, nobody waits for ever |

Findings are described in `PROJECT.json`.  In `file_download` the faulty disk goes with a read buffer of one chunk (a setting, dm 91-96), the sound one
with the default, which is unlimited.

`TrustedIsComplete` and `CompleteIsTrusted` are stated for a server that tells the size.  Without it the first is false, by `TrustedWasReceived` of
`file_download_unsized`, and the second cannot be asked: nobody knows what complete is.  `FetchSpec` holds of both, because the abstract fetch
may then trust any part of the file but none (`Enough`), and ContentUpdate is built on that fetch: `AdvertsIntact` says of such an advert
that it is not empty and not made of two transfers.  Revision files do without `mFullDownloadBytes`, and nothing changes for them.

`DownloadEnds` leaves out a file that cannot be opened for appending.  What has arrived then stays unread, and when the network falls silent
every expiry of the timer saves nothing and starts it again (dm 459-462): the reply is never aborted, and the update stays in this file.

`TrustedHasFile`, `RestartNotLost` and `RevisionSound` are checked without deaths of the process: a death between `rename()` and
`check.remove()` leaves a mark without its file, and `checkFile()` answers by the mark alone, so that an advert which leaves the lists and
comes back is taken for downloaded; a death before `setPLayerRestart()` loses the restart.  Both follow from the order of two calls.
`AdvertsIntact`, `TimetablesWhole` and `PermanentAdvertStays` hold with deaths anywhere.

### Bounds

* `Size` 2-3 chunks (1 in `content_update` and `content_prune`): enough for a transfer to stop at the start, in the middle and at the end, and for an append at a wrong offset;
  `MaxLen` caps a length at more than two transfers, beyond which nothing tells lengths apart.
* Event queues are bounded by the transfer that fills them; no bound is stated.
* `content_update`: one chunk per file (the fetch is checked elsewhere), two channels, three names: two entries of one name and one
  that follows; two versions, so that a file disappears; two failures of any kind, so that one may strike the
  fetch and one the move.  `content_update_crash`: three versions, so that a file leaves and returns, two
  chunks, so that a part can pass for the whole, and two failures, a death and another or two deaths.
* `download_session`: two revision and three content files: the first, a middle and the last LIST of a round differ in which
  slot starts what.  With `MaxAnswers = 1` no queue grows, and the state space is complete.  `session_again` stops at its violation.
* `ftp_commands`: `MaxCommands = 4`: connect, login and two commands the client chooses, so that an error and a listing can each be followed by
  something a slot scheduled; listings of at most two lines, so that one can be read before and one after the other connection's
  news; five of the eight kinds of line (the others parse like one of these); IPv6, where EPSV may fail and PASV follow.
* `update_cycle`: bytes of three bits, of which the version takes two, and texts of one to three bytes, one of which gets shorter by compression;
  all damages of one byte; days 0-2 and
  `Kept = 1` (10 in the code), so that a log can be too many, and a clock can go back.
* `service`: two clients, so that one starts while another stops, and two daemons, so that two overlap and a dead one's file is in the way; all
  five controls of Windows in any order, two polls of a stop (10 in the code: each does the same).
* Deadlock is checked in every run but `ftp_commands`, where the client has a bounded number of commands and a lost connection is the end.

### Fairness

* QFtp: weak fairness of `Call` (a C++ function runs to its end) and of `Network` (the event loop, the sockets and the server go on, in some order);
  `ConnectionLost` and `ClientCloses` have none.  `CommandsEnd` names what a command may wait for without end (`Stranded`): QFtp has no timer of its
  own, and mFtpTimer of DownloadManager is there for it.
* UpdateCycle: posted calls and expired timers run, and a session ends (DownloadSession).  Nothing is assumed of the account server.
* UnixService: processes run, and a daemon serves each client in the end; WinService: each of the three threads runs.  Nothing is assumed of who
  asks, or of the service manager.
* FileDownload: the event loop runs queued slots and expired timers (weak fairness of `Slot`, `DownloadTimeout`).  Nothing is
  assumed of the network.
* DownloadSession: the same of posted calls, `mFtpTimer` and `mUpdateTimer`.  `WF(Account)` stands on AccountManager's own request
  timer; `WF(Downloading)` on `DownloadEnds`.  Nothing is assumed of the FTP server: the refinement of UpdateLoop's
  `WF(Progress)` shows that the timers alone end a session.
* ContentUpdate: weak fairness of `Session`, the program's own next step; that a session follows a session and that requests end is what the other
  two modules show.  Failures are bounded by `MaxFailures`, so `Converges` reads "once failures stop".

## 4. Proofs

All proofs hold for every value of the constants allowed by the modules' assumptions.

**ContentUpdateProofs** (assumptions `LocalFileAssumption`, `ContentUpdateAssumption`).

None of the safety properties is inductive; each theorem has its own strengthening, whose parts say where the session must be
for the property to be safe.

* `TypeCorrect`: step by step; the other theorems use it.
* `AdvertsAreIntact`, by `AdvertInv`: an advert of the session that is still to be fetched has no file to append to and no mark, and
  what is still to be moved is trusted.  `StartContent` removes the remains of an untrusted advert, a fetch that begins without a file and
  is trusted has every chunk, or some of one transfer if the size is unknown (`FreshFetchReceived`), and a move takes only what is trusted.
* `TimetablesAreWhole`, by `AcceptedInv`: a revision file with status `DOWNLOAD_OK` is never torn, and the file whose old copy was just
  removed is an accepted one; `StepInv` says in which phases a move can be half done.
* `TrustedFilesExist` and `RestartIsNotLost`, both with the assumption that the process does not die (`"crash" \notin Faults`): after a
  death between `rename()` and `check.remove()` a mark is stale, and after a death in a sync the flag is missing.  `RestartInv` carries
  `moved` through the phases of the sync; `TrustInv` needs that the next file to move is unique (`FirstPathUnique`).
* `RevisionIsSound`, by `CollectedInv`: from `startContent()` on, every collected entry of a unique name is in the session, trusted or in
  the media directory, and the lists do not change before `Finish`.
* `PermanentAdvertsStay`, by `PermanentInv`: an advert that is trusted and in `.sync` is not in the media directory, so the `remove()`
  before a move never deletes anything that is played; and no advert that every version lists is among the files to delete, because only an accepted list,
  which is one of some version, lets anything be deleted.  It holds with deaths of the process at any step.
* `SessionsAreLoops`, unless the process dies: each step of a session is one of UpdateLoop or a stutter.  `RoundInv` (nothing is moved in the
  first round) makes the last step of `syncContent()` the abstract `Finish`.

**DownloadSessionProofs** (assumptions `DownloadSessionAssumption` and, in each theorem, `MaxAnswers = 1`, without which
`session_again` refutes them).

* The invariant `SessionInv` adds two facts to the properties.  `ChainInv`: while the server has not been given up, the contents of
  QFtp's queue determine whether `mFtpTimer` runs (seven cases); afterwards it never runs.  It is needed because
  `OneThingDue` alone does not say that the signal that arrives is the one the timer was waiting for.  `SizedInv`: nothing is left to
  size when files are downloaded.
* `TypeCorrect`, `AlwaysOneThingDue`, `AlwaysSavedWhereAsked` are conjuncts of it; `FinishedIsDone` follows from it step by step.
* `StepsOfTheLoop`: every step maps to a step of UpdateLoop or to a stutter.  `LoopWhen` says which abstract state goes with
  each thing that may be due; as exactly one is, the case of each action is short.

**FileDownloadProofs** (assumptions `LocalFileAssumption`, `FileDownloadAssumption`): any size, any read buffer, any kind, any faults.

* The invariant `IInv` says what is queued and what is saved.  `QueueInv`: the reply, its timer and its queue come and go together, and
  `finished` is the last call of a queue.  It is why no slot finds `mCurrentReply` null (`TimersNeedReplies`).
  `CountInv`, `UnreadInv`: no progress is told of bytes that have not arrived, and bytes that wait to be read have a `readyRead` in the
  queue before the progress that counts them.  `SavedInv`, `GrownInv`: the file is what it was when the download began, and behind
  it what was read from the reply; on a faulty disk at most that.  `SizedInv`: who tells a size.
  `CompleteInv`, `DueInv`: `mFullDownloadBytes` is set only when
  something was read, and everything if the size was told, and it is or will be set when everything was received and the size was told.
  `TransferEnds` covers the last progress of a transfer, by `EndingForm`, for every way it ends.
* `TrustedAreComplete` and `CompleteAreTrusted` follow, with `NoMusic`: `FreshInv` (a download begins without a file) does
  not hold of music, and run `file_download_append` shows what comes of it.  The first also needs `Told`, and `file_download_unsized` shows why.
* `StepsOfTheFetch`: FileFetch has no fairness, so that the whole of `FetchSpec` is proved.  A slot that is not the last is a stutter,
  because the abstract file is the one the download began with until there is a verdict; the last slot is `Finish`, because `SavedInv` and
  `GrownInv` say that the file is one of `FetchResults`, with `CompleteInv` for how much of it came (`Enough`).

**QFtpProofs, QFtpOrderProofs** (assumption `QFtpAssumption`): any commands, any number of them, any lines and lengths of a listing, IPv4 and IPv6.

The state of QFtp between two calls says little; what matters is which function is waiting for which slot.  The proofs speak of the stack
of calls by a small vocabulary: a frame is running (`Runs`), anywhere (`OnStack`), below the running one (`Below`), or below the second
(`Deep`).  For each way the stack changes (a call that returns, one that calls one, two, three others, one that pushes) there is one lemma
that says what becomes of the four, for any stack; the thirty actions use those and never look into a sequence.

* `CommandsTyped` needs `Replied` (whoever calls `processReply()` looks at its result): a reply that cannot be processed returns from both.
* `Ordered` relates the stack to the state, in seventeen parts.  `Framed`, `OneHolder`, `OneCont`: which function may call which, that one call
  at most holds a command to remove, and that one at most goes on after a reply.  `Started`, `Holding`: the command that was started is the first of
  the queue, and it is what the calls hold.  `Talk`, `Answered`, `Replying`: one raw command at most is unanswered, the last, and what is
  in the outbox, on the wire, in the buffer and being processed has its number.  `Progress`, `Sending`: what is left to send is the rest of an
  operation, and an operation begins and ends where the interpreter is Idle.  `Connection`, `WaitsForEnd`, `ClosesLast`: which raw command the
  data connection, a reply that is held back, and a Close that waits belong to.  `Errors`: who may call `startNextCmd()` out of turn.
* `Ordered` is preserved by each of the forty-four actions (`<Action>Ordered`) as long as the step does not overrun, and the only step that
  can is the second `startNextCmd()` of a reply in whose slots a command was sent, which needs the error text.  So the invariant is
  `Inv == TypeOK /\ Replied /\ (~hist.overrun => Ordered /\ Listed) /\ (hist.overrun => hist.dataError)`, and `Invariance` proves it.
* `RepliesAreForCommands`, `CommandsOutliveSlots`, `OverrunsNeedDataErrors` are consequences.
* `ListingsComplete` needs `Listed`, which follows a listing on its two connections.  `Owing`: the entries not yet shown are those in the data
  connection and in the buffer, and the files among them those and the one whose slot runs; `CountedFirst` counts a listing
  by its first line (`Cardinality` of two sets of indices, compared by a bijection), so that each line that is read moves one from the
  buffer to the slots.  `ShownAtOnce`: what has been buffered is shown before the next event.  `Vouched`: a listing that was
  broken off has no 226, on the wire, in the buffer, or held back.  `Concluded`: with `Connection`, by which a 226 is processed only when the data
  connection is closed and empty, a List that has sent all its raw commands is complete or is dropped.  `Suits`: which of them a List may have left.
* `QueueInOrder`: each step changes the queue as CommandQueue allows or not at all.  `removeFirst()` is the abstract `Finish` because the
  frame that runs it holds the first command, and that was started; `clearPendingCommands()` is `Drop`.  CommandQueue states no fairness, so that this is
  the whole of the refinement.

**BoxProofs** (assumptions `SimpleCryptAssumption`, `UpdateCycleAssumption`, `LogRetentionAssumption`): any width of a byte, any key, any answers,
any days and number of logs kept.

* `CacheHolds`.  The loop of `encryptToByteArray()` is a recursive function, of which the prover knows nothing until it knows that there is a
  function that satisfies the recursion.  `LoopRuns` shows it by induction on the length of the body, `LoopEnds` and `ChainTyped` say what it
  computes.  No induction theorem of the library is used, since these take an operator: `UpTo` is an induction over a *set* of numbers,
  from the least number that is not in it (`LeastNumber`).  From there on: `Unchains`, the other loop undoes the first; `DamageSpreads`, a flipped byte
  of the ciphertext is a flipped byte of the plaintext and another behind it; `DamageNoticed`, wherever the two are, in the random byte, in the
  checksum, in the text or across, the checksum does not fit; `DecryptsEncrypted` and `DamagedIsRefused` for the whole ciphertext.  The
  invariant `SavedInv` says that `account.dat` holds the encryption of the text saved last, a good answer, or a damage of it.
  The checksum is that of the model: two parities of each bit, the part of CRC-16 that tells the damage of two neighbouring bytes.
* `DueHolds`, by `DueStep`, which follows the turn from the posted call to the request, from there to its signal and on to the session or the timer.
  `Replied` and `SendTyped` keep the Eventer's AccountManager apart from the controller's.
* `OutageSurvived`: `AccountMoves` lists what a step may do to an AccountManager, and only a reply that finds nothing in the cache ends with
  `ReplyError`; `AskedInv` says that a request begins without that error, and `CacheHolds` that the cache is found.
* `NewestStayHolds`: behind the newest log that may be deleted at least `Kept` are newer, and none of those may be deleted.  It needs nothing
  of the clock.

**ServiceLibraryProofs** (assumption `UnixServiceAssumption`), the part about UnixService: any number of daemons and command lines.

* `DaemonsReachable`: `Holds` says what a daemon that was never beside another has made of the name in each of its states, `Alone` that
  whoever is beside another is known to be; together they exclude that somebody else unlinks or binds the name.
* `StartsSeeDaemons`: `Asks` follows the daemons that were up when a start began through `isRunning()`, the answer and the fork;
  `Remembered` says that none of them is a new process with an old identifier.
* `StopsEndUpdates`: `Stopped` and `UpdaterRuns`, that a daemon that has said "true" to `terminate` quits and only a running one updates.

**WinServiceProofs** (no assumption but that `MaxPolls` is a natural number, for the types): any number of controllers and polls, any flags.

* `NobodyWaitsForever` and `StoppedIsIdle` are conjuncts of, or follow from, an invariant that relates where the three threads are.  `Begun`,
  `Starting`: the semaphores bring the threads to the loop one after the other, and no control is taken before the start has been
  reported.  `Posted`: an event in the queue is that of the one thread that waits.  `Controlled`: a control is handled only under a status
  that allows it.  `Reported`, `Quits`: from the report of a stop to the end of the process the status allows none.  For these two the mutex
  that `handler()` takes is enough, although its last report is made behind the unlock.
* `WindowsTypes`: the one bound among the types, of the polls of `stop()`, holds because `Poll` gives up at it and the other actions of a
  controller do not count (`PollsKeep`).
* They are theorems of `Init /\ [][Next]_vars` of WinService, without its fairness.

**ServiceLibraryProofs**, the part about ServiceLibrary, carries the theorems of the two over to `LibrarySpec`, which the run checks (`DaemonsBehave`, `HandlersAreWoken`,
`StoppedServicesAreIdle`, `LibraryTypes`): a behaviour of the library is one of UnixService and one of WinService, of which one stutters for ever.

Only model-checked is liveness (`DownloadEnds`, `Converges`, `CommandsEnd`, `CycleGoesOn`, `RequestsEnd`, the fairness part of `LoopSpec`): TLAPS proves nothing
with ENABLED, and so nothing from weak fairness.

## 5. What is not modelled, and why

* Abstractions inside the modelled parts: a `downloadProgress` that QNetworkReply leaves out because the last one was just now is
  a chunk that is larger; a fetch in ContentUpdate does not lose writes (FileDownload has them); the contents under
  one name do not change between versions; writes of the settings and `QFile::copy` are atomic; "crash" is the death of the process, not of the file
  system; the byte counters that feed progress messages are left out; server-side listings with errors of format are `ListInfo`
  without a file.  In DownloadSession a server that refuses QUIT, or a login that succeeds with another reply than 230, is left out
  (QFtp has both).
* QFtp: `put()`, `remove()`, `mkdir()`, `rmdir()`, `rawCommand()`, `abort()`, `setTransferMode()`, proxies and active mode, none of which
  this program calls.  Of a line of a listing, dates, sizes, owners and permissions, and with them most of QUrlInfo, a class of values.
* Windows: the 30 s after which `ControlService()` gives up on a handler, the event log, and the program's arguments.
* StationManager: paths and the clamping of the timeouts, which are read where they are used and change no state.
* The text of log lines; the progress messages of EventerController, which are sent and forgotten.
* UploadManager and FileUploader, which do nothing; LoginInfo, a class of values; the examples of QtService, which are not part of the
  program on a box.

## 6. Plan

The plan of the inventory has been carried out: the download of a file, the session on disk, the chains of slots, the queue of FTP commands, the
cycle of updates with its accounts and logs, and the service on both platforms, each with its properties; proofs for FileDownload,
ContentUpdate, DownloadSession, QFtp, Box, UnixService and WinService.  What would add most next is
the whole program in one module, DownloadSession over QFtp instead of over the signals it takes for granted; the composed state space is beyond what
TLC finishes in minutes, so that it needs a coarser QFtp first.
