---------------------------- MODULE ContentUpdate ----------------------------
(***************************************************************************)
(* The update of the media directory: DownloadManager's session from       *)
(* start() to syncContent(), with everything it keeps on disk.             *)
(*                                                                         *)
(* A session fetches the revision files (the two content lists, the        *)
(* timetables and "command", which carries the revision number), collects  *)
(* from the lists what is missing, fetches it into .sync, and moves what   *)
(* is trusted to the media directory, where it deletes what the lists do   *)
(* not name.  The server may publish a new version between any two         *)
(* requests.  One request is one step here; FileDownload shows that it is. *)
(***************************************************************************)
EXTENDS LocalFile, FiniteSets

CONSTANTS
    Channels,   \* directories of music; the one of adverts is AdvertDir
    Names,      \* file names, ordered as QString orders them
    Timetables, \* the timetable files
    MaxVersion, \* bound: versions the server publishes
    Listed,     \* what the lists of each version name
    Unsized,    \* files whose size the server may not tell
    Faults,     \* what may go wrong besides the network
    MaxFailures \* bound: failures of any kind in one behaviour

AdvertDir == 0

Entries  == (Channels \cup {AdvertDir}) \X Names
Adverts  == {e \in Entries : e[1] = AdvertDir}
Tracks   == Entries \ Adverts
Versions == 1 .. MaxVersion

ASSUME ContentUpdateAssumption ==
    /\ Channels \subseteq Nat \ {AdvertDir}
    /\ Names \subseteq Nat
    /\ Timetables \subseteq {"timetable", "vtimetable"}
    /\ MaxVersion \in Nat \ {0}
    /\ Listed \in [Versions -> SUBSET Entries]
    /\ Unsized \subseteq Entries
    /\ Faults \subseteq {"crash", "rename"}
    /\ MaxFailures \in Nat

VARIABLES
    server,     \* the version the FTP server holds
    failures,   \* failures so far
    phase,      \* where the session is
    mRevision,  \* it is fetching revision files, not content
    revQueue,   \* revision files still to fetch or to synchronise
    files,      \* mContentFilesMap: the content files of this session
    queue,      \* mContentFiles: those still to fetch
    todo,       \* files still to move or to delete in this phase of the sync
    step,       \* where the move of the first of them is
    moved,      \* something was moved or copied in this sync
    sync,       \* .sync: what was downloaded and not yet moved
    trust,      \* checkstorage: files marked as completely downloaded
    media,      \* the media directory, where the player reads
    revFile,    \* the version of each revision file in .sync
    revFlag,    \* revstorage: its status
    dest,       \* the version of the advert table and timetables in use
    revLocal,   \* the revision of the last update, in .sync/<box>/local
    restart,    \* the playerRestart flag
    dirty       \* history: something was added since the player restarted

fetch_vars  == <<mRevision, revQueue, files, queue>>
sync_vars   == <<todo, step, moved>>
disk        == <<sync, trust, media>>
lists       == <<revFile, revFlag>>
played      == <<dest, revLocal, restart, dirty>>

vars == <<server, failures, phase, fetch_vars, sync_vars, disk, lists, played>>

Absent == 0     \* no such file
Torn   == -1    \* a file that was not received in full

LocalRevFiles == {"adverttable"} \cup Timetables
RevFiles      == {"chanels", "command"} \cup LocalRevFiles

\* QMap orders the files of a session by name.
RevRank == [adverttable |-> 1, chanels |-> 2, command |-> 3,
            timetable |-> 4, vtimetable |-> 5]

FirstRev(f, S)  == f \in S /\ \A g \in S : RevRank[f] <= RevRank[g]
FirstName(e, S) == e \in S /\ \A g \in S : e[2] <= g[2]
FirstPath(e, S) ==
    e \in S /\ \A g \in S : e[1] < g[1] \/ (e[1] = g[1] /\ e[2] <= g[2])

MovePhases  == {"moveMusic", "moveAdvert"}
PrunePhases == {"pruneMusic", "pruneAdvert"}
Phases == {"idle", "sizing", "fetching", "copyRevision", "pruneRevision"}
              \cup MovePhases \cup PrunePhases

Status == {"DEFAULT", "DOWNLOAD_OK", "DOWNLOAD_FAIL"}

TypeOK ==
    /\ server \in Versions
    /\ failures \in 0 .. MaxFailures
    /\ phase \in Phases
    /\ mRevision \in BOOLEAN
    /\ revQueue \subseteq RevFiles
    /\ files \subseteq Entries
    /\ queue \subseteq Entries
    /\ todo \subseteq Entries
    /\ step \in {"remove", "rename", "forget"}
    /\ moved \in BOOLEAN
    /\ sync \in [Entries -> File]
    /\ trust \subseteq Entries
    /\ media \in [Entries -> File]
    /\ revFile \in [RevFiles -> Versions \cup {Absent, Torn}]
    /\ revFlag \in [RevFiles -> Status]
    /\ dest \in [LocalRevFiles -> Versions \cup {Absent, Torn}]
    /\ revLocal \in 0 .. MaxVersion
    /\ restart \in BOOLEAN
    /\ dirty \in BOOLEAN

Init ==
    /\ server = 1
    /\ failures = 0
    /\ phase = "idle"
    /\ mRevision = FALSE
    /\ revQueue = {} /\ files = {} /\ queue = {}
    /\ todo = {} /\ step = "remove" /\ moved = FALSE
    /\ sync = [e \in Entries |-> NoFile]
    /\ trust = {}
    /\ media = [e \in Entries |-> NoFile]
    /\ revFile = [f \in RevFiles |-> Absent]
    /\ revFlag = [f \in RevFiles |-> "DEFAULT"]
    /\ dest = [f \in LocalRevFiles |-> Absent]
    /\ revLocal = 0
    /\ restart = FALSE /\ dirty = FALSE

-----------------------------------------------------------------------------
(***************************************************************************)
(* The server and the player.                                              *)
(***************************************************************************)

Publish ==
    /\ server < MaxVersion
    /\ server' = server + 1
    /\ UNCHANGED <<failures, phase, fetch_vars, sync_vars, disk, lists, played>>

\* A conjunct of every step in which something fails.
Fails ==
    /\ failures < MaxFailures
    /\ failures' = failures + 1

\* The player finds playerRestart set, restarts and clears it.
PlayerRestarts ==
    /\ restart
    /\ restart' = FALSE
    /\ dirty' = FALSE
    /\ UNCHANGED <<server, failures, phase, fetch_vars, sync_vars, disk, lists,
                   dest, revLocal>>

-----------------------------------------------------------------------------
(***************************************************************************)
(* Fetching.                                                               *)
(***************************************************************************)

\* DownloadManager::start().  Content(REVISION) removes the directories of the
\* revision files, and revstorage, which lies in one of them.
Start ==
    /\ phase = "idle"
    /\ phase' = "sizing"
    /\ mRevision' = TRUE
    /\ revFile' = [f \in RevFiles |-> Absent]
    /\ revFlag' = [f \in RevFiles |-> "DEFAULT"]
    /\ UNCHANGED <<server, failures, revQueue, files, queue, sync_vars, disk, played>>

\* getTotalSize(): only files the FTP server lists are fetched; a LIST that
\* fails leaves its file out of the session.
Sized ==
    /\ phase = "sizing"
    /\ phase' = "fetching"
    /\ IF mRevision
       THEN /\ revQueue' \in SUBSET RevFiles
            /\ UNCHANGED queue
            /\ IF revQueue' = RevFiles THEN UNCHANGED failures ELSE Fails
       ELSE /\ queue' \in SUBSET files
            /\ UNCHANGED revQueue
            /\ IF queue' = files THEN UNCHANGED failures ELSE Fails
    /\ UNCHANGED <<server, mRevision, files, sync_vars, disk, lists, played>>

\* The connection fails or times out; the session is over.
FtpFails ==
    /\ phase = "sizing"
    /\ mRevision \/ files # {}
    /\ Fails
    /\ phase' = "idle"
    /\ files' = {}
    /\ UNCHANGED <<server, mRevision, revQueue, queue, sync_vars, disk,
                   lists, played>>

\* One revision file: received and accepted, or not accepted.  An error or the
\* timeout may also come after the last byte.
FetchRevision ==
    /\ phase = "fetching"
    /\ mRevision
    /\ \E f \in revQueue :
          /\ FirstRev(f, revQueue)
          /\ revQueue' = revQueue \ {f}
          /\ \/ /\ revFile' = [revFile EXCEPT ![f] = server]
                /\ revFlag' = [revFlag EXCEPT ![f] = "DOWNLOAD_OK"]
                /\ UNCHANGED failures
             \/ /\ Fails
                /\ \E v \in {Absent, Torn, server} :
                      revFile' = [revFile EXCEPT ![f] = v]
                /\ revFlag' = [revFlag EXCEPT ![f] = "DOWNLOAD_FAIL"]
    /\ UNCHANGED <<server, phase, mRevision, files, queue, sync_vars,
                   disk, played>>

\* Mutant of Accepted: it need only be there.
AcceptedIfThere(f) == revFile[f] # Absent

\* A list is used when it was accepted and can be opened.
Accepted(f) == revFlag[f] = "DOWNLOAD_OK" /\ revFile[f] # Absent

Lines(f) == IF revFile[f] \in Versions THEN Listed[revFile[f]] ELSE {}

AdvertList  == Adverts \cap Lines("adverttable")
ChannelList == Tracks \cap Lines("chanels")

\* mContentFilesMap has one file of each name: music is inserted after adverts,
\* and of two tracks of one name the later line wins.
OneOfEachName(S) ==
    {T \in SUBSET S :
        /\ \A e \in S : \E g \in T : g[2] = e[2]
        /\ \A e, g \in T : e[2] = g[2] => e = g
        /\ \A e \in T, g \in S : e \in Adverts /\ g \in Tracks => e[2] # g[2]}

CollectedAdverts == IF Accepted("adverttable") THEN AdvertList ELSE {}
CollectedTracks  == IF Accepted("chanels") THEN ChannelList ELSE {}

\* Mutant of Missing: a file in .sync is taken for downloaded without its mark.
MissingOnDisk(S) == {e \in S : ~Exists(sync[e]) /\ ~Exists(media[e])}

\* checkExistFile(): neither trusted in .sync nor in the media directory.
Missing(S) == {e \in S : e \notin trust /\ ~Exists(media[e])}

\* Mutant of StartContent: nothing is removed from .sync.
StartContentAppending ==
    /\ phase = "fetching"
    /\ mRevision
    /\ revQueue = {}
    /\ phase' = "sizing"
    /\ mRevision' = FALSE
    /\ files' \in OneOfEachName(Missing(CollectedAdverts \cup CollectedTracks))
    /\ UNCHANGED <<server, failures, revQueue, queue, sync_vars, disk, lists,
                   played>>

\* Mutant of StartContent: mRevision is not reset.
StartContentRevision ==
    /\ phase = "fetching"
    /\ mRevision
    /\ revQueue = {}
    /\ phase' = "sizing"
    /\ files' \in OneOfEachName(Missing(CollectedAdverts \cup CollectedTracks))
    /\ UNCHANGED <<server, failures, mRevision, revQueue, queue, sync_vars, disk,
                   lists, played>>

\* startContent().  checkFile() removes what is left in .sync of an untrusted
\* advert.  Of a track it does not: while the list is read mDest lacks the
\* music directory, so the path it looks at does not exist.
StartContent ==
    /\ phase = "fetching"
    /\ mRevision
    /\ revQueue = {}
    /\ phase' = "sizing"
    /\ mRevision' = FALSE
    /\ files' \in OneOfEachName(Missing(CollectedAdverts \cup CollectedTracks))
    /\ sync' = [e \in Entries |->
                   IF e \in CollectedAdverts \ trust THEN NoFile ELSE sync[e]]
    /\ UNCHANGED <<server, failures, revQueue, queue, sync_vars, trust, media, lists,
                   played>>

\* One content file, with the verdict of downloadFinished().  A transfer that
\* breaks off may pass for a complete one when the server did not tell the size.
FetchContent ==
    /\ phase = "fetching"
    /\ ~mRevision
    /\ \E e \in queue :
          /\ FirstName(e, queue)
          /\ queue' = queue \ {e}
          /\ \E r \in FetchResults(sync[e], FALSE, e \notin Unsized) :
                /\ IF r.trusted THEN UNCHANGED failures ELSE Fails
                /\ sync' = [sync EXCEPT ![e] = r.file]
                /\ trust' = IF r.trusted THEN trust \cup {e} ELSE trust
    /\ UNCHANGED <<server, phase, mRevision, revQueue, files, sync_vars,
                   media, lists, played>>

\* Mutant of RevServer: the number of the revision to come.
RevServerNext == {revFile["command"] + 1}

\* revServer() reads "command" whatever its status; what is left of a torn one
\* may read as any number.
RevServer ==
    IF revFile["command"] = Torn THEN 0 .. MaxVersion ELSE {revFile["command"]}

\* Trusted tracks or adverts in .sync, as Content(type, box, local) finds them.
Movable(S) == {e \in S : e \in trust /\ Exists(sync[e])}

\* Mutant of Finish: checkAllFiles() is not asked.
FinishUnchecked ==
    /\ phase = "fetching"
    /\ ~mRevision
    /\ queue = {}
    /\ \E r \in RevServer : revLocal' = IF r > 0 THEN r ELSE revLocal
    /\ phase' = "moveMusic"
    /\ todo' = Movable(Tracks)
    /\ files' = {}
    /\ UNCHANGED <<server, failures, mRevision, revQueue, queue, step, moved,
                   disk, lists, dest, restart, dirty>>

\* The end of nextDownload() when nothing is left to fetch.  checkAllFiles()
\* stops at the first file that is not trusted, and only that one is removed
\* from .sync.  syncContent() begins.
Finish ==
    /\ phase = "fetching"
    /\ ~mRevision
    /\ queue = {}
    /\ LET untrusted == files \ trust
       IN  \/ /\ untrusted = {}
              /\ \E r \in RevServer :
                    revLocal' = IF r > 0 THEN r ELSE revLocal
              /\ UNCHANGED sync
           \/ \E e \in untrusted :
                 /\ FirstName(e, untrusted)
                 /\ sync' = [sync EXCEPT ![e] = NoFile]
                 /\ UNCHANGED revLocal
    /\ phase' = "moveMusic"
    /\ todo' = Movable(Tracks)
    /\ files' = {}
    /\ UNCHANGED <<server, failures, mRevision, revQueue, queue, step, moved,
                   trust, media, lists, dest, restart, dirty>>

-----------------------------------------------------------------------------
(***************************************************************************)
(* syncContent(): for music, adverts and revision files in this order,     *)
(* copyToDestination() and deleteExcessFiles().  It runs without returning *)
(* to the event loop, but not without interruption: each change of the     *)
(* disk is a step.                                                         *)
(***************************************************************************)

\* copyToDestination() for music and adverts: an old file is removed, the new
\* one renamed into its place, its mark of trust removed.
RemoveOld ==
    /\ phase \in MovePhases
    /\ step = "remove"
    /\ \E e \in todo :
          /\ FirstPath(e, todo)
          /\ media' = [media EXCEPT ![e] = NoFile]
    /\ step' = "rename"
    /\ UNCHANGED <<server, failures, phase, fetch_vars, todo, moved, sync, trust,
                   lists, played>>

Rename ==
    /\ phase \in MovePhases
    /\ step = "rename"
    /\ \E e \in todo :
          /\ FirstPath(e, todo)
          /\ media' = [media EXCEPT ![e] = sync[e]]
          /\ sync' = [sync EXCEPT ![e] = NoFile]
    /\ step' = "forget"
    /\ moved' = TRUE
    /\ dirty' = TRUE
    /\ UNCHANGED <<server, failures, phase, fetch_vars, todo, trust, lists,
                   dest, revLocal, restart>>

RenameFails ==
    /\ "rename" \in Faults
    /\ Fails
    /\ phase \in MovePhases
    /\ step = "rename"
    /\ step' = "remove"
    /\ \E e \in todo : FirstPath(e, todo) /\ todo' = todo \ {e}
    /\ UNCHANGED <<server, phase, fetch_vars, moved, disk, lists, played>>

\* Mutant of Forget: check.remove() is not called.
ForgetNothing ==
    /\ phase \in MovePhases
    /\ step = "forget"
    /\ \E e \in todo : FirstPath(e, todo) /\ todo' = todo \ {e}
    /\ step' = "remove"
    /\ UNCHANGED <<server, failures, phase, fetch_vars, moved, disk, lists,
                   played>>

Forget ==
    /\ phase \in MovePhases
    /\ step = "forget"
    /\ \E e \in todo :
          /\ FirstPath(e, todo)
          /\ trust' = trust \ {e}
          /\ todo' = todo \ {e}
    /\ step' = "remove"
    /\ UNCHANGED <<server, failures, phase, fetch_vars, moved, sync, media, lists,
                   played>>

\* Mutant of MayPrune: the status of the list is not looked at.
MayPruneUnaccepted(list) == revFile["command"] # Absent

\* deleteExcessFiles() deletes nothing unless the file "command" is there and
\* the list was accepted.
MayPrune(list) == revFile["command"] # Absent /\ Accepted(list)

InMedia(S) == {e \in S : Exists(media[e])}

ExcessAdverts == InMedia(Adverts) \ AdvertList

\* The loop that deletes has lost the directory of each file: all names are
\* looked for in the directory of the last one.
LastDirectory(S, d) ==
    /\ \E e \in S : e[1] = d
    /\ \A e \in S : e[1] <= d

ExcessTracks ==
    LET excess == InMedia(Tracks) \ ChannelList
    IN  {e \in InMedia(Tracks) :
            /\ LastDirectory(excess, e[1])
            /\ \E x \in excess : x[2] = e[2]}

\* Mutant of Turn: restart is assigned, not or-ed, in the loop of syncContent().
TurnAnew(from, to, work) ==
    /\ phase = from
    /\ todo = {}
    /\ phase' = to
    /\ todo' = work
    /\ moved' = FALSE
    /\ UNCHANGED <<server, failures, fetch_vars, step, disk, lists, played>>

\* One content is done; the next pass begins with the files it will handle.
Turn(from, to, work) ==
    /\ phase = from
    /\ todo = {}
    /\ phase' = to
    /\ todo' = work
    /\ UNCHANGED <<server, failures, fetch_vars, step, moved, disk, lists, played>>

BeginPruneMusic ==
    Turn("moveMusic", "pruneMusic", IF MayPrune("chanels") THEN ExcessTracks ELSE {})

BeginMoveAdverts == Turn("pruneMusic", "moveAdvert", Movable(Adverts))

BeginPruneAdverts ==
    Turn("moveAdvert", "pruneAdvert",
         IF MayPrune("adverttable") THEN ExcessAdverts ELSE {})

Delete ==
    /\ phase \in PrunePhases
    /\ \E e \in todo :
          /\ FirstPath(e, todo)
          /\ media' = [media EXCEPT ![e] = NoFile]
          /\ todo' = todo \ {e}
    /\ UNCHANGED <<server, failures, phase, fetch_vars, step, moved, sync, trust,
                   lists, played>>

\* copyToDestination() for the revision files: only an accepted one, and only
\* when its content differs, is copied over the one in use.
BeginCopyRevision ==
    /\ phase = "pruneAdvert"
    /\ todo = {}
    /\ phase' = "copyRevision"
    /\ revQueue' = LocalRevFiles
    /\ UNCHANGED <<server, failures, mRevision, files, queue, sync_vars, disk,
                   lists, played>>

ToCopy(f) == Accepted(f) /\ dest[f] # revFile[f]

KeepRevision ==
    /\ phase = "copyRevision"
    /\ step = "remove"
    /\ \E f \in revQueue :
          /\ FirstRev(f, revQueue)
          /\ ~ToCopy(f)
          /\ revQueue' = revQueue \ {f}
    /\ UNCHANGED <<server, failures, phase, mRevision, files, queue, sync_vars, disk,
                   lists, played>>

RemoveRevision ==
    /\ phase = "copyRevision"
    /\ step = "remove"
    /\ \E f \in revQueue :
          /\ FirstRev(f, revQueue)
          /\ ToCopy(f)
          /\ dest' = [dest EXCEPT ![f] = Absent]
    /\ step' = "rename"
    /\ UNCHANGED <<server, failures, phase, fetch_vars, todo, moved, disk, lists,
                   revLocal, restart, dirty>>

CopyRevision ==
    /\ phase = "copyRevision"
    /\ step = "rename"
    /\ step' = "remove"
    /\ \E f \in revQueue :
          /\ FirstRev(f, revQueue)
          /\ revQueue' = revQueue \ {f}
          /\ \/ /\ dest' = [dest EXCEPT ![f] = revFile[f]]
                /\ moved' = TRUE
                /\ dirty' = TRUE
                /\ UNCHANGED failures
             \/ /\ "rename" \in Faults
                /\ Fails
                /\ UNCHANGED <<dest, moved, dirty>>
    /\ UNCHANGED <<server, phase, mRevision, files, queue, todo, disk,
                   lists, revLocal, restart>>

BeginPruneRevision ==
    /\ phase = "copyRevision"
    /\ step = "remove"
    /\ revQueue = {}
    /\ phase' = "pruneRevision"
    /\ revQueue' = LocalRevFiles
    /\ UNCHANGED <<server, failures, mRevision, files, queue, sync_vars, disk, lists,
                   played>>

\* deleteExcessFiles() for the revision files: one that was not even tried in
\* this session, because LIST did not name it, is no longer in use.
Untried(f) == revFile[f] = Absent /\ revFlag[f] = "DEFAULT"

PruneRevision ==
    /\ phase = "pruneRevision"
    /\ \E f \in revQueue :
          /\ FirstRev(f, revQueue)
          /\ revQueue' = revQueue \ {f}
          /\ IF revFile["command"] # Absent /\ Untried(f)
             THEN dest' = [dest EXCEPT ![f] = Absent]
             ELSE UNCHANGED dest
    /\ UNCHANGED <<server, failures, phase, mRevision, files, queue, sync_vars, disk,
                   lists, revLocal, restart, dirty>>

\* The end of syncContent(): deletions alone do not restart the player.
EndSync ==
    /\ phase = "pruneRevision"
    /\ revQueue = {}
    /\ phase' = "idle"
    /\ restart' = (restart \/ moved)
    /\ moved' = FALSE
    /\ UNCHANGED <<server, failures, fetch_vars, todo, step, disk, lists, dest,
                   revLocal, dirty>>

\* The service stops or dies; it starts again with what is on disk.
Crash ==
    /\ "crash" \in Faults
    /\ Fails
    /\ phase # "idle"
    /\ phase' = "idle"
    /\ revQueue' = {} /\ files' = {} /\ queue' = {}
    /\ todo' = {} /\ step' = "remove" /\ moved' = FALSE
    /\ UNCHANGED <<server, mRevision, disk, lists, played>>

-----------------------------------------------------------------------------
Fetching == Start \/ Sized \/ FetchRevision \/ StartContent \/ FetchContent \/ Finish

Moving == RemoveOld \/ Rename \/ Forget

Copying == KeepRevision \/ RemoveRevision \/ CopyRevision

Pruning == Delete \/ PruneRevision

Turning ==
    \/ BeginPruneMusic \/ BeginMoveAdverts \/ BeginPruneAdverts
    \/ BeginCopyRevision \/ BeginPruneRevision
    \/ EndSync

Session == Fetching \/ Moving \/ Copying \/ Pruning \/ Turning

Environment == Publish \/ PlayerRestarts \/ FtpFails \/ RenameFails \/ Crash

Next == Session \/ Environment

\* The single-shot update timer is armed at the end of every session, every
\* request ends (FileDownload!DownloadEnds), and the rest is one thread's code.
Spec == Init /\ [][Next]_vars /\ WF_vars(Session)

-----------------------------------------------------------------------------
(***************************************************************************)
(* Properties.                                                             *)
(***************************************************************************)

\* While the process does not die, a file marked as trusted is in .sync, except
\* between its move and the removal of the mark.  Otherwise checkFile() takes
\* it for downloaded, nothing fetches it, and there is nothing to move.
TrustedHasFile ==
    \A e \in trust : Exists(sync[e]) \/ (step = "forget" /\ FirstPath(e, todo))

\* Every advert that is trusted or already played is the whole file of the
\* server, through failed and interrupted downloads of any number of sessions,
\* moves that were cut short, and adverts that leave the list and come back.
\* One whose size the server does not tell may be cut short (FileDownload's
\* TrustedWasReceived), but it is not empty and never made of two transfers.
Received(e, f) == f.clean /\ f.len \in Enough(e \notin Unsized)

AdvertsIntact ==
    \A e \in Adverts :
        /\ e \in trust /\ Exists(sync[e]) => Received(e, sync[e])
        /\ Exists(media[e]) => Received(e, media[e])

\* The advert table and the timetables in use are never a partial download:
\* only an accepted file replaces the one the player reads.
TimetablesWhole == \A f \in LocalRevFiles : dest[f] # Torn

\* revLocal is moved on only when every advert and track of the lists of this
\* session whose name no other entry shares is trusted or in the media
\* directory: checkAllFiles() must look at all of them.
NameIsUnique(e, S) == \A g \in S : g[2] = e[2] => g = e

Collected == CollectedAdverts \cup CollectedTracks

RevisionSound ==
    [][ revLocal' # revLocal =>
            \A e \in Collected :
                NameIsUnique(e, Collected) => e \in trust \/ Exists(media[e]) ]_vars

\* Files every version of the lists names.
Permanent == {e \in Entries : \A v \in Versions : e \in Listed[v]}

\* An advert that every version lists, once in the media directory, stays there:
\* no failed or torn list, no crash and no move may delete it.
PermanentAdvertStays ==
    [][ \A e \in Permanent \cap Adverts : Exists(media[e]) => Exists(media'[e]) ]_vars

\* The same of tracks.  mStandartFiles are "the reference files that must be in
\* the directories" (contentmanager.h:111); deleteExcessFiles() is to delete
\* the others.
PermanentTrackStays ==
    [][ \A e \in Permanent \cap Tracks : Exists(media[e]) => Exists(media'[e]) ]_vars

\* Between sessions, the player has the restart flag to find when anything was
\* added since it last restarted, also when it cleared the flag of an earlier
\* session in the middle of this one.
RestartNotLost == phase = "idle" /\ dirty => restart

\* When the failures end, the media directory comes to hold the files of the
\* server's lists and no others, with its timetables and its revision number,
\* and stays so: also after sessions that left torn lists, mixed versions,
\* partial downloads or half of their moves behind.
UpToDate ==
    /\ InMedia(Entries) = Listed[server]
    /\ \A f \in LocalRevFiles : dest[f] = server
    /\ revLocal = server

Converges == <>[]UpToDate

\* While the process does not die, the sessions are those of UpdateLoop, which
\* DownloadSession's chains of slots implement: two rounds and an end.
Loop == INSTANCE UpdateLoop WITH
    RevisionFiles <- RevFiles,
    ContentFiles  <- Entries,
    phase    <- IF phase \in {"idle", "sizing"} THEN phase ELSE "fetching",
    revision <- phase = "idle" \/ mRevision,
    queue    <- IF phase # "fetching" THEN {}
                ELSE IF mRevision THEN revQueue ELSE queue

LoopSpec == Loop!Spec

=============================================================================
