------------------------- MODULE ContentUpdateProofs -------------------------
(***************************************************************************)
(* Theorems about ContentUpdate, for every set of channels, names and      *)
(* timetables, every list of every version and any number of failures.     *)
(***************************************************************************)
EXTENDS ContentUpdate, TLAPS


-----------------------------------------------------------------------------
(***************************************************************************)
(* Files.                                                                  *)
(***************************************************************************)

\* Appending to a file, any number of chunks of a transfer, gives a file.
LEMMA AppendedType ==
    ASSUME NEW f \in File, NEW n \in 0 .. Size
    PROVE  Appended(f, 0, n) \in File
  BY LocalFileAssumption DEF Appended, File, Capped, OnDisk, Exists

\* A fetch leaves a file behind.
LEMMA FetchResultsType ==
    ASSUME NEW f \in File, NEW told, NEW r \in FetchResults(f, FALSE, told)
    PROVE  r.file \in File /\ r.trusted \in BOOLEAN
<1>1. \A g \in Grown(f, FALSE) : g \in File
  BY AppendedType DEF Grown
<1> QED
  BY <1>1 DEF FetchResults

\* A fetch that began without a file and is trusted brought enough of it.
LEMMA FreshFetchReceived ==
    ASSUME NEW told, NEW r \in FetchResults(NoFile, FALSE, told), r.trusted
    PROVE  r.file.clean /\ r.file.len \in Enough(told)
<1>1. PICK n \in Enough(told) : r.file = Appended(NoFile, 0, n)
  BY DEF FetchResults
<1>2. n \in 1 .. Size
  BY LocalFileAssumption DEF Enough
<1>3. OnDisk(NoFile) = 0 /\ NoFile.clean
  BY DEF NoFile, OnDisk, Exists
<1>4. Capped(0 + n) = n
  BY <1>2, LocalFileAssumption DEF Capped
<1>5. /\ Appended(NoFile, 0, n).len = Capped(OnDisk(NoFile) + n)
      /\ Appended(NoFile, 0, n).clean = (NoFile.clean /\ (n = 0 \/ OnDisk(NoFile) = 0))
  BY DEF Appended
<1>6. r.file.len = n /\ r.file.clean
  BY <1>1, <1>3, <1>4, <1>5
<1> QED
  BY <1>6

\* No file is a file.
LEMMA NoFileType == NoFile \in File
  BY LocalFileAssumption DEF NoFile, File

-----------------------------------------------------------------------------
(***************************************************************************)
(* Types.                                                                  *)
(***************************************************************************)

LEMMA TypeInit == Init => TypeOK
<1> SUFFICES ASSUME Init
             PROVE  TypeOK
  OBVIOUS
<1> USE DEF Init
<1>1. server \in Versions /\ failures \in 0 .. MaxFailures /\ revLocal \in 0 .. MaxVersion
  BY ContentUpdateAssumption DEF Versions
<1>2. sync \in [Entries -> File] /\ media \in [Entries -> File]
  BY NoFileType
<1>3. /\ revFile \in [RevFiles -> Versions \cup {Absent, Torn}]
      /\ revFlag \in [RevFiles -> Status]
      /\ dest \in [LocalRevFiles -> Versions \cup {Absent, Torn}]
  BY DEF Status
<1> QED
  BY <1>1, <1>2, <1>3 DEF TypeOK, Phases

LEMMA TypeFetching == TypeOK /\ Fetching => TypeOK'
<1> SUFFICES ASSUME TypeOK, Fetching
             PROVE  TypeOK'
  OBVIOUS
<1> USE DEF TypeOK, Phases, fetch_vars, sync_vars, disk, lists, played
<1>1. CASE Start
  BY <1>1 DEF Start, Status, Absent
<1>2. CASE Sized
  BY <1>2, ContentUpdateAssumption DEF Sized, Fails
<1>3. CASE FetchRevision
  BY <1>3, ContentUpdateAssumption DEF FetchRevision, Fails, Status, Versions
<1>4. CASE StartContent
  <2>1. files' \subseteq Entries
    BY <1>4 DEF StartContent, OneOfEachName, Missing, CollectedAdverts,
                CollectedTracks, AdvertList, ChannelList, Adverts, Tracks
  <2>2. sync' \in [Entries -> File]
    BY <1>4, NoFileType DEF StartContent
  <2> QED
    BY <1>4, <2>1, <2>2 DEF StartContent
<1>5. CASE FetchContent
  <2> PICK e \in queue : \E r \in FetchResults(sync[e], FALSE, e \notin Unsized) :
          /\ queue' = queue \ {e}
          /\ IF r.trusted THEN UNCHANGED failures ELSE Fails
          /\ sync' = [sync EXCEPT ![e] = r.file]
          /\ trust' = IF r.trusted THEN trust \cup {e} ELSE trust
    BY <1>5 DEF FetchContent
  <2> PICK r \in FetchResults(sync[e], FALSE, e \notin Unsized) :
          /\ queue' = queue \ {e}
          /\ IF r.trusted THEN UNCHANGED failures ELSE Fails
          /\ sync' = [sync EXCEPT ![e] = r.file]
          /\ trust' = IF r.trusted THEN trust \cup {e} ELSE trust
    OBVIOUS
  <2>1. r.file \in File
    BY FetchResultsType
  <2> QED
    BY <1>5, <2>1, ContentUpdateAssumption DEF FetchContent, Fails
<1>6. CASE Finish
  <2>1. revLocal' \in 0 .. MaxVersion
    BY <1>6, ContentUpdateAssumption DEF Finish, RevServer, Versions, Absent, Torn, RevFiles
  <2>2. sync' \in [Entries -> File]
    BY <1>6, NoFileType DEF Finish
  <2>3. todo' \subseteq Entries
    BY <1>6 DEF Finish, Movable, Tracks
  <2> QED
    BY <1>6, <2>1, <2>2, <2>3 DEF Finish, MovePhases
<1> QED
  BY <1>1, <1>2, <1>3, <1>4, <1>5, <1>6 DEF Fetching

LEMMA TypeSync ==
    ASSUME TypeOK, Moving \/ Copying \/ Pruning
    PROVE  TypeOK'
<1> USE DEF TypeOK, fetch_vars, sync_vars, disk, lists, played
<1>1. CASE RemoveOld
  BY <1>1, NoFileType DEF RemoveOld
<1>2. CASE Rename
  BY <1>2, NoFileType DEF Rename
<1>3. CASE Forget
  BY <1>3 DEF Forget
<1>4. CASE KeepRevision
  BY <1>4 DEF KeepRevision
<1>5. CASE RemoveRevision
  BY <1>5 DEF RemoveRevision
<1>6. CASE CopyRevision
  <2>1. dest' \in [LocalRevFiles -> Versions \cup {Absent, Torn}]
    BY <1>6 DEF CopyRevision, RevFiles
  <2>2. failures' \in 0 .. MaxFailures
    BY <1>6, ContentUpdateAssumption DEF CopyRevision, Fails
  <2>3. moved' \in BOOLEAN /\ dirty' \in BOOLEAN
    BY <1>6 DEF CopyRevision
  <2> QED
    BY <1>6, <2>1, <2>2, <2>3 DEF CopyRevision
<1>7. CASE Delete
  BY <1>7, NoFileType DEF Delete
<1>8. CASE PruneRevision
  BY <1>8 DEF PruneRevision
<1> QED
  BY <1>1, <1>2, <1>3, <1>4, <1>5, <1>6, <1>7, <1>8 DEF Moving, Copying, Pruning

LEMMA TypeTurning == TypeOK /\ Turning => TypeOK'
<1> SUFFICES ASSUME TypeOK, Turning
             PROVE  TypeOK'
  OBVIOUS
<1> USE DEF TypeOK, fetch_vars, sync_vars, disk, lists, played, Phases,
            MovePhases, PrunePhases
<1>1. CASE BeginPruneMusic
  BY <1>1 DEF BeginPruneMusic, Turn, ExcessTracks, InMedia, Tracks
<1>2. CASE BeginMoveAdverts
  BY <1>2 DEF BeginMoveAdverts, Turn, Movable, Adverts
<1>3. CASE BeginPruneAdverts
  BY <1>3 DEF BeginPruneAdverts, Turn, ExcessAdverts, InMedia, Adverts
<1>4. CASE BeginCopyRevision
  BY <1>4 DEF BeginCopyRevision, RevFiles
<1>5. CASE BeginPruneRevision
  BY <1>5 DEF BeginPruneRevision, RevFiles
<1>6. CASE EndSync
  BY <1>6 DEF EndSync
<1> QED
  BY <1>1, <1>2, <1>3, <1>4, <1>5, <1>6 DEF Turning

LEMMA TypeEnvironment == TypeOK /\ Environment => TypeOK'
<1> SUFFICES ASSUME TypeOK, Environment
             PROVE  TypeOK'
  OBVIOUS
<1> USE DEF TypeOK, fetch_vars, sync_vars, disk, lists, played, Phases
<1>1. CASE Publish
  BY <1>1, ContentUpdateAssumption DEF Publish, Versions
<1>2. CASE PlayerRestarts
  BY <1>2 DEF PlayerRestarts
<1>3. CASE FtpFails
  BY <1>3, ContentUpdateAssumption DEF FtpFails, Fails
<1>4. CASE RenameFails
  BY <1>4, ContentUpdateAssumption DEF RenameFails, Fails
<1>5. CASE Crash
  <2>1. failures' \in 0 .. MaxFailures
    BY <1>5, ContentUpdateAssumption DEF Crash, Fails
  <2> QED
    BY <1>5, <2>1 DEF Crash
<1> QED
  BY <1>1, <1>2, <1>3, <1>4, <1>5 DEF Environment

LEMMA TypeStep == TypeOK /\ [Next]_vars => TypeOK'
<1> SUFFICES ASSUME TypeOK, [Next]_vars
             PROVE  TypeOK'
  OBVIOUS
<1>1. CASE UNCHANGED vars
  BY <1>1 DEF vars, TypeOK, fetch_vars, sync_vars, disk, lists, played
<1> QED
  BY <1>1, TypeFetching, TypeSync, TypeTurning, TypeEnvironment DEF Next, Session

\* Every variable keeps its type: in particular no operation on the disk, the
\* lists or the queues of a session leaves the values the code can hold.
THEOREM TypeCorrect == Spec => []TypeOK
  BY TypeInit, TypeStep, PTL DEF Spec

-----------------------------------------------------------------------------
(***************************************************************************)
(* Adverts are whole.                                                      *)
(*                                                                         *)
(* AdvertsIntact is not inductive: what a fetch appends to and what a move *)
(* puts into the media directory depend on where the session is.  An       *)
(* advert of the session that is still to be fetched has no file to append *)
(* to, and what is still to be moved is trusted.                           *)
(***************************************************************************)

Unfetched(S) == \A e \in S \cap Adverts : sync[e] = NoFile /\ e \notin trust

AdvertInv ==
    /\ AdvertsIntact
    /\ phase = "sizing" /\ ~mRevision => Unfetched(files)
    /\ phase = "fetching" /\ ~mRevision => Unfetched(queue)
    /\ phase \in MovePhases => todo \subseteq trust

LEMMA NoFileIsAbsent == ~Exists(NoFile)
  BY DEF NoFile, Exists

LEMMA AdvertInit == Init => AdvertInv
  BY NoFileIsAbsent DEF Init, AdvertInv, AdvertsIntact, Unfetched, Adverts, MovePhases

LEMMA AdvertFetching ==
    ASSUME TypeOK, AdvertInv, Fetching
    PROVE  AdvertInv'
<1> USE DEF AdvertInv, Unfetched, MovePhases
<1>1. CASE Start
  BY <1>1 DEF Start, AdvertsIntact, disk, TypeOK
<1>2. CASE Sized
  BY <1>2 DEF Sized, AdvertsIntact, disk
<1>3. CASE FetchRevision
  BY <1>3 DEF FetchRevision, AdvertsIntact, disk
<1>4. CASE StartContent
  <2>1. \A e \in Adverts : sync'[e] = IF e \in CollectedAdverts \ trust THEN NoFile ELSE sync[e]
    BY <1>4 DEF StartContent, Adverts
  <2>2. AdvertsIntact'
    BY <1>4, <2>1, NoFileIsAbsent DEF StartContent, AdvertsIntact
  <2>3. files' \subseteq Missing(CollectedAdverts \cup CollectedTracks)
    BY <1>4 DEF StartContent, OneOfEachName
  <2>4. CollectedTracks \cap Adverts = {}
    BY DEF CollectedTracks, ChannelList, Tracks
  <2>5. Unfetched(files)'
    BY <1>4, <2>1, <2>3, <2>4 DEF StartContent, Missing
  <2> QED
    BY <1>4, <2>2, <2>5 DEF StartContent
<1>5. CASE FetchContent
  <2> PICK e \in queue : \E r \in FetchResults(sync[e], FALSE, e \notin Unsized) :
          /\ queue' = queue \ {e}
          /\ sync' = [sync EXCEPT ![e] = r.file]
          /\ trust' = IF r.trusted THEN trust \cup {e} ELSE trust
    BY <1>5 DEF FetchContent
  <2> PICK r \in FetchResults(sync[e], FALSE, e \notin Unsized) :
          /\ queue' = queue \ {e}
          /\ sync' = [sync EXCEPT ![e] = r.file]
          /\ trust' = IF r.trusted THEN trust \cup {e} ELSE trust
    OBVIOUS
  <2>1. Unfetched(queue)
    BY <1>5 DEF FetchContent
  <2>2. e \in Adverts => sync[e] = NoFile /\ e \notin trust
    BY <2>1
  <2>3. e \in Adverts /\ r.trusted => Received(e, r.file)
    BY <2>2, FreshFetchReceived DEF Received
  <2>4. \A g \in Adverts : g # e => sync'[g] = sync[g] /\ (g \in trust' <=> g \in trust)
    BY DEF TypeOK, Adverts
  <2>5. e \in Adverts => sync'[e] = r.file /\ (e \in trust' => r.trusted)
    BY <2>2 DEF TypeOK, Adverts
  <2>6. AdvertsIntact'
    BY <1>5, <2>3, <2>4, <2>5 DEF FetchContent, AdvertsIntact
  <2>7. Unfetched(queue)'
    BY <2>1, <2>4
  <2> QED
    BY <1>5, <2>6, <2>7 DEF FetchContent
<1>6. CASE Finish
  <2>1. \A e \in Adverts : sync'[e] = sync[e] \/ sync'[e] = NoFile
    BY <1>6 DEF Finish, TypeOK, Adverts
  <2>2. AdvertsIntact'
    BY <1>6, <2>1, NoFileIsAbsent DEF Finish, AdvertsIntact
  <2>3. todo' \subseteq trust'
    BY <1>6 DEF Finish, Movable
  <2> QED
    BY <1>6, <2>2, <2>3 DEF Finish
<1> QED
  BY <1>1, <1>2, <1>3, <1>4, <1>5, <1>6 DEF Fetching

LEMMA AdvertMoving ==
    ASSUME TypeOK, AdvertInv, Moving
    PROVE  AdvertInv'
<1> USE DEF AdvertInv, MovePhases
<1>1. CASE RemoveOld
  <2>1. \A e \in Adverts : media'[e] = media[e] \/ media'[e] = NoFile
    BY <1>1 DEF RemoveOld, TypeOK, Adverts
  <2>2. AdvertsIntact'
    BY <1>1, <2>1, NoFileIsAbsent DEF RemoveOld, AdvertsIntact
  <2> QED
    BY <1>1, <2>2 DEF RemoveOld
<1>2. CASE Rename
  <2> PICK e \in todo : /\ media' = [media EXCEPT ![e] = sync[e]]
                        /\ sync' = [sync EXCEPT ![e] = NoFile]
    BY <1>2 DEF Rename
  <2>1. e \in trust
    BY <1>2 DEF Rename
  <2>2. \A g \in Adverts : g # e => media'[g] = media[g] /\ sync'[g] = sync[g]
    BY DEF TypeOK, Adverts
  <2>3. e \in Adverts => media'[e] = sync[e] /\ sync'[e] = NoFile
    BY DEF TypeOK, Adverts
  <2>4. AdvertsIntact'
    BY <1>2, <2>1, <2>2, <2>3, NoFileIsAbsent DEF Rename, AdvertsIntact
  <2> QED
    BY <1>2, <2>4 DEF Rename
<1>3. CASE Forget
  <2>1. AdvertsIntact'
    BY <1>3 DEF Forget, AdvertsIntact
  <2> QED
    BY <1>3, <2>1 DEF Forget
<1> QED
  BY <1>1, <1>2, <1>3 DEF Moving

LEMMA AdvertRest ==
    ASSUME TypeOK, AdvertInv, Copying \/ Pruning \/ Turning \/ Environment
    PROVE  AdvertInv'
<1> USE DEF AdvertInv, MovePhases
<1>1. CASE Delete
  <2>1. \A e \in Adverts : media'[e] = media[e] \/ media'[e] = NoFile
    BY <1>1 DEF Delete, TypeOK, Adverts
  <2>2. AdvertsIntact'
    BY <1>1, <2>1, NoFileIsAbsent DEF Delete, AdvertsIntact
  <2> QED
    BY <1>1, <2>2 DEF Delete, PrunePhases
<1>2. CASE Copying \/ PruneRevision
  BY <1>2 DEF Copying, KeepRevision, RemoveRevision, CopyRevision, PruneRevision,
              AdvertsIntact, disk
<1>3. CASE BeginMoveAdverts
  <2>1. todo' \subseteq trust'
    BY <1>3 DEF BeginMoveAdverts, Turn, Movable, disk
  <2> QED
    BY <1>3, <2>1 DEF BeginMoveAdverts, Turn, AdvertsIntact, disk
<1>4. CASE Turning /\ ~BeginMoveAdverts
  BY <1>4 DEF Turning, BeginPruneMusic, BeginPruneAdverts, Turn,
              BeginCopyRevision, BeginPruneRevision, EndSync, AdvertsIntact, disk
<1>5. CASE Publish \/ PlayerRestarts
  BY <1>5 DEF Publish, PlayerRestarts, AdvertsIntact, Unfetched, fetch_vars,
              sync_vars, disk
<1>6. CASE FtpFails \/ Crash
  BY <1>6 DEF FtpFails, Crash, AdvertsIntact, disk
<1>7. CASE RenameFails
  BY <1>7 DEF RenameFails, AdvertsIntact, disk
<1> QED
  BY <1>1, <1>2, <1>3, <1>4, <1>5, <1>6, <1>7 DEF Pruning, Environment

LEMMA AdvertStep == TypeOK /\ AdvertInv /\ [Next]_vars => AdvertInv'
<1> SUFFICES ASSUME TypeOK, AdvertInv, [Next]_vars
             PROVE  AdvertInv'
  OBVIOUS
<1>1. CASE UNCHANGED vars
  BY <1>1 DEF vars, AdvertInv, AdvertsIntact, Unfetched, fetch_vars, sync_vars, disk
<1> QED
  BY <1>1, AdvertFetching, AdvertMoving, AdvertRest DEF Next, Session

\* An advert that is trusted or played is the whole file of the server, if the
\* server tells its size, and what one transfer brought of it otherwise: a
\* download never appends to what an interrupted one left (checkFile() removes
\* it first), and only what is trusted is moved to the media directory.
THEOREM AdvertsAreIntact == Spec => []AdvertsIntact
<1>1. Spec => []AdvertInv
  BY TypeCorrect, AdvertInit, AdvertStep, PTL DEF Spec
<1>2. AdvertInv => AdvertsIntact
  BY DEF AdvertInv
<1> QED
  BY <1>1, <1>2, PTL

-----------------------------------------------------------------------------
(***************************************************************************)
(* The restart of the player.                                              *)
(***************************************************************************)

SyncPhases == MovePhases \cup PrunePhases \cup {"copyRevision", "pruneRevision"}

\* What was added and is not announced by the flag will be when the sync ends.
RestartInv == dirty => restart \/ (moved /\ phase \in SyncPhases)

LEMMA RestartStep ==
    ASSUME "crash" \notin Faults, RestartInv, [Next]_vars
    PROVE  RestartInv'
<1> USE DEF RestartInv, SyncPhases, MovePhases, PrunePhases
<1>1. CASE Fetching
  BY <1>1 DEF Fetching, Start, Sized, FetchRevision, StartContent, FetchContent,
              Finish, sync_vars, played
<1>2. CASE Moving
  BY <1>2 DEF Moving, RemoveOld, Rename, Forget, played
<1>3. CASE Copying
  BY <1>3 DEF Copying, KeepRevision, RemoveRevision, CopyRevision, sync_vars, played
<1>4. CASE Pruning
  BY <1>4 DEF Pruning, Delete, PruneRevision, sync_vars, played
<1>5. CASE Turning
  BY <1>5 DEF Turning, BeginPruneMusic, BeginMoveAdverts, BeginPruneAdverts, Turn,
              BeginCopyRevision, BeginPruneRevision, EndSync, sync_vars, played
<1>6. CASE Environment
  BY <1>6 DEF Environment, Publish, PlayerRestarts, FtpFails, RenameFails, Crash,
              sync_vars, played
<1>7. CASE UNCHANGED vars
  BY <1>7 DEF vars, sync_vars, played
<1> QED
  BY <1>1, <1>2, <1>3, <1>4, <1>5, <1>6, <1>7 DEF Next, Session

\* While the process does not die in a sync, no addition goes unannounced,
\* whenever the player clears the flag.
THEOREM RestartIsNotLost ==
    ASSUME "crash" \notin Faults
    PROVE  Spec => []RestartNotLost
<1>1. Init => RestartInv
  BY DEF Init, RestartInv
<1>2. RestartInv /\ [Next]_vars => RestartInv'
  BY RestartStep
<1>3. RestartInv => RestartNotLost
  BY DEF RestartInv, RestartNotLost, SyncPhases, MovePhases, PrunePhases
<1> QED
  BY <1>1, <1>2, <1>3, PTL DEF Spec

-----------------------------------------------------------------------------
(***************************************************************************)
(* The revision number.                                                    *)
(***************************************************************************)

\* What the lists name and is not there is a file of this session, unless its
\* name is that of another entry.
CollectedInv ==
    phase \in {"sizing", "fetching"} /\ ~mRevision =>
        \A e \in Collected :
            NameIsUnique(e, Collected) => e \in files \/ e \in trust \/ Exists(media[e])

\* The lists of a session name the same entries as long as they are not fetched
\* again.
LEMMA CollectedUnchanged ==
    ASSUME UNCHANGED lists
    PROVE  Collected' = Collected
  BY DEF lists, Collected, CollectedAdverts, CollectedTracks, Accepted, AdvertList,
         ChannelList, Lines

LEMMA UniqueUnchanged ==
    ASSUME UNCHANGED lists, NEW e
    PROVE  NameIsUnique(e, Collected)' <=> NameIsUnique(e, Collected)
  BY CollectedUnchanged DEF NameIsUnique

LEMMA CollectedStep ==
    ASSUME TypeOK, CollectedInv, [Next]_vars
    PROVE  CollectedInv'
<1> USE DEF CollectedInv
<1>1. CASE StartContent
  <2> DEFINE S == CollectedAdverts \cup CollectedTracks
  <2>1. S = Collected
    BY DEF Collected
  <2>2. UNCHANGED <<lists, trust, media>>
    BY <1>1 DEF StartContent
  <2>3. \A e \in Missing(S) : \E g \in files' : g[2] = e[2]
    BY <1>1 DEF StartContent, OneOfEachName
  <2>4. files' \subseteq S
    BY <1>1 DEF StartContent, OneOfEachName, Missing
  <2>5. \A e \in S : NameIsUnique(e, S) /\ e \in Missing(S) => e \in files'
    BY <2>3, <2>4 DEF NameIsUnique
  <2>6. \A e \in S : e \in Missing(S) \/ e \in trust \/ Exists(media[e])
    BY DEF Missing
  <2> QED
    BY <2>1, <2>2, <2>5, <2>6, CollectedUnchanged, UniqueUnchanged
<1>2. CASE FetchContent
  <2>1. trust \subseteq trust'
    BY <1>2 DEF FetchContent
  <2>2. UNCHANGED <<phase, mRevision, files, lists, media>>
    BY <1>2 DEF FetchContent
  <2> QED
    BY <2>1, <2>2, CollectedUnchanged, UniqueUnchanged
<1>3. CASE Start \/ FetchRevision
  BY <1>3 DEF Start, FetchRevision
<1>4. CASE Sized \/ Publish \/ PlayerRestarts \/ UNCHANGED vars
  <2>1. UNCHANGED <<mRevision, files, lists, trust, media>>
    BY <1>4 DEF Sized, Publish, PlayerRestarts, vars, fetch_vars, disk
  <2>2. phase' \in {"sizing", "fetching"} => phase \in {"sizing", "fetching"}
    BY <1>4 DEF Sized, Publish, PlayerRestarts, vars
  <2> QED
    BY <2>1, <2>2, CollectedUnchanged, UniqueUnchanged
<1>5. CASE Finish \/ Moving \/ Copying \/ Pruning \/ Turning \/ FtpFails
              \/ RenameFails \/ Crash
  BY <1>5 DEF Finish, Moving, RemoveOld, Rename, Forget, Copying, KeepRevision,
              RemoveRevision, CopyRevision, Pruning, Delete, PruneRevision, Turning,
              BeginPruneMusic, BeginMoveAdverts, BeginPruneAdverts, Turn,
              BeginCopyRevision, BeginPruneRevision, EndSync, FtpFails, RenameFails,
              Crash, MovePhases, PrunePhases
<1> QED
  BY <1>1, <1>2, <1>3, <1>4, <1>5 DEF Next, Session, Fetching, Environment

\* Only Finish touches revLocal, and only when every file of the session is
\* trusted.
LEMMA RevisionStep ==
    ASSUME TypeOK, CollectedInv, [Next]_vars, revLocal' # revLocal
    PROVE  \A e \in Collected :
              NameIsUnique(e, Collected) => e \in trust \/ Exists(media[e])
<1>1. CASE Finish
  <2>1. files \ trust = {}
    BY <1>1 DEF Finish
  <2> QED
    BY <1>1, <2>1 DEF Finish, CollectedInv
<1>2. CASE Next /\ ~Finish
  <2>1. UNCHANGED revLocal
    BY <1>2 DEF Next, Session, Fetching, Start, Sized, FetchRevision, StartContent,
                FetchContent, Moving, RemoveOld, Rename, Forget, Copying,
                KeepRevision, RemoveRevision, CopyRevision, Pruning, Delete,
                PruneRevision, Turning, BeginPruneMusic, BeginMoveAdverts,
                BeginPruneAdverts, Turn, BeginCopyRevision, BeginPruneRevision,
                EndSync, Environment, Publish, PlayerRestarts, FtpFails,
                RenameFails, Crash, played
  <2> QED
    BY <2>1
<1>3. CASE UNCHANGED vars
  BY <1>3 DEF vars, played
<1> QED
  BY <1>1, <1>2, <1>3

\* The revision number moves on only when all that the session's lists name,
\* but for entries that share a name, has been downloaded.
THEOREM RevisionIsSound == Spec => RevisionSound
<1>1. Init => CollectedInv
  BY DEF Init, CollectedInv
<1>2. Spec => []CollectedInv
  BY <1>1, TypeCorrect, CollectedStep, PTL DEF Spec
<1>3. TypeOK /\ CollectedInv /\ [Next]_vars =>
          [ revLocal' # revLocal =>
                \A e \in Collected :
                    NameIsUnique(e, Collected) => e \in trust \/ Exists(media[e]) ]_vars
  BY RevisionStep
<1> QED
  BY <1>2, <1>3, TypeCorrect, PTL DEF Spec, RevisionSound

-----------------------------------------------------------------------------
(***************************************************************************)
(* The timetables in use.                                                  *)
(***************************************************************************)

\* A move or a copy is under way only in its phase, with a file to work on.
StepInv ==
    step # "remove" => \/ phase \in MovePhases /\ todo # {}
                       \/ phase = "copyRevision" /\ revQueue # {} /\ step = "rename"

LEMMA StepStep ==
    ASSUME TypeOK, StepInv, [Next]_vars
    PROVE  StepInv'
<1> USE DEF StepInv, MovePhases, PrunePhases
<1>1. CASE Fetching
  BY <1>1 DEF Fetching, Start, Sized, FetchRevision, StartContent, FetchContent,
              Finish, sync_vars
<1>2. CASE Moving
  BY <1>2 DEF Moving, RemoveOld, Rename, Forget, fetch_vars
<1>3. CASE Copying
  BY <1>3 DEF Copying, KeepRevision, RemoveRevision, CopyRevision, fetch_vars,
              sync_vars
<1>4. CASE Pruning
  BY <1>4 DEF Pruning, Delete, PruneRevision, fetch_vars, sync_vars
<1>5. CASE Turning
  BY <1>5 DEF Turning, BeginPruneMusic, BeginMoveAdverts, BeginPruneAdverts, Turn,
              BeginCopyRevision, BeginPruneRevision, EndSync, fetch_vars, sync_vars
<1>6. CASE Environment
  BY <1>6 DEF Environment, Publish, PlayerRestarts, FtpFails, RenameFails, Crash,
              fetch_vars, sync_vars
<1>7. CASE UNCHANGED vars
  BY <1>7 DEF vars, fetch_vars, sync_vars
<1> QED
  BY <1>1, <1>2, <1>3, <1>4, <1>5, <1>6, <1>7 DEF Next, Session

\* The order of the revision files is total: only one is first.
LEMMA FirstRevUnique ==
    ASSUME NEW S \in SUBSET RevFiles, NEW f, NEW g, FirstRev(f, S), FirstRev(g, S)
    PROVE  f = g
  BY ContentUpdateAssumption DEF FirstRev, RevRank, RevFiles, LocalRevFiles

\* An accepted revision file is one the server sent in full.
AcceptedInv ==
    /\ TimetablesWhole
    /\ \A f \in RevFiles : revFlag[f] = "DOWNLOAD_OK" => revFile[f] \in Versions
    /\ phase = "copyRevision" /\ step = "rename" =>
           \A f \in revQueue : FirstRev(f, revQueue) => Accepted(f)

LEMMA AcceptedStep ==
    ASSUME TypeOK, StepInv, AcceptedInv, [Next]_vars
    PROVE  AcceptedInv'
<1> USE DEF AcceptedInv
<1>1. CASE Start
  BY <1>1 DEF Start, TimetablesWhole, played
<1>2. CASE FetchRevision
  <2>1. \A f \in RevFiles : revFlag'[f] = "DOWNLOAD_OK" => revFile'[f] \in Versions
    BY <1>2 DEF FetchRevision, TypeOK
  <2> QED
    BY <1>2, <2>1 DEF FetchRevision, TimetablesWhole, played
<1>3. CASE Sized \/ StartContent \/ FetchContent \/ Finish \/ FtpFails \/ Crash
  BY <1>3 DEF Sized, StartContent, FetchContent, Finish, FtpFails, Crash,
              TimetablesWhole, lists, played
<1>4. CASE Moving \/ RenameFails \/ Delete
  BY <1>4 DEF Moving, RemoveOld, Rename, Forget, RenameFails, Delete, MovePhases,
              PrunePhases, TimetablesWhole, lists, played
<1>5. CASE KeepRevision
  BY <1>5 DEF KeepRevision, TimetablesWhole, lists, played, sync_vars
<1>6. CASE RemoveRevision
  <2> PICK f \in revQueue : /\ FirstRev(f, revQueue)
                            /\ ToCopy(f)
                            /\ dest' = [dest EXCEPT ![f] = Absent]
    BY <1>6 DEF RemoveRevision
  <2>1. UNCHANGED <<lists, revQueue, phase>>
    BY <1>6 DEF RemoveRevision, fetch_vars
  <2>2. TimetablesWhole'
    BY DEF TimetablesWhole, TypeOK, Absent, Torn
  <2>3. \A g \in revQueue : FirstRev(g, revQueue) => Accepted(g)
    BY FirstRevUnique DEF TypeOK, ToCopy
  <2> QED
    BY <2>1, <2>2, <2>3 DEF lists, Accepted
<1>7. CASE CopyRevision
  <2> PICK f \in revQueue : /\ FirstRev(f, revQueue)
                            /\ \/ dest' = [dest EXCEPT ![f] = revFile[f]]
                               \/ UNCHANGED dest
    BY <1>7 DEF CopyRevision
  <2>1. revFile[f] \in Versions
    BY <1>7 DEF CopyRevision, Accepted, TypeOK
  <2>2. TimetablesWhole'
    BY <2>1 DEF TimetablesWhole, TypeOK, Versions, Torn
  <2> QED
    BY <1>7, <2>2 DEF CopyRevision, lists
<1>8. CASE PruneRevision
  <2>1. \A f \in LocalRevFiles : dest'[f] = dest[f] \/ dest'[f] = Absent
    BY <1>8 DEF PruneRevision, TypeOK
  <2>2. TimetablesWhole'
    BY <2>1 DEF TimetablesWhole, Absent, Torn
  <2> QED
    BY <1>8, <2>2 DEF PruneRevision, lists
<1>9. CASE Turning
  BY <1>9 DEF Turning, BeginPruneMusic, BeginMoveAdverts, BeginPruneAdverts, Turn,
              BeginCopyRevision, BeginPruneRevision, EndSync, TimetablesWhole,
              StepInv, MovePhases, lists, played, sync_vars
<1>10. CASE Publish \/ PlayerRestarts \/ UNCHANGED vars
  BY <1>10 DEF Publish, PlayerRestarts, vars, TimetablesWhole, Accepted, lists,
               played, fetch_vars, sync_vars
<1> QED
  BY <1>1, <1>2, <1>3, <1>4, <1>5, <1>6, <1>7, <1>8, <1>9, <1>10
     DEF Next, Session, Fetching, Copying, Pruning, Environment

LEMMA AcceptedAlways == Spec => [](StepInv /\ AcceptedInv)
<1>1. Init => StepInv /\ AcceptedInv
  BY DEF Init, StepInv, AcceptedInv, TimetablesWhole, Absent, Torn
<1>2. TypeOK /\ StepInv /\ AcceptedInv /\ [Next]_vars => (StepInv /\ AcceptedInv)'
  BY StepStep, AcceptedStep
<1> QED
  BY <1>1, <1>2, TypeCorrect, PTL DEF Spec

\* No partial download ever becomes the advert table or a timetable in use.
THEOREM TimetablesAreWhole == Spec => []TimetablesWhole
<1>1. AcceptedInv => TimetablesWhole
  BY DEF AcceptedInv
<1> QED
  BY <1>1, AcceptedAlways, PTL

-----------------------------------------------------------------------------
(***************************************************************************)
(* Trusted files.                                                          *)
(***************************************************************************)

\* The order of paths is total: only one file is the next to move.
LEMMA FirstPathUnique ==
    ASSUME NEW S \in SUBSET Entries, NEW e, NEW g, FirstPath(e, S), FirstPath(g, S)
    PROVE  e = g
<1>1. e \in Entries /\ g \in Entries
  BY DEF FirstPath
<1>2. \A x \in Entries : \E d \in Nat, n \in Nat : x = <<d, n>>
  <2>1. Channels \cup {0} \subseteq Nat /\ Names \subseteq Nat
    BY ContentUpdateAssumption, SMT
  <2>2. \A x \in (Channels \cup {0}) \X Names :
            \E d \in Channels \cup {0}, n \in Names : x = <<d, n>>
    BY SMT
  <2> QED
    BY <2>1, <2>2 DEF Entries, AdvertDir
<1>3. PICK d \in Nat, n \in Nat : e = <<d, n>>
  BY <1>1, <1>2
<1>4. PICK c \in Nat, m \in Nat : g = <<c, m>>
  BY <1>1, <1>2
<1>5. d = c /\ n = m
  BY <1>3, <1>4 DEF FirstPath
<1> QED
  BY <1>3, <1>4, <1>5

\* A transfer does not remove the file it appends to.
LEMMA GrownExists ==
    ASSUME NEW f \in File, Exists(f), NEW g \in Grown(f, FALSE)
    PROVE  Exists(g)
  BY LocalFileAssumption DEF Grown, Appended, Capped, OnDisk, Exists, File

TrustInv ==
    /\ TrustedHasFile
    /\ StepInv

LEMMA TrustStep ==
    ASSUME "crash" \notin Faults, TypeOK, TrustInv, [Next]_vars
    PROVE  TrustedHasFile'
<1> USE DEF TrustInv, TrustedHasFile
<1>1. CASE StartContent
  <2>1. \A e \in trust : sync'[e] = sync[e]
    BY <1>1 DEF StartContent, TypeOK
  <2> QED
    BY <1>1, <2>1 DEF StartContent, sync_vars
<1>2. CASE FetchContent
  <2> PICK e \in queue : \E r \in FetchResults(sync[e], FALSE, e \notin Unsized) :
          /\ sync' = [sync EXCEPT ![e] = r.file]
          /\ trust' = IF r.trusted THEN trust \cup {e} ELSE trust
    BY <1>2 DEF FetchContent
  <2> PICK r \in FetchResults(sync[e], FALSE, e \notin Unsized) :
          /\ sync' = [sync EXCEPT ![e] = r.file]
          /\ trust' = IF r.trusted THEN trust \cup {e} ELSE trust
    OBVIOUS
  <2>1. step = "remove"
    BY <1>2 DEF FetchContent, StepInv, MovePhases
  <2>2. r.trusted => Exists(r.file)
    BY DEF FetchResults
  <2>3. Exists(sync[e]) => Exists(r.file)
    BY GrownExists DEF FetchResults, TypeOK
  <2>4. e \in trust' => Exists(sync'[e])
    BY <2>1, <2>2, <2>3 DEF TypeOK
  <2>5. \A g \in trust' : g # e => Exists(sync'[g])
    BY <2>1 DEF TypeOK
  <2> QED
    BY <2>4, <2>5
<1>3. CASE Finish
  <2>1. \A e \in trust : sync'[e] = sync[e]
    BY <1>3 DEF Finish, TypeOK
  <2>2. step = "remove"
    BY <1>3 DEF Finish, StepInv, MovePhases
  <2> QED
    BY <1>3, <2>1, <2>2 DEF Finish
<1>4. CASE RemoveOld
  BY <1>4 DEF RemoveOld
<1>5. CASE Rename
  <2> PICK e \in todo : FirstPath(e, todo) /\ sync' = [sync EXCEPT ![e] = NoFile]
    BY <1>5 DEF Rename
  <2>1. \A g \in trust : g # e => sync'[g] = sync[g]
    BY DEF TypeOK
  <2>2. FirstPath(e, todo)' /\ step' = "forget" /\ UNCHANGED trust
    BY <1>5 DEF Rename, FirstPath
  <2>3. \A g \in trust : Exists(sync[g])
    BY <1>5 DEF Rename
  <2> QED
    BY <2>1, <2>2, <2>3
<1>6. CASE Forget
  <2> PICK e \in todo : /\ FirstPath(e, todo)
                        /\ trust' = trust \ {e}
    BY <1>6 DEF Forget
  <2>1. \A g \in trust' : ~FirstPath(g, todo)
    BY FirstPathUnique DEF TypeOK
  <2> QED
    BY <1>6, <2>1 DEF Forget
<1>7. CASE \/ Start \/ Sized \/ FetchRevision \/ FtpFails \/ Publish \/ PlayerRestarts
           \/ Copying \/ PruneRevision \/ BeginCopyRevision \/ BeginPruneRevision
           \/ EndSync \/ UNCHANGED vars
  <2>1. UNCHANGED <<sync, trust>>
    BY <1>7 DEF Start, Sized, FetchRevision, FtpFails, Publish, PlayerRestarts,
                Copying, KeepRevision, RemoveRevision, CopyRevision, PruneRevision,
                BeginCopyRevision, BeginPruneRevision, EndSync, vars, disk
  <2>2. UNCHANGED todo /\ (step = "forget" => step' = "forget")
    BY <1>7 DEF Start, Sized, FetchRevision, FtpFails, Publish, PlayerRestarts,
                Copying, KeepRevision, RemoveRevision, CopyRevision, PruneRevision,
                BeginCopyRevision, BeginPruneRevision, EndSync, vars, sync_vars
  <2> QED
    BY <2>1, <2>2 DEF FirstPath
<1>8. CASE RenameFails \/ Delete \/ BeginPruneMusic \/ BeginMoveAdverts
           \/ BeginPruneAdverts
  <2>1. step # "forget"
    BY <1>8 DEF RenameFails, Delete, BeginPruneMusic, BeginMoveAdverts,
                BeginPruneAdverts, Turn, StepInv, MovePhases, PrunePhases
  <2>2. UNCHANGED <<sync, trust>>
    BY <1>8 DEF RenameFails, Delete, BeginPruneMusic, BeginMoveAdverts,
                BeginPruneAdverts, Turn, disk
  <2> QED
    BY <2>1, <2>2
<1>9. CASE Crash
  BY <1>9 DEF Crash
<1> QED
  BY <1>1, <1>2, <1>3, <1>4, <1>5, <1>6, <1>7, <1>8, <1>9
     DEF Next, Session, Fetching, Moving, Pruning, Turning, Environment

\* While the process does not die, the mark of a trusted file and the file come
\* and go together, but for the instant between rename and check.remove().
THEOREM TrustedFilesExist ==
    ASSUME "crash" \notin Faults
    PROVE  Spec => []TrustedHasFile
<1>1. Init => TrustInv
  BY DEF Init, TrustInv, TrustedHasFile, StepInv
<1>2. TypeOK /\ TrustInv /\ [Next]_vars => TrustInv'
  BY TrustStep, StepStep DEF TrustInv
<1>3. TrustInv => TrustedHasFile
  BY DEF TrustInv
<1> QED
  BY <1>1, <1>2, <1>3, TypeCorrect, PTL DEF Spec

-----------------------------------------------------------------------------
(***************************************************************************)
(* Adverts that stay.                                                      *)
(***************************************************************************)

NotInMedia(S) == \A e \in S \cap Adverts : ~Exists(media[e])

\* An advert is in .sync and trusted only while it is not in the media
\* directory, so that a move never removes an old file; and what is about to
\* be deleted is no track of ours, or an advert some version does not list.
PermanentInv ==
    /\ \A e \in Adverts : e \in trust /\ Exists(sync[e]) => ~Exists(media[e])
    /\ phase = "sizing" /\ ~mRevision => NotInMedia(files)
    /\ phase = "fetching" /\ ~mRevision => NotInMedia(queue)
    /\ phase \in MovePhases =>
           \A e \in todo \cap Adverts :
               /\ e \in trust
               /\ Exists(sync[e]) \/ (step = "forget" /\ FirstPath(e, todo))
    /\ phase \in PrunePhases => todo \cap Adverts \cap Permanent = {}

LEMMA PermanentFetching ==
    ASSUME TypeOK, PermanentInv, StepInv, Fetching
    PROVE  PermanentInv'
<1> USE DEF PermanentInv, NotInMedia, MovePhases, PrunePhases
<1>1. CASE Start
  BY <1>1 DEF Start, disk
<1>2. CASE Sized
  BY <1>2 DEF Sized, disk
<1>3. CASE FetchRevision
  BY <1>3 DEF FetchRevision, disk
<1>4. CASE StartContent
  <2>1. \A e \in Adverts : sync'[e] = sync[e] \/ sync'[e] = NoFile
    BY <1>4 DEF StartContent, Adverts
  <2>2. NotInMedia(files)'
    BY <1>4 DEF StartContent, OneOfEachName, Missing
  <2> QED
    BY <1>4, <2>1, <2>2, NoFileIsAbsent DEF StartContent
<1>5. CASE FetchContent
  <2>1. PICK e \in queue : /\ \A g \in Adverts : g # e => sync'[g] = sync[g]
                           /\ trust' \subseteq trust \cup {e}
                           /\ queue' \subseteq queue
    BY <1>5 DEF FetchContent, TypeOK, Adverts
  <2>2. UNCHANGED <<media, phase, mRevision>>
    BY <1>5 DEF FetchContent
  <2>3. e \in Adverts => ~Exists(media[e])
    BY <1>5 DEF FetchContent
  <2> QED
    BY <1>5, <2>1, <2>2, <2>3 DEF FetchContent
<1>6. CASE Finish
  <2>1. \A e \in Adverts : sync'[e] = sync[e] \/ sync'[e] = NoFile
    BY <1>6 DEF Finish, TypeOK, Adverts
  <2>2. todo' \cap Adverts = {}
    BY <1>6 DEF Finish, Movable, Tracks
  <2> QED
    BY <1>6, <2>1, <2>2, NoFileIsAbsent DEF Finish
<1> QED
  BY <1>1, <1>2, <1>3, <1>4, <1>5, <1>6 DEF Fetching

LEMMA PermanentMoving ==
    ASSUME TypeOK, PermanentInv, Moving \/ RenameFails
    PROVE  PermanentInv'
<1> USE DEF PermanentInv, MovePhases, PrunePhases
<1>1. CASE RemoveOld
  <2>1. \A e \in Adverts : media'[e] = media[e] \/ media'[e] = NoFile
    BY <1>1 DEF RemoveOld, TypeOK, Adverts
  <2> QED
    BY <1>1, <2>1, NoFileIsAbsent DEF RemoveOld
<1>2. CASE Rename
  <2> PICK e \in todo : /\ FirstPath(e, todo)
                        /\ media' = [media EXCEPT ![e] = sync[e]]
                        /\ sync' = [sync EXCEPT ![e] = NoFile]
    BY <1>2 DEF Rename
  <2>1. \A g \in Adverts : g # e => media'[g] = media[g] /\ sync'[g] = sync[g]
    BY DEF TypeOK, Adverts
  <2>2. e \in Adverts => sync'[e] = NoFile
    BY DEF TypeOK, Adverts
  <2>3. FirstPath(e, todo)'
    BY <1>2 DEF Rename, FirstPath
  <2> QED
    BY <1>2, <2>1, <2>2, <2>3, NoFileIsAbsent DEF Rename
<1>3. CASE Forget
  <2> PICK e \in todo : /\ FirstPath(e, todo)
                        /\ trust' = trust \ {e}
                        /\ todo' = todo \ {e}
    BY <1>3 DEF Forget
  <2>1. \A g \in todo' : ~FirstPath(g, todo)
    BY FirstPathUnique DEF TypeOK
  <2> QED
    BY <1>3, <2>1 DEF Forget
<1>4. CASE RenameFails
  <2>1. \A g \in todo \cap Adverts : Exists(sync[g])
    BY <1>4 DEF RenameFails
  <2> QED
    BY <1>4, <2>1 DEF RenameFails, disk
<1> QED
  BY <1>1, <1>2, <1>3, <1>4 DEF Moving

\* The list of adverts an accepted file carries names every permanent advert.
LEMMA PermanentListed ==
    ASSUME AcceptedInv, Accepted("adverttable")
    PROVE  Permanent \cap Adverts \subseteq AdvertList
  BY DEF AcceptedInv, Accepted, Permanent, AdvertList, Lines, RevFiles, LocalRevFiles

LEMMA PermanentRest ==
    ASSUME TypeOK, PermanentInv, AcceptedInv, StepInv,
           Copying \/ Pruning \/ Turning \/ Publish \/ PlayerRestarts \/ FtpFails
               \/ Crash \/ UNCHANGED vars
    PROVE  PermanentInv'
<1> USE DEF PermanentInv, NotInMedia, MovePhases, PrunePhases
<1>1. CASE Delete
  <2>1. \A e \in Adverts : media'[e] = media[e] \/ media'[e] = NoFile
    BY <1>1 DEF Delete, TypeOK, Adverts
  <2> QED
    BY <1>1, <2>1, NoFileIsAbsent DEF Delete
<1>2. CASE Copying \/ PruneRevision
  BY <1>2 DEF Copying, KeepRevision, RemoveRevision, CopyRevision, PruneRevision, disk
<1>3. CASE BeginPruneMusic
  <2>1. todo' \cap Adverts = {}
    BY <1>3 DEF BeginPruneMusic, Turn, ExcessTracks, InMedia, Tracks
  <2> QED
    BY <1>3, <2>1 DEF BeginPruneMusic, Turn, disk
<1>4. CASE BeginMoveAdverts
  <2>1. \A e \in todo' : e \in trust /\ Exists(sync[e])
    BY <1>4 DEF BeginMoveAdverts, Turn, Movable
  <2> QED
    BY <1>4, <2>1 DEF BeginMoveAdverts, Turn, disk
<1>5. CASE BeginPruneAdverts
  <2>1. todo' \cap Adverts \cap Permanent = {}
    BY <1>5, PermanentListed DEF BeginPruneAdverts, Turn, MayPrune, ExcessAdverts
  <2> QED
    BY <1>5, <2>1 DEF BeginPruneAdverts, Turn, disk
<1>6. CASE BeginCopyRevision \/ BeginPruneRevision \/ EndSync \/ FtpFails \/ Crash
  BY <1>6 DEF BeginCopyRevision, BeginPruneRevision, EndSync, FtpFails, Crash, disk
<1>7. CASE Publish \/ PlayerRestarts \/ UNCHANGED vars
  BY <1>7 DEF Publish, PlayerRestarts, vars, fetch_vars, sync_vars, disk, FirstPath
<1> QED
  BY <1>1, <1>2, <1>3, <1>4, <1>5, <1>6, <1>7 DEF Pruning, Turning

LEMMA PermanentKept ==
    ASSUME TypeOK, PermanentInv, [Next]_vars,
           NEW e \in Permanent \cap Adverts, Exists(media[e])
    PROVE  Exists(media'[e])
<1>1. CASE RemoveOld
  <2> PICK g \in todo : /\ FirstPath(g, todo)
                        /\ media' = [media EXCEPT ![g] = NoFile]
    BY <1>1 DEF RemoveOld
  <2>1. g # e
    BY <1>1 DEF RemoveOld, PermanentInv
  <2> QED
    BY <2>1 DEF TypeOK, Adverts
<1>2. CASE Rename
  <2> PICK g \in todo : /\ FirstPath(g, todo)
                        /\ media' = [media EXCEPT ![g] = sync[g]]
    BY <1>2 DEF Rename
  <2>1. g # e
    BY <1>2 DEF Rename, PermanentInv
  <2> QED
    BY <2>1 DEF TypeOK, Adverts
<1>3. CASE Delete
  <2> PICK g \in todo : media' = [media EXCEPT ![g] = NoFile]
    BY <1>3 DEF Delete
  <2>1. g # e
    BY <1>3 DEF Delete, PermanentInv
  <2> QED
    BY <2>1 DEF TypeOK, Adverts
<1>4. CASE UNCHANGED media
  BY <1>4
<1>5. Next => RemoveOld \/ Rename \/ Delete \/ UNCHANGED media
  BY DEF Next, Session, Fetching, Start, Sized, FetchRevision, StartContent,
         FetchContent, Finish, Moving, Forget, Copying, KeepRevision,
         RemoveRevision, CopyRevision, Pruning, PruneRevision, Turning,
         BeginPruneMusic, BeginMoveAdverts, BeginPruneAdverts, Turn,
         BeginCopyRevision, BeginPruneRevision, EndSync, Environment, Publish,
         PlayerRestarts, FtpFails, RenameFails, Crash, disk
<1> QED
  BY <1>1, <1>2, <1>3, <1>4, <1>5 DEF vars, disk

\* No torn or refused list, no failed or interrupted move deletes an advert that
\* every version lists.
THEOREM PermanentAdvertsStay == Spec => PermanentAdvertStays
<1>1. Init => PermanentInv
  BY NoFileIsAbsent DEF Init, PermanentInv, NotInMedia, MovePhases, PrunePhases
<1>2. TypeOK /\ StepInv /\ AcceptedInv /\ PermanentInv /\ [Next]_vars => PermanentInv'
  BY PermanentFetching, PermanentMoving, PermanentRest DEF Next, Session, Environment
<1>3. Spec => []PermanentInv
  BY <1>1, <1>2, TypeCorrect, AcceptedAlways, PTL DEF Spec
<1>4. TypeOK /\ PermanentInv /\ [Next]_vars =>
          [ \A e \in Permanent \cap Adverts : Exists(media[e]) => Exists(media'[e]) ]_vars
  BY PermanentKept
<1> QED
  BY <1>3, <1>4, TypeCorrect, PTL DEF Spec, PermanentAdvertStays

-----------------------------------------------------------------------------
(***************************************************************************)
(* The loop of rounds.                                                     *)
(***************************************************************************)

\* Nothing is moved in the first round.
RoundInv == phase \in SyncPhases => ~mRevision

LEMMA RoundStep == RoundInv /\ [Next]_vars => RoundInv'
<1> SUFFICES ASSUME RoundInv, [Next]_vars PROVE RoundInv'  OBVIOUS
<1> USE DEF RoundInv, SyncPhases, MovePhases, PrunePhases
<1>1. CASE UNCHANGED vars
  BY <1>1 DEF vars, fetch_vars
<1>2. CASE Fetching
  BY <1>2 DEF Fetching, Start, Sized, FetchRevision, StartContent, FetchContent, Finish
<1>3. CASE Moving \/ Copying \/ Pruning
  BY <1>3 DEF Moving, RemoveOld, Rename, Forget, Copying, KeepRevision, RemoveRevision, CopyRevision,
              Pruning, Delete, PruneRevision, fetch_vars
<1>4. CASE Turning
  BY <1>4 DEF Turning, Turn, BeginPruneMusic, BeginMoveAdverts, BeginPruneAdverts,
              BeginCopyRevision, BeginPruneRevision, EndSync, fetch_vars
<1>5. CASE Environment
  BY <1>5 DEF Environment, Publish, PlayerRestarts, FtpFails, RenameFails, Crash, fetch_vars
<1>6. QED  BY <1>1, <1>2, <1>3, <1>4, <1>5 DEF Next, Session

\* Before the files are moved, each step but FtpFails is the step of the same name.
LEMMA LoopFetching ==
    ASSUME TypeOK, Fetching \/ FtpFails
    PROVE  [Loop!Next]_(Loop!vars)
<1> USE DEF TypeOK, Loop!Next, Loop!Progress, Loop!vars, Loop!FilesOf
<1>1. CASE Start
  BY <1>1 DEF Start, Loop!Start
<1>2. CASE Sized
  BY <1>2 DEF Sized, Loop!Sized
<1>3. CASE FtpFails
  BY <1>3 DEF FtpFails, Loop!GiveUp
<1>4. CASE FetchRevision
  BY <1>4 DEF FetchRevision, Loop!Fetch
<1>5. CASE StartContent
  BY <1>5 DEF StartContent, Loop!NextRound
<1>6. CASE FetchContent
  BY <1>6 DEF FetchContent, Loop!Fetch
<1>7. CASE Finish
  BY <1>7 DEF Finish
<1>8. QED  BY <1>1, <1>2, <1>3, <1>4, <1>5, <1>6, <1>7 DEF Fetching

\* What follows is the end of the round, up to the last step of syncContent().
LEMMA LoopSyncing ==
    ASSUME RoundInv, Moving \/ Copying \/ Pruning \/ Turning
    PROVE  [Loop!Next]_(Loop!vars)
<1> USE DEF Loop!vars, MovePhases, PrunePhases
<1>1. CASE Moving
  BY <1>1 DEF Moving, RemoveOld, Rename, Forget, fetch_vars
<1>2. CASE Copying
  BY <1>2 DEF Copying, KeepRevision, RemoveRevision, CopyRevision, fetch_vars
<1>3. CASE Pruning
  BY <1>3 DEF Pruning, Delete, PruneRevision, fetch_vars
<1>4. CASE EndSync
  BY <1>4 DEF EndSync, RoundInv, SyncPhases, fetch_vars, Loop!Next, Loop!Progress, Loop!Finish
<1>5. CASE BeginPruneMusic \/ BeginMoveAdverts \/ BeginPruneAdverts
  BY <1>5 DEF BeginPruneMusic, BeginMoveAdverts, BeginPruneAdverts, Turn, fetch_vars
<1>6. CASE BeginCopyRevision \/ BeginPruneRevision
  BY <1>6 DEF BeginCopyRevision, BeginPruneRevision
<1>7. QED  BY <1>1, <1>2, <1>3, <1>4, <1>5, <1>6 DEF Turning

\* While the process does not die, every session takes the steps of UpdateLoop
\* and no others, as the chains of slots in DownloadSession do.  (That a session
\* ends is checked by TLC.)
THEOREM SessionsAreLoops ==
    ASSUME "crash" \notin Faults
    PROVE  Spec => Loop!Init /\ [][Loop!Next]_(Loop!vars)
<1>1. Init => RoundInv
  BY DEF Init, RoundInv
<1>2. Init => Loop!Init
  BY DEF Init, Loop!Init
<1>3. TypeOK /\ RoundInv /\ [Next]_vars => [Loop!Next]_(Loop!vars)
  <2> SUFFICES ASSUME TypeOK, RoundInv, [Next]_vars PROVE [Loop!Next]_(Loop!vars)  OBVIOUS
  <2>1. CASE Publish \/ PlayerRestarts \/ RenameFails \/ UNCHANGED vars
    BY <2>1 DEF Publish, PlayerRestarts, RenameFails, vars, fetch_vars, MovePhases, Loop!vars
  <2>2. ~Crash
    BY DEF Crash
  <2>3. QED  BY <2>1, <2>2, LoopFetching, LoopSyncing DEF Next, Session, Environment
<1>4. QED  BY <1>1, <1>2, <1>3, RoundStep, TypeCorrect, PTL DEF Spec

=============================================================================
