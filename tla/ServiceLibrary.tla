--------------------------- MODULE ServiceLibrary ---------------------------
(***************************************************************************)
(* The service, built for one of two platforms.  The same interface,       *)
(* QtServiceBase and QtServiceController, has two implementations that     *)
(* share no code below it: UnixService has no lock and a protocol of its   *)
(* own, WinService has the service manager and three threads.              *)
(***************************************************************************)
EXTENDS UnixService

CONSTANTS MaxPolls, WinFlags

ASSUME PollsAssumption == MaxPolls \in Nat

VARIABLES
    platform,
    shutdown, registered, scm, status, main, thread, startSemaphore, startSemaphore2, events,
    quitting, updater, caller

Win == INSTANCE WinService WITH Controllers <- Clients

winVars == <<shutdown, registered, scm, status, main, thread, startSemaphore,
             startSemaphore2, events, quitting, updater, caller>>

libraryVars == <<platform, vars, winVars>>

LibraryInit == platform \in {"unix", "windows"} /\ Init /\ Win!Init

LibraryNext ==
    /\ UNCHANGED platform
    /\ \/ platform = "unix"    /\ Next     /\ UNCHANGED winVars
       \/ platform = "windows" /\ Win!Next /\ UNCHANGED vars

LibrarySpec ==
    LibraryInit /\ [][LibraryNext]_libraryVars /\ Fairness /\ Win!Fairness

-----------------------------------------------------------------------------

\* The types of both.
Types == TypeOK /\ Win!TypeOK

\* sysCleanup() on Windows never finds a thread that waits in handler().
NobodyIsLeftWaiting == Win!NobodyIsLeftWaiting

\* On Windows, a service that the manager calls stopped updates nothing.
StoppedMeansNoUpdate == Win!StoppedMeansNoUpdate

Pending(c) == client[c].pc = "waiting" \/ scm = "STOP_PENDING"

\* Nothing that was asked stays pending: on Unix sendCmd() has no timeout, and
\* relies on a daemon that answers or takes the connection with it when it ends;
\* on Windows a stop that was accepted goes through three threads to its end.
RequestsEnd == \A c \in Clients : Pending(c) ~> ~Pending(c)

=============================================================================
