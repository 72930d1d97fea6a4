----------------------------- MODULE UnixService -----------------------------
(***************************************************************************)
(* The service on Unix: the processes of the command line, which find a    *)
(* running daemon through a socket file with a fixed name, and the daemons *)
(* that own that file (QtServiceBase::exec, QtServiceController and        *)
(* QtServiceSysPrivate, with LmMediaUpdaterService).                       *)
(*                                                                         *)
(* Nothing locks the name.  A daemon takes it by unlink, bind and listen,  *)
(* and gives it up by an unlink when it ends; the command line asks who    *)
(* answers there and then starts a daemon, or does not.  Every system call *)
(* is a step of its own.                                                   *)
(***************************************************************************)
EXTENDS Naturals, FiniteSets

CONSTANTS
    Daemons,    \* process identifiers of daemons; a dead one may be used again
    Clients,    \* processes of the command line that may run at once
    None,       \* no process
    Offered,    \* what the command line asks of a daemon
    Flags       \* QtServiceBase::ServiceFlags; LmMediaUpdaterService sets none

Operations == {"start", "controllerStart", "terminate", "pause", "resume",
               "command", "version"}

ASSUME UnixServiceAssumption ==
    /\ None \notin Daemons
    /\ Offered \subseteq Operations
    /\ Flags \subseteq {"CannotBeStopped", "CanBeSuspended"}

VARIABLES
    path,       \* the daemon whose bind made the socket file; it may be dead
    installed,  \* the service is in the settings of the system
    daemon,     \* the daemons
    client,     \* the processes of the command line
    overlapped  \* history: daemons that were not alone all their life

vars == <<path, installed, daemon, client, overlapped>>

\* "init": from main() to unlink(); "ready": before start(); "quitting": quit()
\* was called; "closing": in sysCleanup().
DaemonStates == {"dead", "init", "unlinked", "bound", "ready", "running",
                 "quitting", "closing"}

Daemon == [state : DaemonStates,
           listening : BOOLEAN,     \* the server socket accepts
           path_ : BOOLEAN,         \* QtUnixServerSocket::path_ is set
           updater : BOOLEAN]       \* mUpdateController

Dead == [state |-> "dead", listening |-> FALSE, path_ |-> FALSE, updater |-> FALSE]

Client == [op : Operations,
           pc : {"idle", "connect", "waiting", "answered", "spawn"},
           conn : Daemons \cup {None},  \* the peer of its socket
           answer : BOOLEAN,            \* reply == "true"
           before : SUBSET Daemons]     \* history: who was up when it began

Idle == [op |-> "version", pc |-> "idle", conn |-> None, answer |-> FALSE, before |-> {}]

TypeOK ==
    /\ path \in Daemons \cup {None}
    /\ installed \in BOOLEAN
    /\ daemon \in [Daemons -> Daemon]
    /\ client \in [Clients -> Client]
    /\ overlapped \subseteq Daemons

Init ==
    /\ path = None
    /\ installed = FALSE
    /\ daemon = [d \in Daemons |-> Dead]
    /\ client = [c \in Clients |-> Idle]
    /\ overlapped = {}

Live(d) == daemon[d].state # "dead"

Reachable(d) == path = d /\ daemon[d].listening

\* connect(2) would succeed.
Accepting == \E d \in Daemons : Reachable(d)

\* Started, not told to stop, and found under the name.
Up(d) == daemon[d].state = "running" /\ Reachable(d)

-----------------------------------------------------------------------------
(***************************************************************************)
(* The command line (QtServiceBase::exec).                                 *)
(***************************************************************************)

\* The operations that ask the daemon, by a socket of their own.
Invoke(c) ==
    /\ client[c].pc = "idle"
    /\ \E op \in Offered :
          /\ op = "controllerStart" => installed
          /\ client' = [client EXCEPT ![c] =
                [Idle EXCEPT !.op = op, !.pc = "connect",
                             !.before = {d \in Daemons : Up(d)}]]
    /\ UNCHANGED <<path, installed, daemon, overlapped>>

\* install() and uninstall() only write the settings.
Install ==
    /\ ~installed
    /\ installed' = TRUE
    /\ UNCHANGED <<path, daemon, client, overlapped>>

Uninstall ==
    /\ installed
    /\ installed' = FALSE
    /\ UNCHANGED <<path, daemon, client, overlapped>>

\* connect(2) fails without a file, and when nobody listens on it.  isRunning()
\* wants no more; sendCmd() writes its command and waits.
Connected(c) ==
    /\ client[c].pc = "connect"
    /\ Accepting
    /\ client' = [client EXCEPT ![c] =
          IF @.op \in {"version", "controllerStart"} THEN Idle
          ELSE [@ EXCEPT !.conn = path, !.pc = "waiting"]]
    /\ UNCHANGED <<path, installed, daemon, overlapped>>

\* Not running: QtServiceController::start() runs the program, which asks again.
NotConnected(c) ==
    /\ client[c].pc = "connect"
    /\ ~Accepting
    /\ client' = [client EXCEPT ![c] =
          CASE @.op = "start"           -> [@ EXCEPT !.pc = "spawn"]
            [] @.op = "controllerStart" -> [@ EXCEPT !.op = "start"]
            [] OTHER                    -> Idle]
    /\ UNCHANGED <<path, installed, daemon, overlapped>>

\* waitForReadyRead(-1) also returns when the daemon has gone.
HangUp(c) ==
    /\ client[c].pc = "waiting"
    /\ ~Live(client[c].conn)
    /\ client' = [client EXCEPT ![c].pc = "answered"]
    /\ UNCHANGED <<path, installed, daemon, overlapped>>

\* Mutant of Conclude: start() does not mind the answer.
ConcludeAnyway(c) ==
    /\ client[c].pc = "answered"
    /\ client' = [client EXCEPT ![c] =
          IF @.op = "start" THEN [@ EXCEPT !.pc = "spawn"] ELSE Idle]
    /\ UNCHANGED <<path, installed, daemon, overlapped>>

\* QtServiceBasePrivate::start(): a daemon that answers "alive" is enough.
Conclude(c) ==
    /\ client[c].pc = "answered"
    /\ client' = [client EXCEPT ![c] =
          IF @.op = "start" /\ ~@.answer THEN [@ EXCEPT !.pc = "spawn"] ELSE Idle]
    /\ UNCHANGED <<path, installed, daemon, overlapped>>

\* startDetached() with QTSERVICE_RUN.  An identifier is used again when
\* nothing is left of the process that had it.
Unused(d) ==
    /\ ~Live(d)
    /\ path # d
    /\ \A c \in Clients : client[c].conn # d /\ d \notin client[c].before

Others(d) == {e \in Daemons \ {d} : Live(e)}

Spawn(c) ==
    /\ client[c].pc = "spawn"
    /\ \E d \in Daemons :
          /\ Unused(d)
          /\ daemon' = [daemon EXCEPT ![d] = [Dead EXCEPT !.state = "init"]]
          /\ overlapped' = IF Others(d) = {} THEN overlapped \ {d}
                           ELSE overlapped \cup {d} \cup Others(d)
    /\ client' = [client EXCEPT ![c] = Idle]
    /\ UNCHANGED <<path, installed>>

-----------------------------------------------------------------------------
(***************************************************************************)
(* A daemon (QtServiceBasePrivate::run, QtUnixServerSocket).               *)
(***************************************************************************)

Moves(d, from, to) ==
    /\ daemon[d].state = from
    /\ daemon' = [daemon EXCEPT ![d].state = to]

\* Mutant of UnlinkPath: the file is left alone.
KeepPath(d) ==
    /\ Moves(d, "init", "unlinked")
    /\ UNCHANGED <<path, installed, client, overlapped>>

\* setPath() first removes the name, whoever has bound it.
UnlinkPath(d) ==
    /\ Moves(d, "init", "unlinked")
    /\ path' = None
    /\ UNCHANGED <<installed, client, overlapped>>

\* Mutant of Bind: a state of its own for the failure, which nothing leaves.
BindOrFail(d) ==
    /\ IF path = None
       THEN Moves(d, "unlinked", "bound") /\ path' = d
       ELSE Moves(d, "unlinked", "failed") /\ UNCHANGED path
    /\ UNCHANGED <<installed, client, overlapped>>

\* bind(2) fails when the name exists; the daemon goes on without a socket.
Bind(d) ==
    /\ IF path = None
       THEN Moves(d, "unlinked", "bound") /\ path' = d
       ELSE Moves(d, "unlinked", "ready") /\ UNCHANGED path
    /\ UNCHANGED <<installed, client, overlapped>>

Listen(d) ==
    /\ daemon[d].state = "bound"
    /\ daemon' = [daemon EXCEPT ![d].state = "ready", ![d].listening = TRUE,
                                ![d].path_ = TRUE]
    /\ UNCHANGED <<path, installed, client, overlapped>>

\* The event loop runs; slotStart() was posted first.
SlotStart(d) ==
    /\ daemon[d].state = "ready"
    /\ daemon' = [daemon EXCEPT ![d].state = "running", ![d].updater = TRUE]
    /\ UNCHANGED <<path, installed, client, overlapped>>

Accepted(op) ==
    CASE op = "terminate"            -> "CannotBeStopped" \notin Flags
      [] op \in {"pause", "resume"}  -> "CanBeSuspended" \in Flags
      [] OTHER                       -> TRUE

\* Mutant of SlotReady: quit() alone, not LmMediaUpdaterService::stop().
QuitOnly(c) ==
    LET d == client[c].conn
    IN  /\ client[c].pc = "waiting"
        /\ daemon[d].state \in {"running", "quitting"}
        /\ client' = [client EXCEPT ![c].answer = Accepted(client[c].op), ![c].pc = "answered"]
        /\ daemon' = IF client[c].op = "terminate" /\ Accepted("terminate")
                     THEN [daemon EXCEPT ![d].state = "quitting"]
                     ELSE daemon
        /\ UNCHANGED <<path, installed, overlapped>>

\* slotReady().  After quit() the sockets that became ready in the same pass of
\* the event loop are still served.
SlotReady(c) ==
    LET d == client[c].conn
    IN  /\ client[c].pc = "waiting"
        /\ daemon[d].state \in {"running", "quitting"}
        /\ client' = [client EXCEPT ![c].answer = Accepted(client[c].op),
                                    ![c].pc = "answered"]
        /\ daemon' = IF client[c].op = "terminate" /\ Accepted("terminate")
                     THEN [daemon EXCEPT ![d].state = "quitting", ![d].updater = FALSE]
                     ELSE daemon
        /\ UNCHANGED <<path, installed, overlapped>>

\* sysCleanup(): the server socket is closed, ...
CloseServer(d) ==
    /\ daemon[d].state = "quitting"
    /\ daemon' = [daemon EXCEPT ![d].state = "closing", ![d].listening = FALSE]
    /\ UNCHANGED <<path, installed, client, overlapped>>

\* Mutant of UnlinkAndExit: the process stays, with its clients.
UnlinkOnly(d) ==
    /\ daemon[d].state = "closing"
    /\ path' = IF daemon[d].path_ THEN None ELSE path
    /\ daemon' = [daemon EXCEPT ![d].path_ = FALSE]
    /\ UNCHANGED <<installed, client, overlapped>>

\* ... the name is removed, whoever has bound it by now, and the process ends.
UnlinkAndExit(d) ==
    /\ daemon[d].state = "closing"
    /\ path' = IF daemon[d].path_ THEN None ELSE path
    /\ daemon' = [daemon EXCEPT ![d] = Dead]
    /\ UNCHANGED <<installed, client, overlapped>>

\* A signal: the handlers of main() exit at once, the socket file stays.
Crash(d) ==
    /\ Live(d)
    /\ daemon' = [daemon EXCEPT ![d] = Dead]
    /\ UNCHANGED <<path, installed, client, overlapped>>

ClientStep(c) ==
    \/ Connected(c) \/ NotConnected(c) \/ HangUp(c) \/ Conclude(c) \/ Spawn(c)

DaemonStep(d) ==
    \/ UnlinkPath(d) \/ Bind(d) \/ Listen(d) \/ SlotStart(d)
    \/ CloseServer(d) \/ UnlinkAndExit(d)

Next ==
    \/ Install \/ Uninstall
    \/ \E c \in Clients : Invoke(c) \/ ClientStep(c) \/ SlotReady(c)
    \/ \E d \in Daemons : DaemonStep(d) \/ Crash(d)

\* Processes run; a daemon serves every client in the end.
Fairness ==
    /\ \A c \in Clients : WF_vars(ClientStep(c)) /\ WF_vars(SlotReady(c))
    /\ \A d \in Daemons : WF_vars(DaemonStep(d))

Spec == Init /\ [][Next]_vars /\ Fairness

-----------------------------------------------------------------------------
(***************************************************************************)
(* Properties.                                                             *)
(***************************************************************************)

\* A daemon that has shared no moment of its life with another is found under
\* the name as long as it runs, also after a crash that left the file behind.
\* (Two that overlap may unlink each other's socket file: setPath(), close().)
RunningIsReachable ==
    \A d \in Daemons : daemon[d].state = "running" /\ d \notin overlapped => Reachable(d)

\* A start does not put a second daemon beside one that was up when the start
\* began and still is: the answer to "alive" is waited for, not assumed.
StartSeesDaemon ==
    \A c \in Clients : client[c].pc = "spawn" =>
        \A d \in client[c].before \ overlapped : ~Up(d)

\* When stop() returns true the controller of the updates is gone (its timers
\* and downloads with it), whatever other clients the daemon serves meanwhile.
TrueMeansStopped ==
    \A c \in Clients :
        client[c].pc = "answered" /\ client[c].op = "terminate" /\ client[c].answer
            => ~daemon[client[c].conn].updater

=============================================================================
