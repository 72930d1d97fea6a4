------------------------ MODULE ServiceLibraryProofs ------------------------
(***************************************************************************)
(* The safety properties of ServiceLibrary: those of UnixService, for any  *)
(* number of daemons and clients, and with those of WinServiceProofs the   *)
(* properties of the library as a whole, where on either platform the      *)
(* variables of the other stay as they began.                              *)
(***************************************************************************)
EXTENDS ServiceLibrary, TLAPS

\* A daemon that was never beside another has no other beside it now.
Alone ==
    \A d, e \in Daemons :
        Live(d) /\ Live(e) /\ d # e => d \in overlapped /\ e \in overlapped

\* What an undisturbed daemon has made of the name so far.
Holds ==
    \A d \in Daemons \ overlapped :
        /\ daemon[d].state = "unlinked" => path = None
        /\ daemon[d].state = "bound" => path = d
        /\ daemon[d].state \in {"ready", "running"} => path = d /\ daemon[d].listening

UpdaterRuns == \A d \in Daemons :
    /\ daemon[d].updater => daemon[d].state = "running"
    /\ daemon[d].listening => daemon[d].state \in {"ready", "running", "quitting"}

Peer == \A c \in Clients :
    client[c].pc \in {"waiting", "answered"} => client[c].conn \in Daemons

\* An identifier a client remembers is not used again meanwhile.
Remembered == \A c \in Clients : \A d \in client[c].before :
    daemon[d].state \in {"running", "quitting", "closing", "dead"}

Stopped == \A c \in Clients :
    client[c].pc = "answered" /\ client[c].op = "terminate" /\ client[c].answer
        => daemon[client[c].conn].state \in {"quitting", "closing", "dead"}

\* Of the daemons that were up, the only one that may still run is the peer;
\* once a start has decided, none.
Asks == \A c \in Clients : \A d \in client[c].before \ overlapped :
    /\ client[c].pc \in {"waiting", "answered"} /\ daemon[d].state = "running"
          => client[c].conn = d
    /\ client[c].pc = "answered" /\ client[c].op = "start" /\ ~client[c].answer
          => daemon[d].state # "running"
    /\ client[c].pc = "spawn" => daemon[d].state # "running"

IInv == TypeOK /\ Alone /\ Holds /\ UpdaterRuns /\ Peer /\ Remembered /\ Stopped /\ Asks

-----------------------------------------------------------------------------
\* A command begins.
LEMMA InvokeKeeps == ASSUME NEW c \in Clients, IInv, Invoke(c) PROVE IInv'
<1>1. TypeOK'
  <2>1. PICK op \in Offered : client' = [client EXCEPT ![c] =
              [Idle EXCEPT !.op = op, !.pc = "connect",
                           !.before = {d \in Daemons : Up(d)}]]
    BY DEF Invoke
  <2>2. [Idle EXCEPT !.op = op, !.pc = "connect",
                     !.before = {d \in Daemons : Up(d)}] \in Client
    BY UnixServiceAssumption DEF Idle, Client
  <2>3. QED  BY <2>1, <2>2 DEF IInv, TypeOK, Invoke
<1>2. Alone'
  BY DEF IInv, Alone, Live, Invoke
<1>3. Holds'
  BY DEF IInv, Holds, Invoke
<1>4. UpdaterRuns'
  BY DEF IInv, UpdaterRuns, Invoke
<1>5. Peer'
  BY DEF IInv, TypeOK, Daemon, Client, Peer, Invoke, Idle
<1>6. Remembered'
  BY DEF IInv, TypeOK, Daemon, Client, Remembered, Up, Invoke, Idle
<1>7. Stopped'
  BY DEF IInv, TypeOK, Daemon, Client, Stopped, Peer, Invoke, Idle
<1>8. Asks'
  BY DEF IInv, TypeOK, Daemon, Client, Asks, Invoke, Idle
<1>9. QED  BY <1>1, <1>2, <1>3, <1>4, <1>5, <1>6, <1>7, <1>8 DEF IInv

\* It finds a daemon.
LEMMA ConnectedKeeps == ASSUME NEW c \in Clients, IInv, Connected(c) PROVE IInv'
<1>1. TypeOK'
  <2>1. path \in Daemons
    BY DEF Connected, Accepting, Reachable
  <2>2. Idle \in Client /\ [client[c] EXCEPT !.conn = path, !.pc = "waiting"] \in Client
    BY <2>1 DEF IInv, TypeOK, Client, Idle, Operations
  <2>3. QED  BY <2>2 DEF IInv, TypeOK, Connected
<1>2. Alone'
  BY DEF IInv, Alone, Live, Connected
<1>3. Holds'
  BY DEF IInv, Holds, Connected
<1>4. UpdaterRuns'
  BY DEF IInv, UpdaterRuns, Connected
<1>5. Peer'
  BY DEF IInv, TypeOK, Daemon, Client, Peer, Connected, Accepting,
         Reachable, Idle
<1>6. Remembered'
  BY DEF IInv, TypeOK, Daemon, Client, Remembered, Connected, Accepting,
         Reachable, Idle
<1>7. Stopped'
  BY DEF IInv, TypeOK, Daemon, Client, Stopped, Peer, Connected,
         Accepting, Reachable, Idle
<1>8. Asks'
  BY DEF IInv, TypeOK, Daemon, Client, Asks, Alone, UpdaterRuns, Live, Up,
         Connected, Accepting, Reachable, Idle
<1>9. QED  BY <1>1, <1>2, <1>3, <1>4, <1>5, <1>6, <1>7, <1>8 DEF IInv

\* It finds none.
LEMMA NotConnectedKeeps == ASSUME NEW c \in Clients, IInv, NotConnected(c) PROVE IInv'
<1>1. TypeOK'
  <2>1. /\ Idle \in Client
        /\ [client[c] EXCEPT !.pc = "spawn"] \in Client
        /\ [client[c] EXCEPT !.op = "start"] \in Client
    BY DEF IInv, TypeOK, Client, Idle, Operations
  <2>2. QED  BY <2>1 DEF IInv, TypeOK, NotConnected
<1>2. Alone'
  BY DEF IInv, Alone, Live, NotConnected
<1>3. Holds'
  BY DEF IInv, Holds, NotConnected
<1>4. UpdaterRuns'
  BY DEF IInv, UpdaterRuns, NotConnected
<1>5. Peer'
  BY DEF IInv, TypeOK, Daemon, Client, Peer, NotConnected, Accepting,
         Reachable, Idle
<1>6. Remembered'
  BY DEF IInv, TypeOK, Daemon, Client, Remembered, NotConnected,
         Accepting, Reachable, Idle
<1>7. Stopped'
  BY DEF IInv, TypeOK, Daemon, Client, Stopped, Peer, NotConnected,
         Accepting, Reachable, Idle
<1>8. Asks'
  BY DEF IInv, TypeOK, Daemon, Client, Asks, Alone, Holds, Live, Up,
         NotConnected, Accepting, Reachable, Idle
<1>9. QED  BY <1>1, <1>2, <1>3, <1>4, <1>5, <1>6, <1>7, <1>8 DEF IInv

\* Its daemon has gone.
LEMMA HangUpKeeps == ASSUME NEW c \in Clients, IInv, HangUp(c) PROVE IInv'
<1>1. TypeOK'
  BY DEF IInv, TypeOK, Daemon, Client, DaemonStates, HangUp, Live
<1>2. Alone'
  BY DEF IInv, Alone, Live, HangUp
<1>3. Holds'
  BY DEF IInv, Holds, HangUp
<1>4. UpdaterRuns'
  BY DEF IInv, UpdaterRuns, HangUp
<1>5. Peer'
  BY DEF IInv, TypeOK, Daemon, Client, Peer, HangUp, Live
<1>6. Remembered'
  BY DEF IInv, TypeOK, Daemon, Client, Remembered, HangUp, Live
<1>7. Stopped'
  BY DEF IInv, TypeOK, Daemon, Client, Stopped, Peer, HangUp, Live
<1>8. Asks'
  BY DEF IInv, TypeOK, Daemon, Client, Asks, Peer, HangUp, Live
<1>9. QED  BY <1>1, <1>2, <1>3, <1>4, <1>5, <1>6, <1>7, <1>8 DEF IInv

\* The answer is judged.
LEMMA ConcludeKeeps == ASSUME NEW c \in Clients, IInv, Conclude(c) PROVE IInv'
<1>1. TypeOK'
  <2>1. Idle \in Client /\ [client[c] EXCEPT !.pc = "spawn"] \in Client
    BY DEF IInv, TypeOK, Client, Idle, Operations
  <2>2. QED  BY <2>1 DEF IInv, TypeOK, Conclude
<1>2. Alone'
  BY DEF IInv, Alone, Live, Conclude
<1>3. Holds'
  BY DEF IInv, Holds, Conclude
<1>4. UpdaterRuns'
  BY DEF IInv, UpdaterRuns, Conclude
<1>5. Peer'
  BY DEF IInv, TypeOK, Daemon, Client, Peer, Conclude, Idle
<1>6. Remembered'
  BY DEF IInv, TypeOK, Daemon, Client, Remembered, Conclude, Idle
<1>7. Stopped'
  BY DEF IInv, TypeOK, Daemon, Client, Stopped, Peer, Conclude, Idle
<1>8. Asks'
  BY DEF IInv, TypeOK, Daemon, Client, Asks, Conclude, Idle
<1>9. QED  BY <1>1, <1>2, <1>3, <1>4, <1>5, <1>6, <1>7, <1>8 DEF IInv

\* A new daemon: whoever is alive with it is no longer alone.
LEMMA SpawnKeeps == ASSUME NEW c \in Clients, IInv, Spawn(c) PROVE IInv'
<1>1. TypeOK'
  <2>1. Idle \in Client /\ [Dead EXCEPT !.state = "init"] \in Daemon
    BY DEF Client, Idle, Operations, Dead, Daemon, DaemonStates
  <2>2. QED  BY <2>1 DEF IInv, TypeOK, Spawn, Others
<1>2. Alone'
  BY DEF IInv, TypeOK, Daemon, Client, Alone, Live, Spawn, Idle, Unused,
         Others, Dead
<1>3. Holds'
  BY DEF IInv, TypeOK, Daemon, Client, Alone, Holds, Live, Spawn, Idle,
         Unused, Others, Dead
<1>4. UpdaterRuns'
  BY DEF IInv, TypeOK, Daemon, Client, DaemonStates, UpdaterRuns, Spawn,
         Idle, Unused, Others, Dead, Live
<1>5. Peer'
  BY DEF IInv, TypeOK, Daemon, Client, Peer, Spawn, Idle, Unused, Others,
         Dead, Live
<1>6. Remembered'
  BY DEF IInv, TypeOK, Daemon, Client, Remembered, Spawn, Idle, Unused,
         Others, Dead, Live
<1>7. Stopped'
  BY DEF IInv, TypeOK, Daemon, Client, Stopped, Peer, Spawn, Idle, Unused,
         Others, Dead, Live
<1>8. Asks'
  BY DEF IInv, TypeOK, Daemon, Client, Asks, Remembered, Spawn, Idle,
         Unused, Others, Dead, Live
<1>9. QED  BY <1>1, <1>2, <1>3, <1>4, <1>5, <1>6, <1>7, <1>8 DEF IInv

\* A command is served.
LEMMA SlotReadyKeeps == ASSUME NEW c \in Clients, IInv, SlotReady(c) PROVE IInv'
<1>1. TypeOK'
  BY DEF IInv, TypeOK, Daemon, Client, DaemonStates, SlotReady, Accepted
<1>2. Alone'
  BY DEF IInv, TypeOK, Daemon, Client, Alone, Live, SlotReady, Accepted
<1>3. Holds'
  BY DEF IInv, TypeOK, Daemon, Client, Alone, Holds, Live, SlotReady,
         Accepted
<1>4. UpdaterRuns'
  BY DEF IInv, TypeOK, Daemon, Client, DaemonStates, UpdaterRuns,
         SlotReady, Accepted
<1>5. Peer'
  BY DEF IInv, TypeOK, Daemon, Client, Peer, SlotReady, Accepted
<1>6. Remembered'
  BY DEF IInv, TypeOK, Daemon, Client, Remembered, SlotReady, Accepted
<1>7. Stopped'
  BY DEF IInv, TypeOK, Daemon, Client, Stopped, Peer, SlotReady, Accepted
<1>8. Asks'
  BY DEF IInv, TypeOK, Daemon, Client, Asks, SlotReady, Accepted
<1>9. QED  BY <1>1, <1>2, <1>3, <1>4, <1>5, <1>6, <1>7, <1>8 DEF IInv

\* The name is removed.
LEMMA UnlinkPathKeeps == ASSUME NEW d \in Daemons, IInv, UnlinkPath(d) PROVE IInv'
<1>1. TypeOK'
  BY DEF IInv, TypeOK, Daemon, Client, DaemonStates, UnlinkPath, Moves
<1>2. Alone'
  BY DEF IInv, TypeOK, Daemon, Client, Alone, Live, UnlinkPath, Moves
<1>3. Holds'
  BY DEF IInv, TypeOK, Daemon, Client, Alone, Holds, Live, UnlinkPath,
         Moves
<1>4. UpdaterRuns'
  BY DEF IInv, TypeOK, Daemon, Client, DaemonStates, UpdaterRuns,
         UnlinkPath, Moves
<1>5. Peer'
  BY DEF IInv, TypeOK, Daemon, Client, Peer, UnlinkPath, Moves
<1>6. Remembered'
  BY DEF IInv, TypeOK, Daemon, Client, Remembered, UnlinkPath, Moves
<1>7. Stopped'
  BY DEF IInv, TypeOK, Daemon, Client, Stopped, Peer, UnlinkPath, Moves
<1>8. Asks'
  BY DEF IInv, TypeOK, Daemon, Client, Asks, UnlinkPath, Moves
<1>9. QED  BY <1>1, <1>2, <1>3, <1>4, <1>5, <1>6, <1>7, <1>8 DEF IInv

\* The name is bound, or not.
LEMMA BindKeeps == ASSUME NEW d \in Daemons, IInv, Bind(d) PROVE IInv'
<1>1. TypeOK'
  BY DEF IInv, TypeOK, Daemon, Client, DaemonStates, Bind, Moves
<1>2. Alone'
  BY DEF IInv, TypeOK, Daemon, Client, Alone, Live, Bind, Moves
<1>3. Holds'
  BY DEF IInv, TypeOK, Daemon, Client, Alone, Holds, Live, Bind, Moves
<1>4. UpdaterRuns'
  <2>1. ~daemon[d].listening /\ ~daemon[d].updater
    BY DEF IInv, UpdaterRuns, Bind, Moves
  <2>2. PICK s \in {"bound", "ready"} : daemon' = [daemon EXCEPT ![d].state = s]
    BY DEF Bind, Moves
  <2>3. QED  BY <2>1, <2>2 DEF IInv, TypeOK, Daemon, UpdaterRuns
<1>5. Peer'
  BY DEF IInv, TypeOK, Daemon, Client, Peer, Bind, Moves
<1>6. Remembered'
  BY DEF IInv, TypeOK, Daemon, Client, Remembered, Bind, Moves
<1>7. Stopped'
  BY DEF IInv, TypeOK, Daemon, Client, Stopped, Peer, Bind, Moves
<1>8. Asks'
  BY DEF IInv, TypeOK, Daemon, Client, Asks, Bind, Moves
<1>9. QED  BY <1>1, <1>2, <1>3, <1>4, <1>5, <1>6, <1>7, <1>8 DEF IInv

\* The socket accepts.
LEMMA ListenKeeps == ASSUME NEW d \in Daemons, IInv, Listen(d) PROVE IInv'
<1>1. TypeOK'
  <2>1. [daemon[d] EXCEPT !.state = "ready", !.listening = TRUE, !.path_ = TRUE] \in Daemon
    BY DEF IInv, TypeOK, Daemon, DaemonStates
  <2>2. daemon' = [daemon EXCEPT ![d] = [daemon[d] EXCEPT !.state = "ready", !.listening = TRUE, !.path_ = TRUE]]
    BY DEF IInv, TypeOK, Listen
  <2>3. QED  BY <2>1, <2>2 DEF IInv, TypeOK, Listen
<1>2. Alone'
  BY DEF IInv, TypeOK, Daemon, Client, Alone, Live, Listen
<1>3. Holds'
  BY DEF IInv, TypeOK, Daemon, Client, Alone, Holds, Live, Listen
<1>4. UpdaterRuns'
  BY DEF IInv, TypeOK, Daemon, Client, DaemonStates, UpdaterRuns, Listen
<1>5. Peer'
  BY DEF IInv, TypeOK, Daemon, Client, Peer, Listen
<1>6. Remembered'
  BY DEF IInv, TypeOK, Daemon, Client, Remembered, Listen
<1>7. Stopped'
  BY DEF IInv, TypeOK, Daemon, Client, Stopped, Peer, Listen
<1>8. Asks'
  BY DEF IInv, TypeOK, Daemon, Client, Asks, Listen
<1>9. QED  BY <1>1, <1>2, <1>3, <1>4, <1>5, <1>6, <1>7, <1>8 DEF IInv

\* The service is started.
LEMMA SlotStartKeeps == ASSUME NEW d \in Daemons, IInv, SlotStart(d) PROVE IInv'
<1>1. TypeOK'
  <2>1. [daemon[d] EXCEPT !.state = "running", !.updater = TRUE] \in Daemon
    BY DEF IInv, TypeOK, Daemon, DaemonStates
  <2>2. daemon' = [daemon EXCEPT ![d] = [daemon[d] EXCEPT !.state = "running", !.updater = TRUE]]
    BY DEF IInv, TypeOK, SlotStart
  <2>3. QED  BY <2>1, <2>2 DEF IInv, TypeOK, SlotStart
<1>2. Alone'
  BY DEF IInv, TypeOK, Daemon, Client, Alone, Live, SlotStart
<1>3. Holds'
  BY DEF IInv, TypeOK, Daemon, Client, Alone, Holds, Live, SlotStart
<1>4. UpdaterRuns'
  BY DEF IInv, TypeOK, Daemon, Client, DaemonStates, UpdaterRuns,
         SlotStart
<1>5. Peer'
  BY DEF IInv, TypeOK, Daemon, Client, Peer, SlotStart
<1>6. Remembered'
  BY DEF IInv, TypeOK, Daemon, Client, Remembered, SlotStart
<1>7. Stopped'
  BY DEF IInv, TypeOK, Daemon, Client, Stopped, Peer, SlotStart
<1>8. Asks'
  BY DEF IInv, TypeOK, Daemon, Client, Asks, Remembered, SlotStart
<1>9. QED  BY <1>1, <1>2, <1>3, <1>4, <1>5, <1>6, <1>7, <1>8 DEF IInv

\* The socket no longer accepts.
LEMMA CloseServerKeeps == ASSUME NEW d \in Daemons, IInv, CloseServer(d) PROVE IInv'
<1>1. TypeOK'
  <2>1. [daemon[d] EXCEPT !.state = "closing", !.listening = FALSE] \in Daemon
    BY DEF IInv, TypeOK, Daemon, DaemonStates
  <2>2. daemon' = [daemon EXCEPT ![d] = [daemon[d] EXCEPT !.state = "closing", !.listening = FALSE]]
    BY DEF IInv, TypeOK, CloseServer
  <2>3. QED  BY <2>1, <2>2 DEF IInv, TypeOK, CloseServer
<1>2. Alone'
  BY DEF IInv, TypeOK, Daemon, Client, Alone, Live, CloseServer
<1>3. Holds'
  BY DEF IInv, TypeOK, Daemon, Client, Alone, Holds, Live, CloseServer
<1>4. UpdaterRuns'
  BY DEF IInv, TypeOK, Daemon, Client, DaemonStates, UpdaterRuns,
         CloseServer
<1>5. Peer'
  BY DEF IInv, TypeOK, Daemon, Client, Peer, CloseServer
<1>6. Remembered'
  BY DEF IInv, TypeOK, Daemon, Client, Remembered, CloseServer
<1>7. Stopped'
  BY DEF IInv, TypeOK, Daemon, Client, Stopped, Peer, CloseServer
<1>8. Asks'
  BY DEF IInv, TypeOK, Daemon, Client, Asks, CloseServer
<1>9. QED  BY <1>1, <1>2, <1>3, <1>4, <1>5, <1>6, <1>7, <1>8 DEF IInv

\* The name is removed, and the process ends.
LEMMA UnlinkAndExitKeeps == ASSUME NEW d \in Daemons, IInv, UnlinkAndExit(d) PROVE IInv'
<1>1. TypeOK'
  BY DEF IInv, TypeOK, Daemon, Client, DaemonStates, UnlinkAndExit, Dead
<1>2. Alone'
  BY DEF IInv, TypeOK, Daemon, Client, Alone, Live, UnlinkAndExit, Dead
<1>3. Holds'
  BY DEF IInv, TypeOK, Daemon, Client, Alone, Holds, Live, UnlinkAndExit,
         Dead
<1>4. UpdaterRuns'
  BY DEF IInv, TypeOK, Daemon, Client, DaemonStates, UpdaterRuns,
         UnlinkAndExit, Dead
<1>5. Peer'
  BY DEF IInv, TypeOK, Daemon, Client, Peer, UnlinkAndExit, Dead
<1>6. Remembered'
  BY DEF IInv, TypeOK, Daemon, Client, Remembered, UnlinkAndExit, Dead
<1>7. Stopped'
  BY DEF IInv, TypeOK, Daemon, Client, Stopped, Peer, UnlinkAndExit, Dead
<1>8. Asks'
  BY DEF IInv, TypeOK, Daemon, Client, Asks, UnlinkAndExit, Dead
<1>9. QED  BY <1>1, <1>2, <1>3, <1>4, <1>5, <1>6, <1>7, <1>8 DEF IInv

\* The process ends.
LEMMA CrashKeeps == ASSUME NEW d \in Daemons, IInv, Crash(d) PROVE IInv'
<1>1. TypeOK'
  BY DEF IInv, TypeOK, Daemon, Client, DaemonStates, Crash, Dead
<1>2. Alone'
  BY DEF IInv, TypeOK, Daemon, Client, Alone, Live, Crash, Dead
<1>3. Holds'
  BY DEF IInv, TypeOK, Daemon, Client, Alone, Holds, Live, Crash, Dead
<1>4. UpdaterRuns'
  BY DEF IInv, TypeOK, Daemon, Client, DaemonStates, UpdaterRuns, Crash,
         Dead
<1>5. Peer'
  BY DEF IInv, TypeOK, Daemon, Client, Peer, Crash, Dead
<1>6. Remembered'
  BY DEF IInv, TypeOK, Daemon, Client, Remembered, Crash, Dead
<1>7. Stopped'
  BY DEF IInv, TypeOK, Daemon, Client, Stopped, Peer, Crash, Dead
<1>8. Asks'
  BY DEF IInv, TypeOK, Daemon, Client, Asks, Crash, Dead
<1>9. QED  BY <1>1, <1>2, <1>3, <1>4, <1>5, <1>6, <1>7, <1>8 DEF IInv

LEMMA StutterKeeps == IInv /\ UNCHANGED vars => IInv'
  BY DEF IInv, TypeOK, Alone, Holds, UpdaterRuns, Peer, Remembered, Stopped, Asks,
         Live, vars

\* The settings have no part in this.
LEMMA InstallKeeps == IInv /\ (Install \/ Uninstall) => IInv'
<1>1. Install \/ Uninstall => installed' \in BOOLEAN /\ UNCHANGED <<path, daemon, client, overlapped>>
  BY DEF Install, Uninstall
<1>2. QED
  BY <1>1 DEF IInv, TypeOK, Alone, Holds, UpdaterRuns, Peer, Remembered, Stopped, Asks, Live

LEMMA InitIInv == Init => IInv
<1> SUFFICES ASSUME Init PROVE IInv  OBVIOUS
<1>1. Dead \in Daemon /\ Idle \in Client
  BY DEF Dead, Daemon, DaemonStates, Idle, Client, Operations
<1>2. TypeOK
  BY <1>1 DEF Init, TypeOK
<1>3. Alone /\ Holds /\ UpdaterRuns
  BY DEF Init, Alone, Holds, UpdaterRuns, Live, Dead
<1>4. Peer /\ Remembered /\ Stopped /\ Asks
  BY DEF Init, Peer, Remembered, Stopped, Asks, Idle
<1>5. QED  BY <1>2, <1>3, <1>4 DEF IInv

LEMMA NextIInv == IInv /\ [Next]_vars => IInv'
<1> SUFFICES ASSUME IInv, [Next]_vars PROVE IInv'  OBVIOUS
<1>1. CASE UNCHANGED vars
  BY <1>1, StutterKeeps
<1>2. CASE Install \/ Uninstall
  BY <1>2, InstallKeeps
<1>3. ASSUME NEW c \in Clients, Invoke(c) \/ ClientStep(c) \/ SlotReady(c)
      PROVE IInv'
  BY <1>3, InvokeKeeps, ConnectedKeeps, NotConnectedKeeps, HangUpKeeps, ConcludeKeeps,
     SpawnKeeps, SlotReadyKeeps DEF ClientStep
<1>4. ASSUME NEW d \in Daemons, DaemonStep(d) \/ Crash(d) PROVE IInv'
  BY <1>4, UnlinkPathKeeps, BindKeeps, ListenKeeps, SlotStartKeeps, CloseServerKeeps,
     UnlinkAndExitKeeps, CrashKeeps DEF DaemonStep
<1>5. QED  BY <1>1, <1>2, <1>3, <1>4 DEF Next

\* The inductive invariant, for any number of daemons and clients.
THEOREM ServiceInvariant == Spec => []IInv
<1>1. QED  BY InitIInv, NextIInv, PTL DEF Spec

\* A running daemon that was never beside another is found under the name.
THEOREM DaemonsReachable == Spec => []RunningIsReachable
<1>1. IInv => RunningIsReachable
  BY DEF IInv, Holds, RunningIsReachable, Reachable
<1>2. QED  BY <1>1, ServiceInvariant, PTL

\* A start puts no second daemon beside one that was up all the while.
THEOREM StartsSeeDaemons == Spec => []StartSeesDaemon
<1>1. IInv => StartSeesDaemon
  BY DEF IInv, Asks, StartSeesDaemon, Up
<1>2. QED  BY <1>1, ServiceInvariant, PTL

\* A stop that returns true has ended the updates.
THEOREM StopsEndUpdates == Spec => []TrueMeansStopped
<1>1. ASSUME IInv PROVE TrueMeansStopped
  BY <1>1 DEF IInv, TypeOK, Client, Daemon, UpdaterRuns, Peer, Stopped, TrueMeansStopped
<1>2. QED  BY <1>1, ServiceInvariant, PTL

\* The variables stay within their types.
THEOREM ServiceTypes == Spec => []TypeOK
<1>1. IInv => TypeOK
  BY DEF IInv
<1>2. QED  BY <1>1, ServiceInvariant, PTL

-----------------------------------------------------------------------------
(***************************************************************************)
(* The two platforms.                                                      *)
(***************************************************************************)

Proofs == INSTANCE WinServiceProofs WITH Controllers <- Clients

\* Two instances of one module under one substitution have the same steps.
LEMMA SameService == (Win!Init => Proofs!Init) /\ (Win!Next => Proofs!Next)
  BY DEF Win!processVars, Proofs!processVars, Win!vars, Proofs!vars, Win!Threads,
         Proofs!Threads, Win!Controls, Proofs!Controls, Win!Codes, Proofs!Codes, Win!States,
         Proofs!States, Win!PendingState, Proofs!PendingState, Win!ReachedState,
         Proofs!ReachedState, Win!NoThreads, Proofs!NoThreads, Win!NoCall, Proofs!NoCall,
         Win!Init, Proofs!Init, Win!IsInstalled, Proofs!IsInstalled, Win!IsRunning,
         Proofs!IsRunning, Win!Install, Proofs!Install, Win!Uninstall, Proofs!Uninstall,
         Win!Start, Proofs!Start, Win!Asks, Proofs!Asks, Win!Stop, Proofs!Stop, Win!Pause,
         Proofs!Pause, Win!Resume, Proofs!Resume, Win!SendCommand, Proofs!SendCommand,
         Win!ServiceFlags, Proofs!ServiceFlags, Win!Takes, Proofs!Takes, Win!Deliver,
         Proofs!Deliver, Win!ControlService, Proofs!ControlService, Win!Returns,
         Proofs!Returns, Win!Poll, Proofs!Poll, Win!Shutdown, Proofs!Shutdown,
         Win!RunDispatcher, Proofs!RunDispatcher, Win!ServiceMain, Proofs!ServiceMain,
         Win!Startup, Proofs!Startup, Win!SetStatus, Proofs!SetStatus, Win!Handler,
         Proofs!Handler, Win!HandlerWoken, Proofs!HandlerWoken, Win!HandlerReports,
         Proofs!HandlerReports, Win!DispatcherReturns, Proofs!DispatcherReturns,
         Win!Acquire, Proofs!Acquire, Win!HandleCustomEvent, Proofs!HandleCustomEvent,
         Win!WakeAll, Proofs!WakeAll, Win!LeaveLoop, Proofs!LeaveLoop, Win!ReportStopped,
         Proofs!ReportStopped, Win!Join, Proofs!Join, Win!Gone, Proofs!Gone, Win!Exit,
         Proofs!Exit, Win!Crash, Proofs!Crash, Win!Boot, Proofs!Boot, Win!Service,
         Proofs!Service, Win!Main, Proofs!Main, Win!Dispatcher, Proofs!Dispatcher,
         Win!ServiceThread, Proofs!ServiceThread, Win!Next, Proofs!Next

LEMMA WindowsSteps == LibrarySpec => Proofs!Steps
<1>1. LibraryInit => Proofs!Init
  BY SameService DEF LibraryInit
<1>2. [LibraryNext]_libraryVars => [Proofs!Next]_(Proofs!vars)
  <2>1. UNCHANGED winVars => UNCHANGED Proofs!vars
    BY DEF winVars, Proofs!vars, Proofs!processVars
  <2>2. QED  BY <2>1, SameService DEF LibraryNext, libraryVars
<1>3. QED  BY <1>1, <1>2, PTL DEF LibrarySpec, Proofs!Steps

LEMMA UnixSteps == LibrarySpec => Spec
<1>1. LibraryInit => Init
  BY DEF LibraryInit
<1>2. [LibraryNext]_libraryVars => [Next]_vars
  BY DEF LibraryNext, libraryVars
<1>3. QED  BY <1>1, <1>2, PTL DEF LibrarySpec, Spec

\* On either platform: a daemon that was never beside another is found, a start
\* puts none beside one that is up, and a stop that returns true has ended the
\* updates.
THEOREM DaemonsBehave == LibrarySpec => [](RunningIsReachable /\ StartSeesDaemon /\ TrueMeansStopped)
<1>1. QED  BY UnixSteps, DaemonsReachable, StartsSeeDaemons, StopsEndUpdates, PTL

\* On no platform is a thread left in handler() by an event loop that has ended,
\* nor its mutex deleted under it by sysCleanup().
THEOREM HandlersAreWoken == LibrarySpec => []NobodyIsLeftWaiting
<1>1. Proofs!NobodyIsLeftWaiting => NobodyIsLeftWaiting
  BY DEF NobodyIsLeftWaiting, Win!NobodyIsLeftWaiting, Win!Threads,
         Proofs!NobodyIsLeftWaiting, Proofs!Threads
<1>2. QED  BY <1>1, WindowsSteps, Proofs!NobodyWaitsForever, PTL

\* Whenever a controller is told that the service has stopped, nothing updates.
THEOREM StoppedServicesAreIdle == LibrarySpec => []StoppedMeansNoUpdate
<1>1. Proofs!StoppedMeansNoUpdate => StoppedMeansNoUpdate
  BY DEF StoppedMeansNoUpdate, Win!StoppedMeansNoUpdate, Proofs!StoppedMeansNoUpdate
<1>2. QED  BY <1>1, WindowsSteps, Proofs!StoppedIsIdle, PTL

\* On either platform every variable stays within its type, for any number of
\* daemons and clients and any number of polls.
THEOREM LibraryTypes == LibrarySpec => []Types
<1>1. Proofs!TypeOK => Win!TypeOK
  BY DEF Win!TypeOK, Win!States, Win!Threads, Win!Controls, Win!Codes,
         Proofs!TypeOK, Proofs!States, Proofs!Threads, Proofs!Controls, Proofs!Codes
<1>2. Proofs!Steps => []Proofs!TypeOK
  BY PollsAssumption, Proofs!WindowsTypes
<1>3. TypeOK /\ Win!TypeOK => Types
  BY DEF Types
<1>4. QED  BY <1>1, <1>2, <1>3, WindowsSteps, UnixSteps, ServiceTypes, PTL

=============================================================================
