----------------------------- MODULE WinService -----------------------------
(***************************************************************************)
(* The service on Windows.  Three threads of one process share a mutex, a  *)
(* wait condition, two semaphores and a status: the main thread, which     *)
(* runs the event loop, the thread that the service manager makes for      *)
(* serviceMain(), and HandlerThread, which the manager's controls arrive   *)
(* on.  handler() posts an event and waits on the condition; the event's   *)
(* handling wakes all who wait.  The mutex is held from the posting to the *)
(* wait and nowhere across two steps, so that it needs no variable.        *)
(*                                                                         *)
(* The service manager is external: it keeps the last status reported,     *)
(* accepts a control or not by that status, and has one control delivered  *)
(* at a time.                                                              *)
(***************************************************************************)
EXTENDS Naturals, Sequences

CONSTANTS
    Controllers,    \* processes with a QtServiceController
    MaxPolls,       \* the status is asked so many times in stop(): 10
    WinFlags        \* QtServiceBase::ServiceFlags; LmMediaUpdaterService sets none

VARIABLES
    shutdown,   \* the system shuts down: the manager takes no more calls
    registered, \* the service is known to the manager: "no", "yes", "marked"
    scm,        \* the status the manager has
    status,     \* status.dwCurrentState
    main,       \* where the main thread is
    thread,     \* the other two: where they are, and the code they handle
    startSemaphore, startSemaphore2,
    events,     \* posted to controllerHandler
    quitting,   \* quit() was called
    updater,    \* mUpdateController
    caller      \* the controllers

processVars == <<status, main, thread, startSemaphore, startSemaphore2, events,
                 quitting, updater>>

vars == <<shutdown, registered, scm, processVars, caller>>

Threads == {"service", "dispatcher"}

Controls == {"STOP", "PAUSE", "CONTINUE", "COMMAND", "SHUTDOWN"}
Codes    == Controls \cup {"STARTUP"}

States == {"STOPPED", "START_PENDING", "RUNNING", "STOP_PENDING",
           "PAUSE_PENDING", "PAUSED", "CONTINUE_PENDING"}

\* handler(): the status while the event is handled, and after it.  A stop ends
\* in start(), a command changes nothing, and nor does a shutdown.
PendingState == [STARTUP |-> "START_PENDING", STOP |-> "STOP_PENDING",
                 PAUSE |-> "PAUSE_PENDING", CONTINUE |-> "CONTINUE_PENDING"]

ReachedState == [STARTUP |-> "RUNNING", PAUSE |-> "PAUSED", CONTINUE |-> "RUNNING"]

NoThreads == [t \in Threads |-> [pc |-> "none", code |-> "STARTUP"]]

NoCall == [code |-> "STOP", pc |-> "idle", polls |-> 0]

TypeOK ==
    /\ shutdown \in BOOLEAN
    /\ registered \in {"no", "yes", "marked"}
    /\ scm \in States /\ status \in States
    /\ main \in {"none", "wait", "loop", "handled", "left", "join", "cleaned", "failed"}
    /\ thread \in [Threads -> [pc : {"none", "begin", "acquire", "idle", "lock", "waiting",
                                     "woken", "report", "finished", "failed"},
                               code : Codes]]
    /\ startSemaphore \in 0 .. 1 /\ startSemaphore2 \in 0 .. 1
    /\ events \in Seq(Codes)
    /\ quitting \in BOOLEAN /\ updater \in BOOLEAN
    /\ caller \in [Controllers -> [code : Controls, polls : 0 .. MaxPolls,
                                   pc : {"idle", "asked", "control", "poll"}]]

Init ==
    /\ shutdown = FALSE /\ registered = "no" /\ scm = "STOPPED" /\ status = "STOPPED"
    /\ main = "none" /\ thread = NoThreads
    /\ startSemaphore = 0 /\ startSemaphore2 = 0
    /\ events = <<>> /\ quitting = FALSE /\ updater = FALSE
    /\ caller = [c \in Controllers |-> NoCall]

-----------------------------------------------------------------------------
(***************************************************************************)
(* QtServiceController, in processes of their own.                         *)
(***************************************************************************)

IsInstalled == registered # "no"

IsRunning == IsInstalled /\ scm # "STOPPED"

Install ==
    /\ ~IsInstalled
    /\ registered' = "yes"
    /\ UNCHANGED <<shutdown, scm, processVars, caller>>

\* DeleteService(): the entry goes when the service has stopped.
Uninstall ==
    /\ registered = "yes"
    /\ registered' = IF IsRunning THEN "marked" ELSE "no"
    /\ UNCHANGED <<shutdown, scm, processVars, caller>>

\* start(): the manager runs the program, if it is not running.  The program
\* does sysInit() and starts HandlerThread.
Start ==
    /\ ~shutdown /\ registered = "yes" /\ scm = "STOPPED" /\ main = "none"
    /\ scm' = "START_PENDING"
    /\ main' = "wait"
    /\ thread' = [thread EXCEPT !["dispatcher"].pc = "begin"]
    /\ UNCHANGED <<shutdown, registered, status, startSemaphore, startSemaphore2, events, quitting,
                   updater, caller>>

Asks(c, code) ==
    /\ IsInstalled /\ caller[c].pc = "idle"
    /\ caller' = [caller EXCEPT ![c] = [NoCall EXCEPT !.code = code, !.pc = "asked"]]
    /\ UNCHANGED <<shutdown, registered, scm, processVars>>

Stop(c)        == Asks(c, "STOP")
Pause(c)       == Asks(c, "PAUSE")
Resume(c)      == Asks(c, "CONTINUE")
SendCommand(c) == IsRunning /\ Asks(c, "COMMAND")

\* serviceFlags(): what the service says it takes.
ServiceFlags(code) ==
    CASE code \in {"PAUSE", "CONTINUE"} -> "CanBeSuspended" \in WinFlags
      [] code = "STOP"                  -> "CannotBeStopped" \notin WinFlags
      [] code = "SHUTDOWN"              -> "NeedsStopOnShutdown" \in WinFlags
      [] OTHER                          -> TRUE

\* ControlService() of the manager.
Takes(code) ==
    /\ ~shutdown
    /\ ServiceFlags(code)
    /\ scm \notin {"STOPPED", "START_PENDING", "STOP_PENDING"}

Deliver(code) ==
    /\ thread["dispatcher"].pc = "idle"
    /\ \A c \in Controllers : caller[c].pc # "control"
    /\ thread' = [thread EXCEPT !["dispatcher"] = [pc |-> "lock", code |-> code]]

ControlService(c) ==
    /\ caller[c].pc = "asked"
    /\ \/ /\ Takes(caller[c].code)
          /\ Deliver(caller[c].code)
          /\ caller' = [caller EXCEPT ![c].pc = "control"]
       \/ /\ ~Takes(caller[c].code)
          /\ caller' = [caller EXCEPT ![c] = NoCall]
          /\ UNCHANGED thread
    /\ UNCHANGED <<shutdown, registered, scm, status, main, startSemaphore, startSemaphore2, events,
                   quitting, updater>>

\* The call returns with the handler; only stop() goes on, and asks again.
Returns(c) ==
    /\ caller[c].pc = "control"
    /\ thread["dispatcher"].pc \in {"none", "idle", "finished"}
    /\ caller' = [caller EXCEPT ![c] =
          IF @.code = "STOP" /\ scm # "STOPPED" THEN [@ EXCEPT !.pc = "poll"] ELSE NoCall]
    /\ UNCHANGED <<shutdown, registered, scm, processVars>>

\* Every 200 ms.  stop() returns true if it finds the service stopped.
Poll(c) ==
    /\ caller[c].pc = "poll"
    /\ caller' = [caller EXCEPT ![c] =
          IF scm = "STOPPED" \/ @.polls = MaxPolls THEN NoCall
          ELSE [caller[c] EXCEPT !.polls = @ + 1]]
    /\ UNCHANGED <<shutdown, registered, scm, processVars>>

\* The machine shuts down, and starts again.
Shutdown ==
    /\ Takes("SHUTDOWN") /\ Deliver("SHUTDOWN")
    /\ shutdown' = TRUE
    /\ UNCHANGED <<registered, scm, status, main, startSemaphore, startSemaphore2, events,
                   quitting, updater, caller>>

-----------------------------------------------------------------------------
(***************************************************************************)
(* The threads beside the main thread.                                     *)
(***************************************************************************)

\* HandlerThread::run(): StartServiceCtrlDispatcher() makes the thread of
\* serviceMain(), or fails, and then start() must not wait for it.
RunDispatcher ==
    /\ thread["dispatcher"].pc = "begin"
    /\ \/ /\ thread' = [thread EXCEPT !["dispatcher"].pc = "idle", !["service"].pc = "begin"]
          /\ UNCHANGED startSemaphore
       \/ /\ thread' = [thread EXCEPT !["dispatcher"].pc = "failed"]
          /\ startSemaphore' = 1
    /\ UNCHANGED <<shutdown, registered, scm, status, main, startSemaphore2, events, quitting, updater,
                   caller>>

\* serviceMain(): the arguments are there; wait for the application.
ServiceMain ==
    /\ thread["service"].pc = "begin"
    /\ startSemaphore' = 1
    /\ thread' = [thread EXCEPT !["service"].pc = "acquire"]
    /\ UNCHANGED <<shutdown, registered, scm, status, main, startSemaphore2, events, quitting, updater,
                   caller>>

\* RegisterServiceCtrlHandler() and handler(QTSERVICE_STARTUP).
Startup ==
    /\ thread["service"].pc = "acquire" /\ startSemaphore2 = 1
    /\ startSemaphore2' = 0
    /\ thread' = [thread EXCEPT !["service"] = [pc |-> "lock", code |-> "STARTUP"]]
    /\ UNCHANGED <<shutdown, registered, scm, status, main, startSemaphore, events, quitting, updater,
                   caller>>

SetStatus(state) == status' = state /\ scm' = state

\* Mutant of Handler: the stop is not reported before its event is posted.
HandlerUnreported(t) ==
    /\ thread[t].pc = "lock"
    /\ LET code == thread[t].code
       IN  /\ IF code \in DOMAIN PendingState \ {"STOP"} THEN SetStatus(PendingState[code])
              ELSE UNCHANGED <<status, scm>>
           /\ events' = Append(events, IF code = "SHUTDOWN" THEN "STOP" ELSE code)
    /\ thread' = [thread EXCEPT ![t].pc = "waiting"]
    /\ UNCHANGED <<shutdown, registered, main, startSemaphore, startSemaphore2, quitting, updater, caller>>

\* handler(), first half: report, post the event, wait.  A shutdown posts the
\* event of a stop and reports nothing.
Handler(t) ==
    /\ thread[t].pc = "lock"
    /\ LET code == thread[t].code
       IN  /\ IF code \in DOMAIN PendingState THEN SetStatus(PendingState[code])
              ELSE UNCHANGED <<status, scm>>
           /\ events' = Append(events, IF code = "SHUTDOWN" THEN "STOP" ELSE code)
    /\ thread' = [thread EXCEPT ![t].pc = "waiting"]
    /\ UNCHANGED <<shutdown, registered, main, startSemaphore, startSemaphore2, quitting, updater, caller>>

\* handler(), second half, with the mutex again.
HandlerWoken(t) ==
    /\ thread[t].pc = "woken"
    /\ IF thread[t].code \in DOMAIN ReachedState THEN SetStatus(ReachedState[thread[t].code])
       ELSE UNCHANGED <<status, scm>>
    /\ thread' = [thread EXCEPT ![t].pc = "report"]
    /\ UNCHANGED <<shutdown, registered, main, startSemaphore, startSemaphore2, events, quitting, updater,
                   caller>>

\* ... and without it: the status is reported once more, whatever it is by now.
\* serviceMain() returns; the dispatcher takes the next control.  Nothing joins
\* the thread of serviceMain(): it may find the status deleted.
HandlerReports(t) ==
    /\ thread[t].pc = "report"
    /\ scm' \in IF main = "cleaned" THEN States
                ELSE IF status # "STOPPED" THEN {status} ELSE {scm}
    /\ thread' = [thread EXCEPT ![t].pc = IF t = "service" THEN "finished" ELSE "idle"]
    /\ UNCHANGED <<shutdown, registered, status, main, startSemaphore, startSemaphore2, events, quitting,
                   updater, caller>>

\* StartServiceCtrlDispatcher() returns when the service has stopped.
DispatcherReturns ==
    /\ thread["dispatcher"].pc = "idle" /\ scm = "STOPPED"
    /\ thread' = [thread EXCEPT !["dispatcher"].pc = "finished"]
    /\ UNCHANGED <<shutdown, registered, scm, status, main, startSemaphore, startSemaphore2, events,
                   quitting, updater, caller>>

-----------------------------------------------------------------------------
(***************************************************************************)
(* The main thread (QtServiceBasePrivate::start).                          *)
(***************************************************************************)

\* tryAcquire(1, 20000), and then the application and its handler of events.
\* Nothing has come for 20 s, or the dispatcher has failed: start() gives up.
Acquire ==
    /\ main = "wait"
    /\ \/ /\ startSemaphore = 1 /\ thread["dispatcher"].pc # "failed"
          /\ startSemaphore' = 0 /\ startSemaphore2' = 1
          /\ main' = "loop"
       \/ /\ startSemaphore = 0 \/ thread["dispatcher"].pc = "failed"
          /\ main' = "failed"
          /\ UNCHANGED <<startSemaphore, startSemaphore2>>
    /\ UNCHANGED <<shutdown, registered, scm, status, thread, events, quitting, updater, caller>>

\* Mutant of HandleCustomEvent: quit() alone, not LmMediaUpdaterService::stop().
QuitOnly ==
    /\ main = "loop" /\ events # <<>>
    /\ events' = Tail(events) /\ main' = "handled"
    /\ updater' = (updater \/ Head(events) = "STARTUP")
    /\ quitting' = (quitting \/ Head(events) = "STOP")
    /\ UNCHANGED <<shutdown, registered, scm, status, thread, startSemaphore, startSemaphore2, caller>>

\* handleCustomEvent(): the service starts and stops here; pause(), resume()
\* and processCommand() are empty.
HandleCustomEvent ==
    /\ main = "loop" /\ events # <<>>
    /\ events' = Tail(events) /\ main' = "handled"
    /\ updater' = CASE Head(events) = "STARTUP" -> TRUE
                     [] Head(events) = "STOP"    -> FALSE
                     [] OTHER                    -> updater
    /\ quitting' = (quitting \/ Head(events) = "STOP")
    /\ UNCHANGED <<shutdown, registered, scm, status, thread, startSemaphore, startSemaphore2, caller>>

\* condition.wakeAll().
WakeAll ==
    /\ main = "handled"
    /\ main' = "loop"
    /\ thread' = [t \in Threads |->
          IF thread[t].pc = "waiting" THEN [thread[t] EXCEPT !.pc = "woken"] ELSE thread[t]]
    /\ UNCHANGED <<shutdown, registered, scm, status, startSemaphore, startSemaphore2, events, quitting,
                   updater, caller>>

\* exec() returns, before or after events that are posted behind the quit().
LeaveLoop ==
    /\ main = "loop" /\ quitting
    /\ main' = "left"
    /\ UNCHANGED <<shutdown, registered, scm, status, thread, startSemaphore, startSemaphore2, events,
                   quitting, updater, caller>>

ReportStopped ==
    /\ main = "left"
    /\ SetStatus("STOPPED")
    /\ main' = "join"
    /\ UNCHANGED <<shutdown, registered, thread, startSemaphore, startSemaphore2, events, quitting, updater,
                   caller>>

\* ht->wait(1000), deletions, sysCleanup().  The second does not pass while the
\* handler has something to do, but a handler that waits does not end it.
Join ==
    /\ main = "join"
    /\ thread["dispatcher"].pc \in {"finished", "waiting"}
    /\ main' = "cleaned"
    /\ UNCHANGED <<shutdown, registered, scm, status, thread, startSemaphore, startSemaphore2, events,
                   quitting, updater, caller>>

\* The process is gone, and the manager knows.
Gone ==
    /\ scm' = "STOPPED"
    /\ registered' = IF registered = "marked" THEN "no" ELSE registered
    /\ status' = "STOPPED" /\ main' = "none" /\ thread' = NoThreads
    /\ startSemaphore' = 0 /\ startSemaphore2' = 0
    /\ events' = <<>> /\ quitting' = FALSE /\ updater' = FALSE

Exit == main \in {"cleaned", "failed"} /\ Gone /\ UNCHANGED <<shutdown, caller>>

Crash == main # "none" /\ Gone /\ UNCHANGED <<shutdown, caller>>

Boot == shutdown /\ Gone /\ shutdown' = FALSE /\ caller' = [c \in Controllers |-> NoCall]

Service(t) == Handler(t) \/ HandlerWoken(t) \/ HandlerReports(t)

Main == Acquire \/ HandleCustomEvent \/ WakeAll \/ LeaveLoop \/ ReportStopped \/ Join \/ Exit

Dispatcher == RunDispatcher \/ DispatcherReturns \/ Service("dispatcher")

ServiceThread == ServiceMain \/ Startup \/ Service("service")

Next ==
    \/ Install \/ Uninstall \/ Start \/ Shutdown \/ Boot \/ Crash
    \/ \E c \in Controllers :
          \/ Stop(c) \/ Pause(c) \/ Resume(c) \/ SendCommand(c)
          \/ ControlService(c) \/ Returns(c) \/ Poll(c)
    \/ Main \/ Dispatcher \/ ServiceThread

\* The threads run.  Nothing is assumed of the controllers and the manager.
Fairness == WF_vars(Main) /\ WF_vars(Dispatcher) /\ WF_vars(ServiceThread)

-----------------------------------------------------------------------------
(***************************************************************************)
(* Properties.                                                             *)
(***************************************************************************)

\* The event loop is not left while a thread waits for it in handler(): nobody
\* would wake it, the second of ht->wait() would run out, and sysCleanup() would
\* delete the mutex and the condition it waits on.
NobodyIsLeftWaiting ==
    main \in {"left", "join", "cleaned"} => \A t \in Threads : thread[t].pc # "waiting"

\* When the manager says "stopped", which is what makes stop() return true and
\* a second start possible, no controller of the updates is left.
StoppedMeansNoUpdate == scm = "STOPPED" => ~updater

=============================================================================
