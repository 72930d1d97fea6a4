-------------------------- MODULE WinServiceProofs --------------------------
(***************************************************************************)
(* The safety properties of WinService, for any number of controllers,     *)
(* any number of polls and whatever flags the service has set.  They need  *)
(* no fairness: the theorems are about Init and the steps alone.           *)
(***************************************************************************)
EXTENDS WinService, SequenceTheorems, TLAPS

Steps == Init /\ [][Next]_vars

\* Where the two threads beside the main thread are.
ServiceAt    == thread["service"].pc
DispatcherAt == thread["dispatcher"].pc

\* TypeOK, but for what the manager and the controllers keep to themselves.
Typed ==
    /\ scm \in States /\ status \in States
    /\ main \in {"none", "wait", "loop", "handled", "left", "join", "cleaned", "failed"}
    /\ thread \in [Threads -> [pc : {"none", "begin", "acquire", "idle", "lock", "waiting",
                                     "woken", "report", "finished", "failed"},
                               code : Codes]]
    /\ startSemaphore \in 0 .. 1 /\ startSemaphore2 \in 0 .. 1
    /\ events \in Seq(Codes)
    /\ quitting \in BOOLEAN /\ updater \in BOOLEAN

\* A controller asks for something that there is.
Call == [code : Controls \ {"SHUTDOWN"}, polls : Nat, pc : {"idle", "asked", "control", "poll"}]

Called == caller \in [Controllers -> Call]

InLoop == main \in {"loop", "handled"}

\* Before the event loop runs nothing is asked of it; without a process there is
\* nothing.
BeforeLoop ==
    /\ main \in {"none", "wait", "failed"} =>
          /\ events = <<>> /\ ~quitting /\ ~updater
          /\ status = "STOPPED" /\ startSemaphore2 = 0
          /\ ServiceAt \in {"none", "begin", "acquire"}
    /\ main = "none" => thread = NoThreads /\ scm = "STOPPED" /\ startSemaphore = 0
    /\ main \in {"wait", "failed"} =>
          scm = "START_PENDING" /\ DispatcherAt \in {"begin", "idle", "failed"}

\* The semaphore says that serviceMain() waits for the application, or that the
\* dispatcher has failed.
Begun ==
    /\ main = "wait" /\ DispatcherAt = "begin" => ServiceAt = "none" /\ startSemaphore = 0
    /\ main = "wait" /\ DispatcherAt = "idle" =>
          /\ ServiceAt \in {"begin", "acquire"}
          /\ ServiceAt = "begin" => startSemaphore = 0
    /\ InLoop => DispatcherAt \notin {"none", "begin", "failed"}

\* serviceMain() reports the start; until it has, no control is taken.
Starting ==
    /\ startSemaphore2 = 1 =>
          main = "loop" /\ ServiceAt = "acquire" /\ DispatcherAt = "idle"
          /\ events = <<>> /\ ~quitting /\ ~updater /\ scm = "START_PENDING"
    /\ ServiceAt \in {"lock", "waiting", "woken"} =>
          InLoop /\ thread["service"].code = "STARTUP" /\ DispatcherAt = "idle"
          /\ ~quitting /\ scm = "START_PENDING" /\ startSemaphore2 = 0
    /\ ServiceAt = "lock" => events = <<>> /\ main = "loop"
    /\ InLoop /\ ServiceAt \in {"none", "begin", "acquire"} => startSemaphore2 = 1

\* The manager knows the status of the process, until that is deleted.
Reported ==
    /\ (InLoop \/ main = "left") /\ status # "STOPPED" => scm = status
    /\ InLoop /\ status = "STOPPED" => scm = "START_PENDING"
    /\ main = "left" => status # "STOPPED"
    /\ main = "join" => scm = "STOPPED"
    /\ main \in {"join", "cleaned"} => status = "STOPPED"

\* An event is that of the thread that waits for it, and there is one at most.
Posted ==
    /\ events # <<>> => main = "loop" /\ "waiting" \in {ServiceAt, DispatcherAt}
    /\ ServiceAt = "waiting" =>
          IF main = "loop" THEN events = <<"STARTUP">> ELSE events = <<>>
    /\ DispatcherAt = "waiting" =>
          /\ InLoop
          /\ IF main = "loop"
             THEN ~quitting /\ events = << IF thread["dispatcher"].code = "SHUTDOWN"
                                           THEN "STOP" ELSE thread["dispatcher"].code >>
             ELSE events = <<>> /\ (quitting <=> thread["dispatcher"].code \in {"STOP", "SHUTDOWN"})
    /\ main = "handled" => "waiting" \in {ServiceAt, DispatcherAt}

\* A control is handled while the service runs, and a stop is the last one.
Controlled ==
    /\ DispatcherAt = "lock" =>
          main = "loop" /\ ~quitting /\ events = <<>> /\ scm # "STOP_PENDING"
    /\ DispatcherAt \in {"lock", "waiting", "woken"} =>
          /\ thread["dispatcher"].code \in Controls
          /\ thread["dispatcher"].code = "SHUTDOWN" => shutdown
          /\ ServiceAt \notin {"lock", "waiting", "woken"}
    /\ DispatcherAt \in {"lock", "waiting"} => scm \notin {"STOPPED", "START_PENDING"}
    /\ DispatcherAt = "waiting" =>
          scm = "STOP_PENDING" <=> thread["dispatcher"].code = "STOP"
    /\ DispatcherAt = "woken" =>
          quitting <=> thread["dispatcher"].code \in {"STOP", "SHUTDOWN"}

\* A process that was told to quit takes no control and updates nothing.
Quits ==
    /\ quitting => /\ ~updater
                   /\ shutdown \/ status \in {"STOP_PENDING", "STOPPED"}
                   /\ main \in {"loop", "handled", "left", "join", "cleaned"}
    /\ main \in {"left", "join", "cleaned"} =>
          quitting /\ events = <<>> /\ DispatcherAt \notin {"begin", "lock", "waiting"}
    /\ main = "cleaned" => DispatcherAt = "finished"
    /\ InLoop /\ status = "STOPPED" => ~quitting

IInv == Typed /\ BeforeLoop /\ Begun /\ Starting /\ Reported /\ Posted /\ Controlled /\ Quits

-----------------------------------------------------------------------------
(***************************************************************************)
(* Each step keeps the invariant.                                          *)
(***************************************************************************)

\* A process begins with neither.
LEMMA NoThreadsTyped ==
    /\ NoThreads \in [Threads -> [pc : {"none", "begin", "acquire", "idle", "lock", "waiting",
                                      "woken", "report", "finished", "failed"},
                                code : Codes]]
    /\ <<>> \in Seq(Codes)
  BY DEF NoThreads, Codes

\* The events that are posted: one, when there was none.
LEMMA OneEvent ==
    ASSUME NEW code PROVE /\ Append(<<>>, code) = <<code>>
                          /\ <<code>> # <<>>
                          /\ Head(<<code>>) = code /\ Tail(<<code>>) = <<>>
  OBVIOUS

\* What the manager and the controllers do among themselves.
LEMMA OutsideKeeps ==
    ASSUME IInv, UNCHANGED <<shutdown, scm, processVars>> PROVE IInv'
  BY DEF IInv, Typed, BeforeLoop, Begun, Starting, Reported, Posted, Controlled, Quits, ServiceAt,
         DispatcherAt, InLoop, processVars

\* The program is run.
LEMMA StartKeeps == ASSUME IInv, Start PROVE IInv'
<1>1. Typed'
  BY DEF IInv, Typed, States, Start
<1>2. BeforeLoop'
  BY DEF IInv, Typed, BeforeLoop, ServiceAt, DispatcherAt, Threads, Start
<1>3. Begun'
  BY DEF IInv, BeforeLoop, Begun, ServiceAt, DispatcherAt, InLoop, Threads,
         NoThreads, Start
<1>4. Starting'
  BY DEF IInv, Starting, ServiceAt, InLoop, Start
<1>5. Reported'
  BY DEF Reported, InLoop, Start
<1>6. Posted'
  BY DEF IInv, Typed, Posted, DispatcherAt, Threads, Start
<1>7. Controlled'
  BY DEF IInv, Typed, Controlled, DispatcherAt, Threads, Start
<1>8. Quits'
  BY DEF IInv, Quits, Start
<1>9. QED  BY <1>1, <1>2, <1>3, <1>4, <1>5, <1>6, <1>7, <1>8 DEF IInv

\* The thread of serviceMain() is made, or is not.
LEMMA RunDispatcherKeeps == ASSUME IInv, RunDispatcher PROVE IInv'
<1>1. Typed'
  BY DEF IInv, Typed, RunDispatcher
<1>2. BeforeLoop'
  BY DEF IInv, Typed, BeforeLoop, ServiceAt, DispatcherAt, Threads, NoThreads,
         RunDispatcher
<1>3. Begun'
  BY DEF IInv, Typed, Begun, ServiceAt, DispatcherAt, InLoop, Threads,
         RunDispatcher
<1>4. Starting'
  BY DEF IInv, Typed, Begun, Starting, ServiceAt, DispatcherAt, InLoop,
         Threads, RunDispatcher
<1>5. Reported'
  BY DEF IInv, Reported, InLoop, RunDispatcher
<1>6. Posted'
  BY DEF IInv, Typed, Starting, Posted, ServiceAt, DispatcherAt, Threads,
         RunDispatcher
<1>7. Controlled'
  BY DEF IInv, Typed, Controlled, DispatcherAt, Threads, RunDispatcher
<1>8. Quits'
  BY DEF IInv, Quits, DispatcherAt, InLoop, RunDispatcher
<1>9. QED  BY <1>1, <1>2, <1>3, <1>4, <1>5, <1>6, <1>7, <1>8 DEF IInv

\* serviceMain() begins.
LEMMA ServiceMainKeeps == ASSUME IInv, ServiceMain PROVE IInv'
<1>1. Typed'
  BY DEF IInv, Typed, Threads, ServiceMain
<1>2. BeforeLoop'
  BY DEF IInv, BeforeLoop, ServiceAt, DispatcherAt, Threads, NoThreads,
         ServiceMain
<1>3. Begun'
  BY DEF IInv, Typed, Begun, ServiceAt, DispatcherAt, InLoop, Threads,
         ServiceMain
<1>4. Starting'
  BY DEF IInv, Starting, ServiceAt, InLoop, ServiceMain
<1>5. Reported'
  BY DEF IInv, Reported, InLoop, ServiceMain
<1>6. Posted'
  BY DEF IInv, Posted, ServiceAt, DispatcherAt, InLoop, ServiceMain
<1>7. Controlled'
  BY DEF IInv, Controlled, ServiceAt, DispatcherAt, ServiceMain
<1>8. Quits'
  BY DEF IInv, Quits, DispatcherAt, InLoop, ServiceMain
<1>9. QED  BY <1>1, <1>2, <1>3, <1>4, <1>5, <1>6, <1>7, <1>8 DEF IInv

\* serviceMain() goes on.
LEMMA StartupKeeps == ASSUME IInv, Startup PROVE IInv'
<1>1. Typed'
  BY DEF IInv, Typed, Threads, Codes, Startup
<1>2. BeforeLoop'
  BY DEF IInv, BeforeLoop, Startup
<1>3. Begun'
  BY DEF IInv, Begun, Starting, DispatcherAt, Startup
<1>4. Starting'
  BY DEF IInv, Typed, Starting, ServiceAt, DispatcherAt, InLoop, Threads,
         Startup
<1>5. Reported'
  BY DEF IInv, Reported, InLoop, Startup
<1>6. Posted'
  BY DEF IInv, Posted, ServiceAt, DispatcherAt, InLoop, Startup
<1>7. Controlled'
  BY DEF IInv, Starting, Controlled, DispatcherAt, Startup
<1>8. Quits'
  BY DEF IInv, Quits, DispatcherAt, InLoop, Startup
<1>9. QED  BY <1>1, <1>2, <1>3, <1>4, <1>5, <1>6, <1>7, <1>8 DEF IInv

\* The dispatcher returns.
LEMMA DispatcherReturnsKeeps == ASSUME IInv, DispatcherReturns PROVE IInv'
<1>1. Typed'
  BY DEF IInv, Typed, DispatcherReturns
<1>2. BeforeLoop'
  BY DEF IInv, BeforeLoop, Threads, NoThreads, DispatcherReturns
<1>3. Begun'
  BY DEF IInv, Typed, Begun, DispatcherAt, Threads, DispatcherReturns
<1>4. Starting'
  BY DEF IInv, Starting, ServiceAt, InLoop, DispatcherReturns
<1>5. Reported'
  BY DEF IInv, Reported, InLoop, DispatcherReturns
<1>6. Posted'
  BY DEF IInv, Posted, ServiceAt, DispatcherAt, DispatcherReturns
<1>7. Controlled'
  BY DEF Controlled, DispatcherAt, DispatcherReturns
<1>8. Quits'
  BY DEF IInv, Quits, DispatcherAt, InLoop, DispatcherReturns
<1>9. QED  BY <1>1, <1>2, <1>3, <1>4, <1>5, <1>6, <1>7, <1>8 DEF IInv

\* The application is made, or start() gives up.
LEMMA AcquireKeeps == ASSUME IInv, Acquire PROVE IInv'
<1>1. Typed'
  BY DEF IInv, Typed, Acquire
<1>2. BeforeLoop'
  BY DEF IInv, BeforeLoop, ServiceAt, DispatcherAt, Acquire
<1>3. Begun'
  BY DEF IInv, BeforeLoop, Begun, DispatcherAt, InLoop, Acquire
<1>4. Starting'
  BY DEF IInv, BeforeLoop, Begun, Starting, ServiceAt, DispatcherAt, InLoop,
         Acquire
<1>5. Reported'
  BY DEF IInv, BeforeLoop, Reported, Acquire
<1>6. Posted'
  BY DEF IInv, Starting, Posted, ServiceAt, DispatcherAt, InLoop, Acquire
<1>7. Controlled'
  BY DEF IInv, Controlled, ServiceAt, DispatcherAt, Acquire
<1>8. Quits'
  BY DEF IInv, Quits, Acquire
<1>9. QED  BY <1>1, <1>2, <1>3, <1>4, <1>5, <1>6, <1>7, <1>8 DEF IInv

\* The event loop is left.
LEMMA LeaveLoopKeeps == ASSUME IInv, LeaveLoop PROVE IInv'
<1>1. Typed'
  BY DEF IInv, Typed, LeaveLoop
<1>2. BeforeLoop'
  BY DEF BeforeLoop, LeaveLoop
<1>3. Begun'
  BY DEF Begun, InLoop, LeaveLoop
<1>4. Starting'
  BY DEF IInv, Starting, ServiceAt, InLoop, LeaveLoop
<1>5. Reported'
  BY DEF IInv, Reported, Quits, InLoop, LeaveLoop
<1>6. Posted'
  BY DEF IInv, Starting, Posted, DispatcherAt, LeaveLoop
<1>7. Controlled'
  BY DEF IInv, Controlled, ServiceAt, DispatcherAt, LeaveLoop
<1>8. Quits'
  BY DEF IInv, Begun, Starting, Posted, Controlled, Quits, DispatcherAt,
         InLoop, LeaveLoop
<1>9. QED  BY <1>1, <1>2, <1>3, <1>4, <1>5, <1>6, <1>7, <1>8 DEF IInv

\* The service says that it has stopped.
LEMMA ReportStoppedKeeps == ASSUME IInv, ReportStopped PROVE IInv'
<1>1. Typed'
  BY DEF IInv, Typed, States, ReportStopped, SetStatus
<1>2. BeforeLoop'
  BY DEF BeforeLoop, ReportStopped
<1>3. Begun'
  BY DEF Begun, InLoop, ReportStopped
<1>4. Starting'
  BY DEF IInv, Starting, ServiceAt, InLoop, ReportStopped
<1>5. Reported'
  BY DEF Reported, InLoop, ReportStopped, SetStatus
<1>6. Posted'
  BY DEF IInv, Posted, DispatcherAt, InLoop, ReportStopped
<1>7. Controlled'
  BY DEF IInv, Controlled, Quits, ServiceAt, DispatcherAt, ReportStopped
<1>8. Quits'
  BY DEF IInv, Quits, DispatcherAt, InLoop, ReportStopped, SetStatus
<1>9. QED  BY <1>1, <1>2, <1>3, <1>4, <1>5, <1>6, <1>7, <1>8 DEF IInv

\* The handler's thread has ended.
LEMMA JoinKeeps == ASSUME IInv, Join PROVE IInv'
<1>1. Typed'
  BY DEF IInv, Typed, Join
<1>2. BeforeLoop'
  BY DEF BeforeLoop, Join
<1>3. Begun'
  BY DEF Begun, InLoop, Join
<1>4. Starting'
  BY DEF IInv, Starting, ServiceAt, InLoop, Join
<1>5. Reported'
  BY DEF IInv, Reported, InLoop, Join
<1>6. Posted'
  BY DEF IInv, Posted, DispatcherAt, InLoop, Join
<1>7. Controlled'
  BY DEF IInv, Controlled, ServiceAt, DispatcherAt, Join
<1>8. Quits'
  BY DEF IInv, Quits, DispatcherAt, InLoop, Join
<1>9. QED  BY <1>1, <1>2, <1>3, <1>4, <1>5, <1>6, <1>7, <1>8 DEF IInv

\* Those who wait are woken.
LEMMA WakeAllKeeps == ASSUME IInv, WakeAll PROVE IInv'
<1>1. Typed'
  BY DEF IInv, Typed, WakeAll
<1>2. BeforeLoop'
  BY DEF BeforeLoop, WakeAll
<1>3. Begun'
  BY DEF IInv, Begun, DispatcherAt, InLoop, Threads, WakeAll
<1>4. Starting'
  BY DEF IInv, Starting, ServiceAt, DispatcherAt, InLoop, Threads, WakeAll
<1>5. Reported'
  BY DEF IInv, Reported, InLoop, WakeAll
<1>6. Posted'
  BY DEF IInv, Posted, ServiceAt, DispatcherAt, Threads, WakeAll
<1>7. Controlled'
  BY DEF IInv, Posted, Controlled, ServiceAt, DispatcherAt, Threads, WakeAll
<1>8. Quits'
  BY DEF IInv, Quits, InLoop, WakeAll
<1>9. QED  BY <1>1, <1>2, <1>3, <1>4, <1>5, <1>6, <1>7, <1>8 DEF IInv

\* An event is handled.
LEMMA HandleCustomEventKeeps == ASSUME IInv, HandleCustomEvent PROVE IInv'
<1>1. PICK code \in Codes : events = <<code>> /\ Head(events) = code /\ events' = <<>>
  <2>1. PICK code \in Codes : events = <<code>>
    BY DEF IInv, Typed, Starting, Posted, Controlled, HandleCustomEvent, ServiceAt, DispatcherAt,
           Threads, Codes, Controls
  <2>2. QED  BY <2>1, OneEvent DEF HandleCustomEvent
<1>2. Typed'
  <2>1. events' \in Seq(Codes)
    BY <1>1, NoThreadsTyped
  <2>2. quitting' \in BOOLEAN /\ updater' \in BOOLEAN
    BY DEF IInv, Typed, HandleCustomEvent
  <2>3. QED  BY <2>1, <2>2 DEF IInv, Typed, HandleCustomEvent
<1>3. BeforeLoop'
  BY <1>1 DEF BeforeLoop, HandleCustomEvent
<1>4. Begun'
  BY <1>1 DEF IInv, Begun, DispatcherAt, InLoop, HandleCustomEvent
<1>5. Starting'
  BY <1>1 DEF IInv, Starting, Posted, ServiceAt, DispatcherAt, InLoop,
         HandleCustomEvent
<1>6. Reported'
  BY <1>1 DEF IInv, Reported, InLoop, HandleCustomEvent
<1>7. Posted'
  BY <1>1 DEF IInv, Posted, ServiceAt, DispatcherAt, InLoop, HandleCustomEvent
<1>8. Controlled'
  BY <1>1 DEF IInv, Posted, Controlled, ServiceAt, DispatcherAt,
         HandleCustomEvent
<1>9. Quits'
  BY <1>1 DEF IInv, Starting, Reported, Posted, Controlled, Quits,
         HandleCustomEvent
<1>10. QED  BY <1>2, <1>3, <1>4, <1>5, <1>6, <1>7, <1>8, <1>9 DEF IInv

\* An event is posted.
LEMMA HandlerKeeps == ASSUME NEW t \in Threads, IInv, Handler(t) PROVE IInv'
<1>1. events = <<>> /\ events' = << IF thread[t].code = "SHUTDOWN" THEN "STOP" ELSE thread[t].code >>
  <2>1. events = <<>>
    BY DEF IInv, Starting, Controlled, Handler, ServiceAt, DispatcherAt, Threads
  <2>2. QED  BY <2>1, OneEvent DEF Handler
<1>2. Typed'
  BY <1>1 DEF IInv, Typed, Codes, Controls, States, Handler, SetStatus,
         PendingState
<1>3. BeforeLoop'
  BY <1>1 DEF IInv, BeforeLoop, Controlled, ServiceAt, DispatcherAt, Threads,
         Handler
<1>4. Begun'
  BY <1>1 DEF IInv, Begun, ServiceAt, DispatcherAt, InLoop, Handler
<1>5. Starting'
  BY <1>1 DEF IInv, Typed, Starting, ServiceAt, DispatcherAt, InLoop, Threads,
         Handler, SetStatus, PendingState
<1>6. Reported'
  BY <1>1 DEF IInv, Starting, Reported, Quits, ServiceAt, DispatcherAt,
         InLoop, Threads, Handler, SetStatus, PendingState
<1>7. Posted'
  BY <1>1 DEF IInv, Typed, Starting, Posted, Controlled, ServiceAt,
         DispatcherAt, InLoop, Threads, Handler
<1>8. Controlled'
  BY <1>1 DEF IInv, Typed, Controlled, ServiceAt, DispatcherAt, Threads,
         Controls, Handler, SetStatus, PendingState
<1>9. Quits'
  BY <1>1 DEF IInv, Starting, Controlled, Quits, ServiceAt, DispatcherAt,
         Threads, Handler
<1>10. QED  BY <1>2, <1>3, <1>4, <1>5, <1>6, <1>7, <1>8, <1>9 DEF IInv

\* The state is reported.
LEMMA HandlerWokenKeeps == ASSUME NEW t \in Threads, IInv, HandlerWoken(t) PROVE IInv'
<1>1. Typed'
  BY DEF IInv, Typed, States, HandlerWoken, SetStatus, ReachedState
<1>2. BeforeLoop'
  BY DEF IInv, BeforeLoop, ServiceAt, DispatcherAt, Threads, NoThreads,
         HandlerWoken
<1>3. Begun'
  BY DEF IInv, Begun, ServiceAt, DispatcherAt, InLoop, HandlerWoken
<1>4. Starting'
  BY DEF IInv, Typed, Starting, ServiceAt, DispatcherAt, InLoop, Threads,
         HandlerWoken
<1>5. Reported'
  BY DEF IInv, Starting, Reported, Controlled, Quits, ServiceAt, DispatcherAt,
         InLoop, Threads, HandlerWoken, SetStatus, ReachedState
<1>6. Posted'
  BY DEF IInv, Posted, ServiceAt, DispatcherAt, InLoop, HandlerWoken
<1>7. Controlled'
  BY DEF IInv, Controlled, ServiceAt, DispatcherAt, Threads, HandlerWoken
<1>8. Quits'
  BY DEF IInv, Starting, Controlled, Quits, ServiceAt, DispatcherAt, InLoop,
         Threads, HandlerWoken, ReachedState
<1>9. QED  BY <1>1, <1>2, <1>3, <1>4, <1>5, <1>6, <1>7, <1>8 DEF IInv

\* The status is reported again.
LEMMA HandlerReportsKeeps == ASSUME NEW t \in Threads, IInv, HandlerReports(t) PROVE IInv'
<1>1. Typed'
  BY DEF IInv, Typed, HandlerReports
<1>2. BeforeLoop'
  BY DEF IInv, BeforeLoop, ServiceAt, DispatcherAt, NoThreads, HandlerReports
<1>3. Begun'
  BY DEF IInv, BeforeLoop, Begun, ServiceAt, DispatcherAt, InLoop,
         HandlerReports
<1>4. Starting'
  BY DEF IInv, Starting, ServiceAt, DispatcherAt, InLoop, Threads,
         HandlerReports
<1>5. Reported'
  BY DEF IInv, Reported, InLoop, HandlerReports
<1>6. Posted'
  BY DEF IInv, Posted, ServiceAt, DispatcherAt, InLoop, HandlerReports
<1>7. Controlled'
  BY DEF IInv, Reported, Posted, Controlled, ServiceAt, DispatcherAt, InLoop,
         HandlerReports
<1>8. Quits'
  BY DEF IInv, Quits, DispatcherAt, InLoop, HandlerReports
<1>9. QED  BY <1>1, <1>2, <1>3, <1>4, <1>5, <1>6, <1>7, <1>8 DEF IInv

\* A control is delivered.
LEMMA DeliverKeeps == ASSUME NEW code \in Controls, IInv, Takes(code), Deliver(code), shutdown => shutdown', code = "SHUTDOWN" => shutdown',
           UNCHANGED <<scm, status, main, startSemaphore, startSemaphore2, events, quitting, updater>>
    PROVE IInv'
<1>1. Typed'
  BY DEF IInv, Typed, Codes, Deliver
<1>2. BeforeLoop'
  BY DEF IInv, BeforeLoop, Takes
<1>3. Begun'
  BY DEF IInv, Typed, Begun, DispatcherAt, Threads, Deliver
<1>4. Starting'
  BY DEF IInv, Starting, ServiceAt, InLoop, Takes, Deliver
<1>5. Reported'
  BY DEF IInv, Reported, InLoop
<1>6. Posted'
  BY DEF IInv, Posted, ServiceAt, DispatcherAt, Deliver
<1>7. Controlled'
  BY DEF IInv, Typed, BeforeLoop, Starting, Reported, Posted, Controlled,
         Quits, ServiceAt, DispatcherAt, InLoop, Takes, Deliver
<1>8. Quits'
  BY DEF IInv, Reported, Quits, DispatcherAt, InLoop, Takes, Deliver
<1>9. QED  BY <1>1, <1>2, <1>3, <1>4, <1>5, <1>6, <1>7, <1>8 DEF IInv

\* The process is gone.
LEMMA GoneKeeps == ASSUME IInv, Gone PROVE IInv'
<1>1. Typed'
  <2>1. thread' = NoThreads /\ events' = <<>>
    BY DEF Gone
  <2>2. /\ scm' \in States /\ status' \in States
        /\ startSemaphore' \in 0 .. 1 /\ startSemaphore2' \in 0 .. 1
        /\ main' = "none"
    BY DEF Gone, States
  <2>3. quitting' \in BOOLEAN /\ updater' \in BOOLEAN
    BY Zenon DEF Gone
  <2>4. QED  BY <2>1, <2>2, <2>3, NoThreadsTyped DEF Typed
<1>2. BeforeLoop'
  BY DEF BeforeLoop, ServiceAt, Threads, NoThreads, Gone
<1>3. Begun'
  BY DEF Begun, InLoop, Gone
<1>4. Starting'
  BY DEF Starting, ServiceAt, InLoop, Threads, NoThreads, Gone
<1>5. Reported'
  BY DEF Reported, InLoop, Gone
<1>6. Posted'
  BY DEF Posted, DispatcherAt, Threads, NoThreads, Gone
<1>7. Controlled'
  BY DEF Controlled, DispatcherAt, Threads, NoThreads, Gone
<1>8. Quits'
  BY DEF Quits, Gone
<1>9. QED  BY <1>1, <1>2, <1>3, <1>4, <1>5, <1>6, <1>7, <1>8 DEF IInv

-----------------------------------------------------------------------------
(***************************************************************************)
(* The invariant, and what follows from it.                                *)
(***************************************************************************)

LEMMA InitHolds == Init => IInv
<1> SUFFICES ASSUME Init PROVE IInv  OBVIOUS
<1>1. Typed
  <2>1. quitting \in BOOLEAN /\ updater \in BOOLEAN
    BY Zenon DEF Init
  <2>2. QED  BY <2>1, NoThreadsTyped DEF Init, Typed, States
<1>2. ServiceAt = "none" /\ DispatcherAt = "none"
  BY DEF Init, ServiceAt, DispatcherAt, NoThreads, Threads
<1>3. BeforeLoop /\ Begun /\ Starting /\ Reported /\ Posted /\ Controlled /\ Quits
  BY <1>2 DEF Init, BeforeLoop, Begun, Starting, Reported, Posted, Controlled, Quits, InLoop
<1>4. QED  BY <1>1, <1>3 DEF IInv

\* A controller's call, its delivery, its return and its polls.
LEMMA ControllerKeeps ==
    ASSUME NEW c \in Controllers, IInv, Called,
           \/ Stop(c) \/ Pause(c) \/ Resume(c) \/ SendCommand(c)
           \/ ControlService(c) \/ Returns(c) \/ Poll(c)
    PROVE  IInv'
<1>1. CASE Stop(c) \/ Pause(c) \/ Resume(c) \/ SendCommand(c)
  BY <1>1, OutsideKeeps DEF Stop, Pause, Resume, SendCommand, Asks
<1>2. CASE Returns(c) \/ Poll(c)
  BY <1>2, OutsideKeeps DEF Returns, Poll
<1>3. CASE ControlService(c)
  <2>1. CASE Takes(caller[c].code)
    <3>1. caller[c].code \in Controls /\ caller[c].code # "SHUTDOWN"
      BY DEF Called, Call
    <3>2. QED  BY <1>3, <2>1, <3>1, DeliverKeeps DEF ControlService
  <2>2. CASE ~Takes(caller[c].code)
    BY <1>3, <2>2, OutsideKeeps DEF ControlService, processVars
  <2>3. QED  BY <2>1, <2>2
<1>4. QED  BY <1>1, <1>2, <1>3

LEMMA StepKeeps == IInv /\ Called /\ [Next]_vars => IInv'
<1> SUFFICES ASSUME IInv, Called, [Next]_vars PROVE IInv'  OBVIOUS
<1>1. CASE UNCHANGED vars
  BY <1>1, OutsideKeeps DEF vars
<1>2. CASE Install \/ Uninstall
  BY <1>2, OutsideKeeps DEF Install, Uninstall
<1>3. CASE Shutdown
  BY <1>3, DeliverKeeps DEF Shutdown, Controls
<1>4. CASE Boot \/ Crash \/ Exit
  BY <1>4, GoneKeeps DEF Boot, Crash, Exit
<1>5. CASE Start
  BY <1>5, StartKeeps
<1>6. ASSUME NEW c \in Controllers,
             \/ Stop(c) \/ Pause(c) \/ Resume(c) \/ SendCommand(c)
             \/ ControlService(c) \/ Returns(c) \/ Poll(c)
      PROVE  IInv'
  BY <1>6, ControllerKeeps
<1>7. CASE Main
  BY <1>4, <1>7, AcquireKeeps, HandleCustomEventKeeps, WakeAllKeeps, LeaveLoopKeeps,
     ReportStoppedKeeps, JoinKeeps DEF Main
<1>8. CASE Dispatcher \/ ServiceThread
  BY <1>8, RunDispatcherKeeps, DispatcherReturnsKeeps, ServiceMainKeeps, StartupKeeps,
     HandlerKeeps, HandlerWokenKeeps, HandlerReportsKeeps
     DEF Dispatcher, ServiceThread, Service, Threads
<1>9. QED  BY <1>1, <1>2, <1>3, <1>4, <1>5, <1>6, <1>7, <1>8 DEF Next

LEMMA CallsKeep == Called /\ [Next]_vars => Called'
<1> SUFFICES ASSUME Called, [Next]_vars PROVE Called'  OBVIOUS
<1> USE DEF Called
<1>1. NoCall \in Call
  BY DEF NoCall, Call, Controls
<1>2. ASSUME NEW c \in Controllers, Stop(c) \/ Pause(c) \/ Resume(c) \/ SendCommand(c)
      PROVE  Called'
  <2>1. PICK code \in Controls \ {"SHUTDOWN"} : Asks(c, code)
    BY <1>2 DEF Stop, Pause, Resume, SendCommand, Controls
  <2>2. [NoCall EXCEPT !.code = code, !.pc = "asked"] \in Call
    BY DEF NoCall, Call
  <2>3. QED  BY <2>1, <2>2 DEF Asks
<1>3. ASSUME NEW c \in Controllers, ControlService(c) \/ Returns(c) \/ Poll(c)
      PROVE  Called'
  <2>1. caller[c] \in Call
    OBVIOUS
  <2>2. /\ [caller[c] EXCEPT !.pc = "control"] \in Call
        /\ [caller[c] EXCEPT !.pc = "poll"] \in Call
        /\ [caller[c] EXCEPT !.polls = caller[c].polls + 1] \in Call
    BY <2>1 DEF Call
  <2>3. CASE ControlService(c)
    BY <1>1, <2>2, <2>3 DEF ControlService
  <2>4. CASE Returns(c)
    BY <1>1, <2>2, <2>4 DEF Returns
  <2>5. CASE Poll(c)
    <3>1. CASE scm = "STOPPED" \/ caller[c].polls = MaxPolls
      <4>1. caller' = [caller EXCEPT ![c] = NoCall]
        BY <2>5, <3>1 DEF Poll
      <4>2. QED  BY <1>1, <4>1
    <3>2. CASE ~(scm = "STOPPED" \/ caller[c].polls = MaxPolls)
      <4>1. caller' = [caller EXCEPT ![c] = [caller[c] EXCEPT !.polls = caller[c].polls + 1]]
        BY <2>5, <3>2 DEF Poll
      <4>2. QED  BY <2>2, <4>1
    <3>3. QED  BY <3>1, <3>2
  <2>6. QED  BY <1>3, <2>3, <2>4, <2>5
<1>4. CASE Boot
  BY <1>1, <1>4 DEF Boot
<1>5. CASE UNCHANGED caller
  BY <1>5
<1>6. QED
  BY <1>2, <1>3, <1>4, <1>5
     DEF Next, vars, Install, Uninstall, Start, Shutdown, Crash, Main, Acquire, HandleCustomEvent,
         WakeAll, LeaveLoop, ReportStopped, Join, Exit, Dispatcher, RunDispatcher, DispatcherReturns,
         ServiceThread, ServiceMain, Startup, Service, Handler, HandlerWoken, HandlerReports

LEMMA Invariant == Steps => [](IInv /\ Called)
<1>1. Init => Called
  BY DEF Init, Called, NoCall, Call, Controls
<1>2. QED  BY <1>1, InitHolds, StepKeeps, CallsKeep, PTL DEF Steps

\* The event loop is never left while a thread waits for it in handler(), so
\* that sysCleanup() never deletes the mutex and the condition of a wait: a
\* control is taken only when the status allows it, and the status allows none
\* from the stop's report to the end.
THEOREM NobodyWaitsForever == Steps => []NobodyIsLeftWaiting
<1>1. ASSUME IInv PROVE NobodyIsLeftWaiting
  BY <1>1 DEF IInv, NobodyIsLeftWaiting, Starting, Quits, ServiceAt, DispatcherAt, InLoop, Threads
<1>2. QED  BY <1>1, Invariant, PTL

\* A service that the manager calls stopped, which makes stop() of a controller
\* return true and a second start possible, updates nothing.
THEOREM StoppedIsIdle == Steps => []StoppedMeansNoUpdate
<1>1. ASSUME IInv PROVE StoppedMeansNoUpdate
  BY <1>1 DEF IInv, Typed, StoppedMeansNoUpdate, BeforeLoop, Reported, Quits, InLoop
<1>2. QED  BY <1>1, Invariant, PTL

\* What the manager keeps to itself.
Managed == shutdown \in BOOLEAN /\ registered \in {"no", "yes", "marked"}

LEMMA ManagerKeeps == Managed /\ [Next]_vars => Managed'
<1> SUFFICES ASSUME Managed, [Next]_vars PROVE Managed'  OBVIOUS
<1>1. shutdown' \in BOOLEAN
  <2>1. CASE Shutdown \/ Boot
    BY Zenon, <2>1 DEF Shutdown, Boot
  <2>2. CASE UNCHANGED shutdown
    BY <2>2 DEF Managed
  <2>3. QED
    BY <2>1, <2>2
       DEF Next, vars, Install, Uninstall, Start, Stop, Pause, Resume, SendCommand, Asks,
           ControlService, Returns, Poll, Crash, Main, Acquire, HandleCustomEvent, WakeAll, LeaveLoop,
           ReportStopped, Join, Exit, Dispatcher, RunDispatcher, DispatcherReturns, ServiceThread,
           ServiceMain, Startup, Service, Handler, HandlerWoken, HandlerReports
<1>2. registered' \in {"no", "yes", "marked"}
  <2>1. CASE Install \/ Uninstall \/ Boot \/ Crash \/ Exit
    BY <2>1 DEF Managed, Install, Uninstall, Boot, Crash, Exit, Gone
  <2>2. CASE UNCHANGED registered
    BY <2>2 DEF Managed
  <2>3. QED
    BY <2>1, <2>2
       DEF Next, vars, Start, Shutdown, Stop, Pause, Resume, SendCommand, Asks, ControlService,
           Returns, Poll, Main, Acquire, HandleCustomEvent, WakeAll, LeaveLoop, ReportStopped, Join,
           Dispatcher, RunDispatcher, DispatcherReturns, ServiceThread, ServiceMain, Startup, Service,
           Handler, HandlerWoken, HandlerReports
<1>3. QED  BY <1>1, <1>2 DEF Managed

\* stop() asks again MaxPolls times at most.
Polled == \A c \in Controllers : caller[c].polls <= MaxPolls

LEMMA PollsKeep ==
    ASSUME MaxPolls \in Nat, Called, Polled, [Next]_vars PROVE Polled'
<1> USE DEF Called
<1>1. NoCall.polls <= MaxPolls
  BY DEF NoCall
<1>2. ASSUME NEW c \in Controllers, NEW call, call.polls <= MaxPolls,
             caller' = [caller EXCEPT ![c] = call]
      PROVE  Polled'
  BY <1>2 DEF Polled
<1>3. ASSUME NEW c \in Controllers, Stop(c) \/ Pause(c) \/ Resume(c) \/ SendCommand(c)
      PROVE  Polled'
  <2>1. PICK code : Asks(c, code)
    BY <1>3 DEF Stop, Pause, Resume, SendCommand
  <2>2. [NoCall EXCEPT !.code = code, !.pc = "asked"].polls <= MaxPolls
    BY DEF NoCall
  <2>3. QED  BY <1>2, <2>1, <2>2 DEF Asks
<1>4. ASSUME NEW c \in Controllers, ControlService(c) \/ Returns(c) \/ Poll(c) PROVE Polled'
  <2>1. caller[c] \in Call /\ caller[c].polls <= MaxPolls
    BY DEF Polled
  <2>2. /\ [caller[c] EXCEPT !.pc = "control"].polls <= MaxPolls
        /\ [caller[c] EXCEPT !.pc = "poll"].polls <= MaxPolls
    BY <2>1 DEF Call
  <2>3. caller[c].polls # MaxPolls => [caller[c] EXCEPT !.polls = @ + 1].polls <= MaxPolls
    BY <2>1 DEF Call
  <2>4. CASE ControlService(c)
    <3>1. \/ caller' = [caller EXCEPT ![c] = [caller[c] EXCEPT !.pc = "control"]]
          \/ caller' = [caller EXCEPT ![c] = NoCall]
      BY <2>4 DEF ControlService
    <3>2. QED  BY Zenon, <1>1, <1>2, <2>2, <3>1
  <2>5. CASE Returns(c)
    <3>1. \/ caller' = [caller EXCEPT ![c] = [caller[c] EXCEPT !.pc = "poll"]]
          \/ caller' = [caller EXCEPT ![c] = NoCall]
      BY <2>5 DEF Returns
    <3>2. QED  BY Zenon, <1>1, <1>2, <2>2, <3>1
  <2>6. CASE Poll(c)
    <3>1. CASE scm = "STOPPED" \/ caller[c].polls = MaxPolls
      <4>1. caller' = [caller EXCEPT ![c] = NoCall]
        BY <2>6, <3>1 DEF Poll
      <4>2. QED  BY Zenon, <1>1, <1>2, <4>1
    <3>2. CASE ~(scm = "STOPPED" \/ caller[c].polls = MaxPolls)
      <4>1. caller' = [caller EXCEPT ![c] = [caller[c] EXCEPT !.polls = @ + 1]]
        BY <2>6, <3>2 DEF Poll
      <4>2. QED  BY Zenon, <1>2, <2>3, <3>2, <4>1
    <3>3. QED  BY <3>1, <3>2
  <2>7. QED  BY <1>4, <2>4, <2>5, <2>6
<1>5. CASE Boot
  BY <1>1, <1>5 DEF Boot, Polled
<1>6. CASE UNCHANGED caller
  BY <1>6 DEF Polled
<1>7. QED
  BY <1>2, <1>3, <1>4, <1>5, <1>6
     DEF Next, vars, Install, Uninstall, Start, Shutdown, Crash, Main, Acquire, HandleCustomEvent,
         WakeAll, LeaveLoop, ReportStopped, Join, Exit, Dispatcher, RunDispatcher, DispatcherReturns,
         ServiceThread, ServiceMain, Startup, Service, Handler, HandlerWoken, HandlerReports

\* Every variable stays within its type: above all, the three threads are at no
\* place that is not in the code, and no controller asks the status more often
\* than the loop in stop() does.
THEOREM WindowsTypes == ASSUME MaxPolls \in Nat PROVE Steps => []TypeOK
<1>1. Init => Managed /\ Polled
  <2>1. Init => shutdown \in BOOLEAN
    BY Zenon DEF Init
  <2>2. QED  BY <2>1 DEF Init, Managed, Polled, NoCall
<1>2. ASSUME Called, Polled, [Next]_vars PROVE Polled'
  BY <1>2, PollsKeep
<1>3. ASSUME IInv, Called, Managed, Polled PROVE TypeOK
  <2>1. ASSUME NEW c \in Controllers
        PROVE  caller[c] \in [code : Controls, polls : 0 .. MaxPolls,
                              pc : {"idle", "asked", "control", "poll"}]
    BY <1>3 DEF Called, Call, Polled
  <2>2. caller \in [Controllers -> [code : Controls, polls : 0 .. MaxPolls,
                                    pc : {"idle", "asked", "control", "poll"}]]
    BY <1>3, <2>1 DEF Called
  <2>3. QED  BY Zenon, <1>3, <2>2 DEF TypeOK, IInv, Typed, Managed
<1>4. QED  BY <1>1, <1>2, <1>3, Invariant, ManagerKeeps, PTL DEF Steps

=============================================================================
