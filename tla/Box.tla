-------------------------------- MODULE Box --------------------------------
(***************************************************************************)
(* The service as a whole, seen from its timers: the cycle of updates and  *)
(* the logs that it writes, on a box whose process may die at any moment.  *)
(***************************************************************************)
EXTENDS UpdateCycle, LogRetention

vars == <<cycleVars, logVars>>

TypeOK == CycleTypeOK /\ LogTypeOK

Init == CycleInit /\ LogInit

Silent == UNCHANGED logVars

\* start() logs a request that is not made.
StartLogged == Start /\ (IF timer' THEN WriteLog ELSE Silent)

\* Every way through accountManagerReady() logs something.
ReadyLogged == AccountManagerReady /\ WriteLog

EndsLogged == SessionEnds /\ WriteLog

\* A session writes a line.
SessionLogs == session /\ WriteLog /\ UNCHANGED cycleVars

RestartAll ==
    /\ Restart
    /\ deleter' = FALSE
    /\ UNCHANGED <<day, logs, deleteDays>>

Cycle ==
    \/ \E u \in Users : ReplyFinished(u) \/ ReplyFails(u) \/ RequestTimeout(u)
    \/ DataUpdate \/ GetServerUri
    \/ SaveLogin \/ SetBoxId \/ DiskFault

Logs == SetLogDeleteDays \/ DeleteLogs \/ ClockMoves

Next ==
    \/ StartLogged \/ ReadyLogged \/ EndsLogged \/ SessionLogs \/ RestartAll
    \/ Cycle /\ Silent
    \/ Logs /\ UNCHANGED cycleVars

\* The event loop runs posted calls and expired timers, and a session ends.
\* Nothing is assumed of the account server.
Fairness ==
    /\ WF_vars(StartLogged)
    /\ WF_vars(ReadyLogged)
    /\ WF_vars(EndsLogged)
    /\ \A u \in Users : WF_vars(RequestTimeout(u) /\ Silent)

Spec == Init /\ [][Next]_vars /\ Fairness

=============================================================================
