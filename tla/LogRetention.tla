---------------------------- MODULE LogRetention ----------------------------
(***************************************************************************)
(* The log files of the service: Logger appends to one file a day, and     *)
(* LoggerDelete removes old ones once a day.  A log is the day it is named *)
(* after, which is the day it was created.  The clock of a box that lay    *)
(* about for long is corrected at any moment, in either direction.         *)
(***************************************************************************)
EXTENDS Integers, FiniteSets

CONSTANTS
    MaxDay,         \* bound: the days the clock can show are 0 .. MaxDay
    Kept,           \* the number of logs that always stay (10 in the code)
    DefaultDays,    \* defaultLoggerDays
    Settings        \* the values of loggerDeleteDays found in mediabox.conf

ASSUME LogRetentionAssumption ==
    /\ MaxDay \in Nat /\ Kept \in Nat /\ DefaultDays \in Nat \ {0}
    /\ Settings \subseteq Int

VARIABLES
    day,        \* the day the clock shows
    logs,       \* the days of the files in logs/
    deleteDays, \* loggerDeleteDays in mediabox.conf
    deleter     \* the LoggerDelete of this process exists, its timers run

logVars == <<day, logs, deleteDays, deleter>>

Day == 0 .. MaxDay

LogTypeOK ==
    /\ day \in Day
    /\ logs \subseteq Day
    /\ deleteDays \in Settings \cup {DefaultDays}
    /\ deleter \in BOOLEAN

LogInit ==
    /\ day \in Day
    /\ logs = {}
    /\ deleteDays \in Settings
    /\ deleter = FALSE

\* ~Logger(): the text is appended to the file of the day, if it opens, and
\* LoggerDelete::Instance() comes into being.
WriteLog ==
    /\ logs' \in {logs, logs \cup {day}}
    /\ deleter' = TRUE
    /\ UNCHANGED <<day, deleteDays>>

\* StationManager::setLogDeleteDays().
SetLogDeleteDays ==
    /\ \E days \in Settings :
          deleteDays' = IF days < 1 THEN DefaultDays ELSE days
    /\ UNCHANGED <<day, logs, deleter>>

\* StationManager::loggerDeleteDays(): the file may have been edited by hand.
LoggerDeleteDays == IF deleteDays < 1 THEN DefaultDays ELSE deleteDays

\* Mutant of Candidates: the sort is the other way round.
CandidatesAscending == {d \in logs : Cardinality({e \in logs : e < d}) >= Kept}

\* All but the newest.
Candidates == {d \in logs : Cardinality({e \in logs : e > d}) >= Kept}

\* dayX.addDays(backDays): the days are added to today, so that every log not
\* dated in the future is older than that.
DayX == day + LoggerDeleteDays

\* deleteLogs(): 10 ms after the first line of log, and then once a day.
DeleteLogs ==
    /\ deleter
    /\ logs' = logs \ (IF Cardinality(logs) <= Kept THEN {}
                       ELSE {d \in Candidates : d < DayX})
    /\ UNCHANGED <<day, deleteDays, deleter>>

\* A day passes, or somebody sets the clock.
ClockMoves ==
    /\ day' \in Day
    /\ UNCHANGED <<logs, deleteDays, deleter>>

-----------------------------------------------------------------------------

\* The comment at loggerdelete.cpp:33-40 promises that the newest logs stay
\* whatever their date.  So a log that goes, by whatever sequence of clock
\* corrections, restarts and settings, leaves Kept newer ones behind.
NewestKept ==
    [][ \A d \in logs \ logs' :
            Cardinality({e \in logs' : e > d}) >= Kept ]_logVars

=============================================================================
