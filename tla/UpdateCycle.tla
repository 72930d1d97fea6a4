----------------------------- MODULE UpdateCycle -----------------------------
(***************************************************************************)
(* What starts the updates: UpdateController asks the account server for   *)
(* the login of the FTP server, through an AccountManager that it makes    *)
(* anew each time, and runs a session of DownloadManager with the answer.  *)
(* The Eventer asks the same server, through an AccountManager of its own, *)
(* where its reports go.  Both keep the last good answer in account.dat,   *)
(* encrypted, and fall back on it when the server cannot be reached.       *)
(*                                                                         *)
(* All of this runs in the main thread, except dataUpdate() and the retry  *)
(* of the Eventer, which run in a thread of their own.  A session is seen  *)
(* from outside: it begins, and ends with the signal startTimer, once, as  *)
(* DownloadSession shows.                                                  *)
(***************************************************************************)
EXTENDS SimpleCrypt

CONSTANTS
    Full,       \* the answer with the FTP login and the address for reports
    Bare,       \* "{}": an answer without either
    Refusal,    \* an answer with the key "error"
    Garbage,    \* not JSON
    Randoms     \* what qrand() may return

Answers == {Full, Bare, Refusal, Garbage}

ASSUME UpdateCycleAssumption ==
    /\ Answers \subseteq Seq(Byte) \ {<<>>}
    /\ Full \notin {Bare, Refusal, Garbage}
    /\ Bare \notin {Refusal, Garbage}
    /\ Refusal # Garbage
    /\ Randoms \subseteq Byte /\ Randoms # {}

VARIABLES
    conf,       \* mediabox.conf: acid and acidh are given; a box id of at least 1
    file,       \* account.dat: its ciphertext, and the damage it has taken
    saved,      \* history: the text last given to saveCache()
    boot,       \* the first start() is posted
    timer,      \* mUpdateTimer is running
    session,    \* a session of DownloadManager is under way
    account,    \* the AccountManager of each user
    reporting   \* the Eventer: its serverUri, and the retry it has armed

cycleVars == <<conf, file, saved, boot, timer, session, account, reporting>>

\* AccountManager::ERRORS.
Errors == {"NoError", "ReplyError", "ParseJsonError", "AnswerJsonError",
           "LoginPasswordError", "ReplyIsEmpty"}

\* "controller" is UpdateController::mAccountManager, "eventer" is
\* Eventer::account.
Users == {"controller", "eventer"}

\* state: "none"; "asking" (mReqTimeoutTimer runs); "ready" (requestReady is
\* queued); "done".  named: mJsonData holds the values asked for.
Account == [state : {"none", "asking", "ready", "done"}, error : Errors, named : BOOLEAN]

NoAccount == [state |-> "none", error |-> "NoError", named |-> FALSE]

Damage == {"none", "flags", "other"}

NoFile == [cipher |-> <<>>, damage |-> "none"]

\* The Eventer's serverUri before the answer, without and with an address.
Uris == {"unknown", "empty", "given"}

CycleTypeOK ==
    /\ conf \in [login : BOOLEAN, box : BOOLEAN]
    /\ file.damage \in Damage
    /\ saved \in {<<>>} \cup Answers
    /\ boot \in BOOLEAN /\ timer \in BOOLEAN /\ session \in BOOLEAN
    /\ account \in [Users -> Account]
    /\ reporting \in [uri : Uris, retry : BOOLEAN]

Quiet == [uri |-> "unknown", retry |-> FALSE]

\* LmMediaUpdaterService::start() makes the UpdateController, on a box that was
\* just installed.
CycleInit ==
    /\ conf \in [login : BOOLEAN, box : BOOLEAN]
    /\ file = NoFile /\ saved = <<>>
    /\ boot = TRUE /\ timer = FALSE /\ session = FALSE
    /\ account = [u \in Users |-> NoAccount]
    /\ reporting = Quiet

-----------------------------------------------------------------------------
(***************************************************************************)
(* AccountManager.                                                         *)
(***************************************************************************)

\* Mutant of Request: mError keeps what the constructor left in it.
RequestUnreset ==
    IF conf.login
    THEN [NoAccount EXCEPT !.state = "asking", !.error = "unset"]
    ELSE [NoAccount EXCEPT !.state = "done", !.error = "LoginPasswordError"]

\* request(): without a login there is no request and no answer ever.
Request ==
    IF conf.login
    THEN [NoAccount EXCEPT !.state = "asking"]
    ELSE [NoAccount EXCEPT !.state = "done", !.error = "LoginPasswordError"]

\* parseJson() of a text, in an AccountManager that has just been asked.
ParseJson(text) ==
    [state |-> "ready",
     error |-> CASE text = Refusal         -> "AnswerJsonError"
                 [] text \in {Full, Bare}  -> "NoError"
                 [] OTHER                  -> "ParseJsonError",
     named |-> text = Full]

\* SettingsStore::value() and setValue(), as tables.
Stored == [k \in Answers \X Randoms |-> Encrypt(k[1], k[2])]

Read ==
    [cipher \in UNION {{c} \cup Damages(c) : c \in {Stored[k] : k \in DOMAIN Stored}}
        |-> Decrypt(cipher)]

\* tryLoadCache().
Cached == IF file.cipher = <<>> THEN <<>> ELSE Read[file.cipher]

\* saveCache().
SaveCache(text) ==
    /\ \E r \in Randoms : file' = [NoFile EXCEPT !.cipher = Stored[<<text, r>>]]
    /\ saved' = text

\* replyFinished() with an answer.  Mutant: it is saved before it is looked at.
ReplySavedFirst(user, text) ==
    IF text = <<>>
    THEN /\ account' = [account EXCEPT ![user].state = "ready",
                                       ![user].error = "ReplyIsEmpty"]
         /\ UNCHANGED <<file, saved>>
    ELSE /\ account' = [account EXCEPT ![user] = ParseJson(text)]
         /\ SaveCache(text)

Reply(user, text) ==
    IF text = <<>>
    THEN /\ account' = [account EXCEPT ![user].state = "ready",
                                       ![user].error = "ReplyIsEmpty"]
         /\ UNCHANGED <<file, saved>>
    ELSE /\ account' = [account EXCEPT ![user] = ParseJson(text)]
         /\ IF ParseJson(text).error = "NoError"
            THEN SaveCache(text)
            ELSE UNCHANGED <<file, saved>>

\* replyFinished() with an error, or after the timeout: the cache answers.
FallBack(user) ==
    /\ account' = [account EXCEPT ![user] =
                      IF Cached = <<>>
                      THEN [@ EXCEPT !.state = "ready", !.error = "ReplyError"]
                      ELSE ParseJson(Cached)]
    /\ UNCHANGED <<file, saved>>

Asking(user) == account[user].state = "asking"

ReplyFinished(user) ==
    /\ Asking(user)
    /\ \E text \in Answers \cup {<<>>} : Reply(user, text)
    /\ UNCHANGED <<conf, boot, timer, session, reporting>>

ReplyFails(user) ==
    /\ Asking(user)
    /\ FallBack(user)
    /\ UNCHANGED <<conf, boot, timer, session, reporting>>

\* requestTimeout(): abort() finishes the reply before it returns.
RequestTimeout(user) ==
    /\ Asking(user)
    /\ FallBack(user)
    /\ UNCHANGED <<conf, boot, timer, session, reporting>>

-----------------------------------------------------------------------------
(***************************************************************************)
(* UpdateController.                                                       *)
(***************************************************************************)

\* EventerController::send(): the first one makes the Eventer, whose
\* constructor asks for the address at once.
SendBy(accounts) ==
    IF accounts["eventer"].state = "none"
    THEN [accounts EXCEPT !["eventer"] = Request]
    ELSE accounts

\* start(), from the first posted call or from mUpdateTimer.  A request that is
\* not made starts the timer again.
Start ==
    /\ boot \/ timer
    /\ boot' = FALSE
    /\ account' = [account EXCEPT !["controller"] = Request]
    /\ timer' = (Request.state = "done")
    /\ UNCHANGED <<conf, file, saved, session, reporting>>

Consumed(accounts) == [accounts EXCEPT !["controller"] = NoAccount]

\* accountManagerReady().  Mutants: no timer when the account is refused; no
\* return when the box is unknown.
ReadyUntimed ==
    /\ account["controller"].state = "ready"
    /\ IF account["controller"].error # "NoError"
       THEN account' = SendBy(Consumed(account)) /\ UNCHANGED <<timer, session>>
       ELSE /\ timer' = ~conf.box
            /\ session' = conf.box
            /\ account' = IF conf.box THEN SendBy(Consumed(account)) ELSE Consumed(account)
    /\ UNCHANGED <<conf, file, saved, boot, reporting>>

ReadyOnward ==
    /\ account["controller"].state = "ready"
    /\ timer' = (account["controller"].error # "NoError" \/ ~conf.box)
    /\ session' = (account["controller"].error = "NoError")
    /\ account' = SendBy(Consumed(account))
    /\ UNCHANGED <<conf, file, saved, boot, reporting>>

AccountManagerReady ==
    /\ account["controller"].state = "ready"
    /\ LET refused == account["controller"].error # "NoError"
       IN  /\ timer' = (refused \/ ~conf.box)
           /\ session' = (~refused /\ conf.box)
           /\ account' = IF refused \/ conf.box
                         THEN SendBy(Consumed(account))
                         ELSE Consumed(account)
    /\ UNCHANGED <<conf, file, saved, boot, reporting>>

\* DownloadManager emits startTimer.
SessionEnds ==
    /\ session
    /\ session' = FALSE
    /\ timer' = TRUE
    /\ UNCHANGED <<conf, file, saved, boot, account, reporting>>

-----------------------------------------------------------------------------
(***************************************************************************)
(* Eventer.                                                                *)
(***************************************************************************)

\* dataUpdate(): serverUri is getValue("ReportURI").
DataUpdate ==
    /\ account["eventer"].state = "ready"
    /\ account' = [account EXCEPT !["eventer"].state = "done"]
    /\ reporting' = IF account["eventer"].named
                    THEN [reporting EXCEPT !.uri = "given"]
                    ELSE [uri |-> "empty", retry |-> TRUE]
    /\ UNCHANGED <<conf, file, saved, boot, timer, session>>

\* getServerUri() five minutes later: account is not null, and nobody is asked.
GetServerUri ==
    /\ reporting.retry
    /\ reporting' = [reporting EXCEPT !.retry = FALSE]
    /\ account' = SendBy(account)
    /\ UNCHANGED <<conf, file, saved, boot, timer, session>>

-----------------------------------------------------------------------------
(***************************************************************************)
(* The world around.                                                       *)
(***************************************************************************)

\* The tools of the box store another login (saveLogin()) and password
\* (savePassword(), empty or not) or another box id (setBoxId()).
SaveLogin ==
    /\ \E given \in BOOLEAN : conf' = [conf EXCEPT !.login = given]
    /\ UNCHANGED <<file, saved, boot, timer, session, account, reporting>>

SetBoxId ==
    /\ \E known \in BOOLEAN : conf' = [conf EXCEPT !.box = known]
    /\ UNCHANGED <<file, saved, boot, timer, session, account, reporting>>

\* A fault of the disk in account.dat.
DiskFault ==
    /\ file.cipher # <<>> /\ file.damage = "none"
    /\ \E c \in Damages(file.cipher) :
          file' = [cipher |-> c,
                   damage |-> IF c.flags # file.cipher.flags THEN "flags" ELSE "other"]
    /\ UNCHANGED <<conf, saved, boot, timer, session, account, reporting>>

\* The process dies and is started again; what is on disk stays.
Restart ==
    /\ boot' = TRUE /\ timer' = FALSE /\ session' = FALSE
    /\ account' = [u \in Users |-> NoAccount]
    /\ reporting' = Quiet
    /\ UNCHANGED <<conf, file, saved>>

-----------------------------------------------------------------------------
(***************************************************************************)
(* Properties.                                                             *)
(***************************************************************************)

\* What is read from account.dat is what was last written there or nothing,
\* whichever byte of it a fault has changed: the checksum and the version
\* reject the rest.  The byte of flags is not covered by the checksum.
CacheReadIsSaved ==
    /\ file.damage = "none" => Cached = saved
    /\ file.damage = "other" => Cached = <<>>

\* One thing at a time carries the controller on: a posted call, the timer, a
\* request, its queued answer or a session.  So the queued requestReady finds
\* the AccountManager that emitted it, and start() never finds one in use.
OneThingDue ==
    LET due == <<boot, timer, session,
                 account["controller"].state \in {"asking", "ready"}>>
    IN  \E i \in 1 .. 4 : due[i] /\ \A j \in 1 .. 4 \ {i} : ~due[j]

\* An outage is survived: once an answer has been saved, by either user of the
\* file, no request ends without an answer as long as the file is whole; what
\* has been saved is free of errors, whatever was received since.
OutageUsesCache ==
    [][ saved # <<>> /\ file.damage = "none" =>
            /\ ParseJson(saved).error = "NoError"
            /\ \A u \in Users : Asking(u) => account'[u].error # "ReplyError" ]_cycleVars

\* Whatever the account server does, and whatever is in mediabox.conf, the next
\* start() comes: a request that falls silent times out, and each of the early
\* returns leaves the timer running.
CycleGoesOn == []<>(boot \/ timer)

=============================================================================
