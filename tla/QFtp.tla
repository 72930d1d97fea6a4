-------------------------------- MODULE QFtp --------------------------------
(***************************************************************************)
(* QFtp: the queue of commands (QFtpPrivate), the protocol interpreter     *)
(* (QFtpPI), the data connection (QFtpDTP), the server behind two TCP      *)
(* connections, and a client that schedules commands from its slots.       *)
(*                                                                         *)
(* All signals between these objects are direct: an emit calls the slot,   *)
(* which may emit and call in turn, and only when it has returned does the *)
(* emitter go on, with a state that may not be the one it left.  calls is  *)
(* that stack of calls, the running one first; a function whose rest runs  *)
(* after a call has a frame for the rest.  The socket, the posted          *)
(* startNextCommand and the client's timer come in when no call runs.      *)
(***************************************************************************)
EXTENDS Integers, Sequences, FiniteSets

CONSTANTS
    Commands,       \* what the client schedules, besides connect and login
    MaxCommands,    \* bound: identifiers the client uses
    Lines,          \* the kinds of line a listing may have
    MaxLines,       \* bound: lines of a listing
    IPv6            \* the control connection is over IPv6: EPSV before PASV

AllCommands == {"Connect", "Login", "List", "Get", "Cd", "Rename", "Close"}

UnixLines == {"unixFile", "unixDirectory", "unixLink"}
DosLines  == {"dosFile", "dosShortcut", "dosDirectory"}
AllLines  == UnixLines \cup DosLines \cup {"missing", "other"}

ASSUME QFtpAssumption ==
    /\ Commands \subseteq AllCommands \ {"Connect", "Login"}
    /\ MaxCommands \in Nat /\ MaxCommands >= 2
    /\ Lines \subseteq AllLines
    /\ MaxLines \in Nat
    /\ IPv6 \in BOOLEAN

VARIABLES
    ftp,    \* QFtpPrivate: pending, state, error, closeWait; posted calls
    pi,     \* QFtpPI
    dtp,    \* QFtpDTP and its socket
    net,    \* the connections and the server
    calls,  \* the stack of calls in progress
    hist    \* history, for the properties

vars == <<ftp, pi, dtp, net, calls, hist>>

\* The raw commands of an operation; list() and get() in passive mode.
Raw(c) ==
    CASE c = "Connect" -> <<>>
      [] c = "Login"   -> <<"USER", "PASS">>
      [] c = "List"    -> <<"TYPE", "PASV", "LIST">>
      [] c = "Get"     -> <<"TYPE", "SIZE", "PASV", "RETR">>
      [] c = "Cd"      -> <<"CWD">>
      [] c = "Rename"  -> <<"RNFR", "RNTO">>
      [] c = "Close"   -> <<"QUIT">>

RawCommands == {"USER", "PASS", "TYPE", "PASV", "EPSV", "LIST", "SIZE", "RETR",
                "CWD", "RNFR", "RNTO", "QUIT"}

Codes == {120, 150, 200, 202, 213, 220, 221, 226, 227, 229, 230, 250, 331, 350,
          421, 425, 426, 500, 530, 550}

\* A reply, and the serial number of the raw command it answers.
Reply == [code : Codes, to : Nat]

Greeting == [code |-> 220, to |-> 0]

FtpStates == {"Unconnected", "HostLookup", "Connecting", "Connected", "LoggedIn",
              "Closing"}

FtpErrors == {"NoError", "UnknownError", "HostNotFound", "ConnectionRefused",
              "NotConnected"}

\* What listInfo() is told of an entry.
UrlInfo == [file : BOOLEAN, dir : BOOLEAN, symLink : BOOLEAN]

\* A call in progress, with what it holds across the calls it makes.
Frame ==
    {<<f>> : f \in {"startNextCommand", "piFinished", "startNextCmd",
                    "clearPendingCommands", "pendingCleared", "readyRead",
                    "readLines", "processReply", "replyDone", "react",
                    "afterFailure", "clearError", "dtpConnected", "dtpRefused",
                    "afterRefusal", "dtpClosed", "dtpSettled", "dataReadyRead", "listLines"}}
    \cup {"connectState"} \X FtpStates
    \cup {"sendCommands"} \X Seq(RawCommands)
    \cup {"piError"} \X FtpErrors
    \cup {"listInfo"} \X UrlInfo
    \cup {"commandFinished", "commandFailed", "removeFirst"} \X (1 .. MaxCommands)

Private ==
    [pending : Seq([id : 1 .. MaxCommands, cmd : AllCommands]),
     state : FtpStates, error : FtpErrors, closeWait : BOOLEAN, posted : Nat]

Interpreter ==
    [state : {"Begin", "Idle", "Waiting", "Success", "Failure"},
     todo : Seq(RawCommands), cmd : RawCommands \cup {"none"},
     reply : Reply, text : BOOLEAN, extended : BOOLEAN,
     toConnect : BOOLEAN, toClose : BOOLEAN]

DataConnection ==
    [state : {"none", "connecting", "connected", "closed"},
     lines : Seq(Lines), err : BOOLEAN]

Connections ==
    [link : {"none", "lookup", "connecting", "open", "closed"},
     outbox : Seq([cmd : RawCommands, to : Nat]), wire : Seq(Reply), buffer : Seq(Reply),
     port : BOOLEAN, data : Seq(Lines), fin : BOOLEAN, quit : BOOLEAN]

History ==
    [id : 2 .. MaxCommands, current : 0 .. MaxCommands, sent : Nat,
     overrun : BOOLEAN, dataError : BOOLEAN, lost : BOOLEAN, done : BOOLEAN,
     owed : Int, files : Int]

TypeOK ==
    /\ ftp \in Private
    /\ pi \in Interpreter
    /\ dtp \in DataConnection
    /\ net \in Connections
    /\ calls \in Seq(Frame)
    /\ hist \in History

\* connectToFtp() has just scheduled connectToHost() and login().
Init ==
    /\ ftp = [pending |-> << [id |-> 1, cmd |-> "Connect"], [id |-> 2, cmd |-> "Login"] >>,
              state |-> "Unconnected", error |-> "NoError", closeWait |-> FALSE,
              posted |-> 1]
    /\ pi = [state |-> "Begin", todo |-> <<>>, cmd |-> "none", reply |-> Greeting,
             text |-> FALSE, extended |-> TRUE, toConnect |-> FALSE, toClose |-> FALSE]
    /\ dtp = [state |-> "none", lines |-> <<>>, err |-> FALSE]
    /\ net = [link |-> "none", outbox |-> <<>>, wire |-> <<>>, buffer |-> <<>>,
              port |-> FALSE, data |-> <<>>, fin |-> FALSE, quit |-> FALSE]
    /\ calls = <<>>
    /\ hist = [id |-> 2, current |-> 0, sent |-> 0, overrun |-> FALSE,
               dataError |-> FALSE, lost |-> FALSE, done |-> FALSE,
               owed |-> 0, files |-> 0]

Quiet   == calls = <<>>
Runs(f) == ~Quiet /\ Head(calls)[1] = f
Arg     == Head(calls)[2]

\* The running call returns after having called fs, one after the other.
Then(fs) == calls' = fs \o Tail(calls)
Return   == Then(<<>>)

Current == Head(ftp.pending)

-----------------------------------------------------------------------------
(***************************************************************************)
(* QFtpPrivate: the queue of commands.                                     *)
(***************************************************************************)

\* addCommand(): the first command of an empty queue is started by a posted
\* call, for the caller to know its identifier before commandStarted().
AddCommandTo(h, c) ==
    /\ h.id < MaxCommands
    /\ hist' = [h EXCEPT !.id = @ + 1]
    /\ ftp' = [ftp EXCEPT !.pending = Append(@, [id |-> h.id + 1, cmd |-> c]),
                          !.posted = IF ftp.pending = <<>> THEN @ + 1 ELSE @]

AddCommand(c) == AddCommandTo(hist, c)

\* What the last command left unread is cleared.
StartNextCommand ==
    /\ Runs("startNextCommand")
    /\ IF ftp.pending = <<>> THEN Return /\ UNCHANGED <<ftp, dtp, net, hist>>
       ELSE /\ ftp' = [ftp EXCEPT !.error = "NoError",
                                  !.state = IF Current.cmd = "Close" THEN "Closing" ELSE @]
            /\ hist' = [hist EXCEPT !.current = Current.id, !.owed = 0,
                                    !.files = 0, !.done = FALSE]
            /\ IF Current.cmd = "Connect"
               THEN /\ net' = [net EXCEPT !.link = "lookup"]
                    /\ Then(<< <<"connectState", "HostLookup">> >>)
               ELSE /\ Then(<< <<"sendCommands", Raw(Current.cmd)>> >>)
                    /\ UNCHANGED net
            /\ dtp' = [dtp EXCEPT !.lines = <<>>]
    /\ UNCHANGED pi

\* A Close whose QUIT was answered waits for the connection to be closed.
PiFinished ==
    /\ Runs("piFinished")
    /\ IF ftp.pending = <<>> THEN Return /\ UNCHANGED ftp
       ELSE IF Current.cmd = "Close" /\ ftp.state # "Unconnected"
       THEN Return /\ ftp' = [ftp EXCEPT !.closeWait = TRUE]
       ELSE /\ Then(<< <<"commandFinished", Current.id>>, <<"removeFirst", Current.id>> >>)
            /\ UNCHANGED ftp
    /\ UNCHANGED <<pi, dtp, net, hist>>

\* Only a SIZE that fails does not fail its command.
PiError ==
    /\ Runs("piError")
    /\ IF ftp.pending = <<>> \/ (Current.cmd = "Get" /\ pi.cmd = "SIZE")
       THEN Return /\ UNCHANGED ftp
       ELSE /\ ftp' = [ftp EXCEPT !.error = Arg]
            /\ Then(<< <<"clearPendingCommands">>, <<"commandFailed", Current.id>>,
                       <<"removeFirst", Current.id>> >>)
    /\ UNCHANGED <<pi, dtp, net, hist>>

\* The command the running call holds is the first of pending.  Once it is not,
\* the call uses a command that is deleted: what follows is undefined, and the
\* model ends there.
Holds == ftp.pending # <<>> /\ Arg = Current.id

\* Mutant of RemoveFirst: the command scheduled last is removed.
RemoveLast ==
    /\ Runs("removeFirst") /\ Holds
    /\ ftp' = [ftp EXCEPT !.pending = SubSeq(@, 1, Len(@) - 1)]
    /\ hist' = [hist EXCEPT !.current = 0]
    /\ Then(IF Tail(ftp.pending) = <<>> THEN <<>> ELSE << <<"startNextCommand">> >>)
    /\ UNCHANGED <<pi, dtp, net>>

\* pending.removeFirst(), after the slots of commandFinished().
RemoveFirst ==
    /\ Runs("removeFirst") /\ Holds
    /\ ftp' = [ftp EXCEPT !.pending = Tail(@)]
    /\ hist' = [hist EXCEPT !.current = 0]
    /\ Then(IF Tail(ftp.pending) = <<>> THEN <<>> ELSE << <<"startNextCommand">> >>)
    /\ UNCHANGED <<pi, dtp, net>>

\* Mutant of PiConnectState: the Close that waits is forgotten.
ConnectStateOnly ==
    /\ Runs("connectState")
    /\ ftp' = [ftp EXCEPT !.state = Arg, !.closeWait = FALSE]
    /\ Return
    /\ UNCHANGED <<pi, dtp, net, hist>>

PiConnectState ==
    /\ Runs("connectState")
    /\ ftp' = [ftp EXCEPT !.state = Arg, !.closeWait = FALSE]
    /\ Then(IF ftp.closeWait THEN << <<"piFinished">> >> ELSE <<>>)
    /\ UNCHANGED <<pi, dtp, net, hist>>

-----------------------------------------------------------------------------
(***************************************************************************)
(* QFtpPI: sending.                                                        *)
(***************************************************************************)

SendCommands ==
    /\ Runs("sendCommands")
    /\ IF pi.todo # <<>> THEN Return /\ UNCHANGED pi
       ELSE IF net.link # "open" \/ pi.state # "Idle"
       THEN Then(<< <<"piError", "NotConnected">> >>) /\ UNCHANGED pi
       ELSE Then(<< <<"startNextCmd">> >>) /\ pi' = [pi EXCEPT !.todo = Arg]
    /\ UNCHANGED <<ftp, dtp, net, hist>>

NextCmd ==
    IF Head(pi.todo) = "PASV" /\ IPv6 /\ pi.extended THEN "EPSV" ELSE Head(pi.todo)

\* Nothing is sent while the data connection is being made.  "Internal error!
\* QFtpPI called in non-Idle state" is a debugging message only.
StartNextCmd ==
    /\ Runs("startNextCmd")
    /\ IF pi.toConnect THEN Return /\ UNCHANGED <<pi, net, hist>>
       ELSE /\ hist' = [hist EXCEPT !.sent = IF pi.todo = <<>> THEN @ ELSE @ + 1,
                                    !.overrun = @ \/ pi.state # "Idle"]
            /\ IF pi.todo = <<>>
               THEN /\ pi' = [pi EXCEPT !.cmd = "none"]
                    /\ Then(<< <<"piFinished">> >>)
                    /\ UNCHANGED net
               ELSE /\ pi' = [pi EXCEPT !.cmd = NextCmd, !.todo = Tail(@), !.state = "Waiting"]
                    /\ net' = [net EXCEPT !.outbox =
                                   Append(@, [cmd |-> NextCmd, to |-> hist.sent + 1])]
                    /\ Return
    /\ UNCHANGED <<ftp, dtp>>

\* Both clearPendingCommands(): the data connection is aborted first, and if
\* it was connected its disconnected() runs at once.
ClearPendingCommands ==
    /\ Runs("clearPendingCommands")
    /\ pi' = [pi EXCEPT !.todo = <<>>]
    /\ dtp' = [dtp EXCEPT !.state = IF @ = "none" THEN @ ELSE "closed", !.lines = <<>>]
    /\ net' = [net EXCEPT !.data = <<>>, !.fin = FALSE, !.port = FALSE]
    /\ Then((IF dtp.state = "connected" THEN << <<"dtpClosed">> >> ELSE <<>>)
            \o << <<"pendingCleared">> >>)
    /\ UNCHANGED <<ftp, hist>>

\* Mutant of PendingCleared: the command in execution is deleted as well.
AllCleared ==
    /\ Runs("pendingCleared")
    /\ pi' = [pi EXCEPT !.cmd = "none", !.state = "Idle"]
    /\ ftp' = [ftp EXCEPT !.pending = <<>>]
    /\ Return
    /\ UNCHANGED <<dtp, net, hist>>

PendingCleared ==
    /\ Runs("pendingCleared")
    /\ pi' = [pi EXCEPT !.cmd = "none", !.state = "Idle"]
    /\ ftp' = [ftp EXCEPT !.pending = IF @ = <<>> THEN @ ELSE <<Head(@)>>]
    /\ Return
    /\ UNCHANGED <<dtp, net, hist>>

-----------------------------------------------------------------------------
(***************************************************************************)
(* QFtpPI: replies.                                                        *)
(***************************************************************************)

\* A reply that waits for the end of the data connection blocks the reading,
\* but only from the next readyRead() on.
ReadyRead ==
    /\ Runs("readyRead")
    /\ Then(IF pi.toClose THEN <<>> ELSE << <<"readLines">> >>)
    /\ UNCHANGED <<ftp, pi, dtp, net, hist>>

\* With a reply still in replyText every other line is taken for a part of it.
ReadLines ==
    /\ Runs("readLines")
    /\ IF net.buffer = <<>> THEN Return /\ UNCHANGED <<pi, net>>
       ELSE LET line  == Head(net.buffer)
                whole == ~pi.text \/ line.code = pi.reply.code
            IN  /\ net' = [net EXCEPT !.buffer = Tail(@)]
                /\ pi' = IF pi.text THEN pi ELSE [pi EXCEPT !.reply = line, !.text = TRUE]
                /\ calls' = (IF whole THEN << <<"processReply">>, <<"replyDone">> >> ELSE <<>>)
                            \o calls
    /\ UNCHANGED <<ftp, dtp, hist>>

ReplyDone ==
    /\ Runs("replyDone")
    /\ pi' = [pi EXCEPT !.text = FALSE]
    /\ Return
    /\ UNCHANGED <<ftp, dtp, net, hist>>

Code == pi.reply.code

\* A reply that says that the data connection is being closed has to wait
\* until it is, or the end of the data would be lost.
TransferOver == Code = 226 \/ (Code = 250 /\ pi.cmd = "RETR")

\* Mutant of MustWait: the reply is processed at once.
NeverWait == FALSE

MustWait == TransferOver /\ dtp.state \in {"connecting", "connected"}

\* Mutant of StateFor: the first digit itself is the index.
StateForOffByOne(code) ==
    CASE code \div 100 = 1 -> "Success"
      [] code \div 100 = 2 -> "Idle"
      [] code \div 100 \in {3, 4} -> "Failure"
      [] OTHER -> "past the table"

\* The table of RFC 959: preliminary, completion, intermediate, two failures.
StateFor(code) ==
    CASE code \div 100 = 1 -> "Waiting"
      [] code \div 100 = 2 -> IF code = 202 THEN "Failure" ELSE "Success"
      [] code \div 100 = 3 -> "Idle"
      [] OTHER             -> "Failure"

\* processReply() returns false: its caller returns as well, and the reply
\* stays in replyText.
Unprocessed ==
    LET rest == Tail(Tail(calls))
    IN  IF rest # <<>> /\ Head(rest)[1] = "dtpSettled" THEN Tail(rest) ELSE rest

HoldReply ==
    /\ Runs("processReply")
    /\ MustWait
    /\ pi' = [pi EXCEPT !.toClose = TRUE]
    /\ calls' = Unprocessed
    /\ UNCHANGED <<ftp, dtp, net, hist>>

\* The greeting; one that is neither 1yz nor 2yz is not handled.
ProcessGreeting ==
    /\ Runs("processReply")
    /\ ~MustWait
    /\ pi.state = "Begin"
    /\ IF Code \div 100 = 2
       THEN /\ pi' = [pi EXCEPT !.state = "Idle"]
            /\ Then(<< <<"piFinished">>, <<"react">> >>)
       ELSE Return /\ UNCHANGED pi
    /\ UNCHANGED <<ftp, dtp, net, hist>>

\* The reply to a command.  A 227 or 229 may be of a form that is not
\* understood, and then no data connection is made.
ProcessReply ==
    /\ Runs("processReply")
    /\ ~MustWait
    /\ pi.state = "Waiting"
    /\ \/ /\ Code \in {227, 229}
          /\ pi' = [pi EXCEPT !.state = StateFor(Code), !.toConnect = TRUE]
          /\ dtp' = [dtp EXCEPT !.state = "connecting", !.lines = <<>>]
          /\ net' = [net EXCEPT !.data = <<>>, !.fin = FALSE]
          /\ Then(<< <<"react">> >>)
       \/ /\ Code = 230
          /\ pi' = [pi EXCEPT !.state = StateFor(Code),
                              !.todo = IF pi.cmd = "USER" /\ @ # <<>> /\ Head(@) = "PASS"
                                       THEN Tail(@) ELSE @]
          /\ Then(<< <<"connectState", "LoggedIn">>, <<"react">> >>)
          /\ UNCHANGED <<dtp, net>>
       \/ /\ Code # 230
          /\ pi' = [pi EXCEPT !.state = StateFor(Code)]
          /\ Then(<< <<"react">> >>)
          /\ UNCHANGED <<dtp, net>>
    /\ UNCHANGED <<ftp, hist>>

IgnoreReply ==
    /\ Runs("processReply")
    /\ ~MustWait
    /\ pi.state \notin {"Begin", "Waiting"}
    /\ Return
    /\ UNCHANGED <<ftp, pi, dtp, net, hist>>

\* The end of processReply(), after the slots of connectState() and finished().
ReactSuccess ==
    /\ Runs("react")
    /\ pi.state \in {"Success", "Idle"}
    /\ pi' = [pi EXCEPT !.state = "Idle"]
    /\ Then(IF dtp.err THEN << <<"piError", "UnknownError">>, <<"clearError">> >>
            ELSE << <<"startNextCmd">> >>)
    /\ UNCHANGED <<ftp, dtp, net, hist>>

ReactFailure ==
    /\ Runs("react")
    /\ pi.state = "Failure"
    /\ IF pi.cmd = "EPSV"
       THEN /\ pi' = [pi EXCEPT !.extended = FALSE, !.todo = <<"PASV">> \o @]
            /\ Then(<< <<"afterFailure">> >>)
       ELSE /\ Then(<< <<"piError", "UnknownError">>, <<"afterFailure">> >>)
            /\ UNCHANGED pi
    /\ UNCHANGED <<ftp, dtp, net, hist>>

ReactWaiting ==
    /\ Runs("react")
    /\ pi.state = "Waiting"
    /\ Return
    /\ UNCHANGED <<ftp, pi, dtp, net, hist>>

\* Mutant of AfterFailure: a command the error slot scheduled is not noticed.
AfterAnyFailure ==
    /\ Runs("afterFailure")
    /\ pi' = [pi EXCEPT !.state = "Idle"]
    /\ Then(<< <<"startNextCmd">> >>)
    /\ UNCHANGED <<ftp, dtp, net, hist>>

\* Mutant of AfterFailure: so is its own state.
StartAfterFailure ==
    /\ Runs("afterFailure")
    /\ Then(<< <<"startNextCmd">> >>)
    /\ UNCHANGED <<ftp, pi, dtp, net, hist>>

\* The slots of the error may have sent the next command.
AfterFailure ==
    /\ Runs("afterFailure")
    /\ IF pi.state = "Waiting" THEN Return /\ UNCHANGED pi
       ELSE Then(<< <<"startNextCmd">> >>) /\ pi' = [pi EXCEPT !.state = "Idle"]
    /\ UNCHANGED <<ftp, dtp, net, hist>>

\* The rest of that branch, in whatever state the slots of the error have left.
ClearError ==
    /\ Runs("clearError")
    /\ dtp' = [dtp EXCEPT !.err = FALSE]
    /\ Then(<< <<"startNextCmd">> >>)
    /\ UNCHANGED <<ftp, pi, net, hist>>

-----------------------------------------------------------------------------
(***************************************************************************)
(* The data connection, and QFtpPI::dtpConnectState().                     *)
(***************************************************************************)

DtpConnected ==
    /\ Runs("dtpConnected")
    /\ pi' = [pi EXCEPT !.toConnect = FALSE]
    /\ Then(<< <<"startNextCmd">> >>)
    /\ UNCHANGED <<ftp, dtp, net, hist>>

\* waitForDtpToConnect stays set.
DtpRefused ==
    /\ Runs("dtpRefused")
    /\ Then(<< <<"piError", "ConnectionRefused">>, <<"afterRefusal">> >>)
    /\ UNCHANGED <<ftp, pi, dtp, net, hist>>

AfterRefusal ==
    /\ Runs("afterRefusal")
    /\ Then(<< <<"startNextCmd">> >>)
    /\ UNCHANGED <<ftp, pi, dtp, net, hist>>

DtpClosed ==
    /\ Runs("dtpClosed")
    /\ Then((IF pi.toClose THEN << <<"processReply">>, <<"replyDone">> >> ELSE <<>>)
            \o << <<"dtpSettled">> >>)
    /\ UNCHANGED <<ftp, pi, dtp, net, hist>>

DtpSettled ==
    /\ Runs("dtpSettled")
    /\ pi' = [pi EXCEPT !.toClose = FALSE]
    /\ Then(<< <<"readyRead">> >>)
    /\ UNCHANGED <<ftp, dtp, net, hist>>

\* socketReadyRead(): no command, no data; close() emits, and so does the slot.
DataReadyRead ==
    /\ Runs("dataReadyRead")
    /\ IF pi.cmd = "none"
       THEN /\ dtp' = [dtp EXCEPT !.state = "closed", !.lines = <<>>]
            /\ net' = [net EXCEPT !.data = <<>>, !.fin = FALSE]
            /\ Then(<< <<"dtpClosed">>, <<"dtpClosed">> >>)
       ELSE /\ Then(IF pi.cmd = "LIST" THEN << <<"listLines">> >> ELSE <<>>)
            /\ UNCHANGED <<dtp, net>>
    /\ UNCHANGED <<ftp, pi, hist>>

\* The line of a link says that it is a directory, a shortcut is a file.
UnixDir(line) ==
    [file    |-> line = "unixFile",
     dir     |-> line \in {"unixDirectory", "unixLink"},
     symLink |-> line = "unixLink"]

DosDir(line) ==
    [file    |-> line # "dosDirectory",
     dir     |-> line = "dosDirectory",
     symLink |-> line = "dosShortcut"]

\* parseDir() knows two styles.
Parsed(line) == line \in UnixLines \cup DosLines

ParseDir(line) == IF line \in UnixLines THEN UnixDir(line) ELSE DosDir(line)

ListLines ==
    /\ Runs("listLines")
    /\ IF dtp.lines = <<>> THEN Return /\ UNCHANGED <<dtp, hist>>
       ELSE LET line == Head(dtp.lines)
            IN  /\ dtp' = [dtp EXCEPT !.lines = Tail(@), !.err = @ \/ line = "missing"]
                /\ IF Parsed(line)
                   THEN /\ calls' = << <<"listInfo", ParseDir(line)>> >> \o calls
                        /\ hist' = [hist EXCEPT !.owed = @ - 1]
                   ELSE UNCHANGED <<calls, hist>>
    /\ UNCHANGED <<ftp, pi, net>>

-----------------------------------------------------------------------------
(***************************************************************************)
(* The client: a slot may schedule the next command.                       *)
(***************************************************************************)

Schedules ==
    \/ \E c \in Commands : AddCommand(c)
    \/ UNCHANGED <<ftp, hist>>

\* Every entry of a listing is shown before its command ends.
CommandFinishedSlot ==
    /\ Runs("commandFinished") /\ Holds
    /\ Schedules
    /\ Return
    /\ UNCHANGED <<pi, dtp, net>>

\* DownloadManager goes on after an error of the server only.
CommandFailedSlot ==
    /\ Runs("commandFailed") /\ Holds
    /\ IF ftp.error \in {"UnknownError", "NoError"} THEN Schedules
       ELSE UNCHANGED <<ftp, hist>>
    /\ Return
    /\ UNCHANGED <<pi, dtp, net>>

\* DownloadManager counts the bytes of what isFile(), and goes on.
ListInfoSlot ==
    /\ Runs("listInfo")
    /\ LET counted == [hist EXCEPT !.files = IF Arg.file THEN @ - 1 ELSE @]
       IN  \/ \E c \in Commands : AddCommandTo(counted, c)
           \/ hist' = counted /\ UNCHANGED ftp
    /\ Return
    /\ UNCHANGED <<pi, dtp, net>>

\* ftpTimeout() asks for a Close at any time.
ClientCloses ==
    /\ Quiet
    /\ "Close" \in Commands
    /\ AddCommand("Close")
    /\ UNCHANGED <<pi, dtp, net, calls>>

-----------------------------------------------------------------------------
(***************************************************************************)
(* The event loop and the two connections.                                 *)
(***************************************************************************)

\* A signal of a socket or a timer begins a stack of calls.
Begin(fs) == Quiet /\ calls' = fs

PostedStart ==
    /\ ftp.posted > 0
    /\ Begin(<< <<"startNextCommand">> >>)
    /\ ftp' = [ftp EXCEPT !.posted = @ - 1]
    /\ UNCHANGED <<pi, dtp, net, hist>>

HostFound ==
    /\ net.link = "lookup"
    /\ Begin(<< <<"connectState", "Connecting">> >>)
    /\ net' = [net EXCEPT !.link = "connecting"]
    /\ UNCHANGED <<ftp, pi, dtp, hist>>

\* error(): the host is not found, refuses, or does not answer in time.
SocketError ==
    /\ net.link \in {"lookup", "connecting"}
    /\ Begin(<< <<"connectState", "Unconnected">>,
                <<"piError", IF net.link = "lookup" THEN "HostNotFound"
                             ELSE "ConnectionRefused">> >>)
    /\ net' = [net EXCEPT !.link = "closed"]
    /\ UNCHANGED <<ftp, pi, dtp, hist>>

\* The server greets; it may ask for patience, or have no room for a client.
Connected ==
    /\ net.link = "connecting"
    /\ Begin(<< <<"connectState", "Connected">> >>)
    /\ pi' = [pi EXCEPT !.state = "Begin"]
    /\ \E codes \in { <<220>>, <<120, 220>>, <<421>> } :
          net' = [net EXCEPT !.link = "open",
                             !.wire = [i \in DOMAIN codes |-> [code |-> codes[i], to |-> 0]],
                             !.quit = codes = <<421>>]
    /\ UNCHANGED <<ftp, dtp, hist>>

\* One reply arrives, or all that were sent.
Arrives ==
    /\ net.link = "open"
    /\ net.wire # <<>>
    /\ Begin(<< <<"readyRead">> >>)
    /\ \E n \in {1, Len(net.wire)} :
          net' = [net EXCEPT !.buffer = @ \o SubSeq(net.wire, 1, n),
                             !.wire = SubSeq(@, n + 1, Len(@))]
    /\ UNCHANGED <<ftp, pi, dtp, hist>>

\* connectionClosed(): after the server has closed it, or at any time.
Closed(n) == [n EXCEPT !.link = "closed", !.outbox = <<>>, !.wire = <<>>, !.buffer = <<>>]

ConnectionClosed ==
    /\ net.link = "open"
    /\ net.quit
    /\ net.wire = <<>>
    /\ Begin(<< <<"connectState", "Unconnected">> >>)
    /\ net' = Closed(net)
    /\ UNCHANGED <<ftp, pi, dtp, hist>>

ConnectionLost ==
    /\ net.link = "open"
    /\ Begin(<< <<"connectState", "Unconnected">> >>)
    /\ net' = Closed(net)
    /\ hist' = [hist EXCEPT !.lost = TRUE]
    /\ UNCHANGED <<ftp, pi, dtp>>

SocketConnected ==
    /\ dtp.state = "connecting"
    /\ net.port
    /\ Begin(<< <<"dtpConnected">> >>)
    /\ dtp' = [dtp EXCEPT !.state = "connected"]
    /\ UNCHANGED <<ftp, pi, net, hist>>

\* socketError() reports a refusal; an unreachable network it does not.
SocketRefused ==
    /\ dtp.state = "connecting"
    /\ dtp' = [dtp EXCEPT !.state = "closed"]
    /\ net' = [net EXCEPT !.port = FALSE]
    /\ Begin(<< <<"dtpRefused">> >>) \/ Begin(<<>>)
    /\ UNCHANGED <<ftp, pi, hist>>

SocketReadyRead ==
    /\ dtp.state = "connected"
    /\ net.data # <<>>
    /\ Begin(<< <<"dataReadyRead">> >>)
    /\ dtp' = [dtp EXCEPT !.lines = @ \o net.data]
    /\ net' = [net EXCEPT !.data = <<>>]
    /\ UNCHANGED <<ftp, pi, hist>>

SocketConnectionClosed ==
    /\ dtp.state = "connected"
    /\ net.fin
    /\ net.data = <<>>
    /\ Begin(<< <<"dtpClosed">> >>)
    /\ dtp' = [dtp EXCEPT !.state = "closed", !.lines = <<>>]
    /\ net' = [net EXCEPT !.fin = FALSE]
    /\ UNCHANGED <<ftp, pi, hist>>

-----------------------------------------------------------------------------
(***************************************************************************)
(* The server: one raw command after the other.                            *)
(***************************************************************************)

Answers(cmd) ==
    CASE cmd = "USER" -> {331, 230, 530}
      [] cmd = "PASS" -> {230, 202, 530}
      [] cmd = "TYPE" -> {200, 500}
      [] cmd = "PASV" -> {227, 500}
      [] cmd = "EPSV" -> {229, 500}
      [] cmd = "SIZE" -> {213, 550}
      [] cmd = "CWD"  -> {250, 550}
      [] cmd = "RNFR" -> {350, 550}
      [] cmd = "RNTO" -> {250, 550}
      [] cmd = "QUIT" -> {221, 500}
      [] OTHER        -> {550}

Served == Head(net.outbox)

Reply1(code) == [code |-> code, to |-> Served.to]

Entries(lines) == Cardinality({i \in DOMAIN lines : Parsed(lines[i])})

\* What the server means by a file one can fetch and size.
Regular(line) == line \in {"unixFile", "dosFile", "dosShortcut"}

RegularFiles(lines) == Cardinality({i \in DOMAIN lines : Regular(lines[i])})

ServerReplies ==
    /\ \E code \in Answers(Served.cmd) :
          net' = [net EXCEPT !.outbox = Tail(@),
                             !.wire = Append(@, Reply1(code)),
                             !.port = @ \/ code \in {227, 229},
                             !.quit = @ \/ code = 221]
    /\ UNCHANGED hist

\* A transfer needs the data connection.  A server may also write that there
\* is no such file where the listing should be.
Transfers ==
    Served.cmd \in {"LIST", "RETR"}

Listings == UNION { [1 .. n -> Lines] : n \in 0 .. MaxLines }

IsListing(lines) ==
    /\ \A i, j \in DOMAIN lines : ~(lines[i] \in UnixLines /\ lines[j] \in DosLines)
    /\ (\E i \in DOMAIN lines : lines[i] = "missing") => Len(lines) = 1

ServerRefuses ==
    /\ Transfers
    /\ dtp.state # "connected"
    /\ net' = [net EXCEPT !.outbox = Tail(@), !.wire = Append(@, Reply1(425))]
    /\ UNCHANGED hist

ServerTransfers ==
    /\ Transfers
    /\ dtp.state = "connected" /\ net.port
    /\ \E lines \in Listings, code \in {226, 250, 426} :
          /\ IsListing(lines)
          /\ code = 250 => Served.cmd = "RETR"
          /\ lines = <<"missing">> => code # 426
          /\ net' = [net EXCEPT !.outbox = Tail(@),
                                !.wire = @ \o <<Reply1(150), Reply1(code)>>,
                                !.data = lines, !.fin = TRUE, !.port = FALSE]
          /\ hist' = [hist EXCEPT !.done = code # 426,
                                  !.owed = IF Served.cmd = "LIST" THEN Entries(lines) ELSE @,
                                  !.files = IF Served.cmd = "LIST" THEN RegularFiles(lines) ELSE @,
                                  !.dataError = @ \/ (lines = <<"missing">> /\ Served.cmd = "LIST")]

Serve ==
    /\ Quiet
    /\ net.link = "open"
    /\ net.outbox # <<>>
    /\ ServerReplies \/ ServerRefuses \/ ServerTransfers
    /\ UNCHANGED <<ftp, pi, dtp, calls>>

Call ==
    \/ StartNextCommand \/ PiFinished \/ PiError \/ RemoveFirst \/ PiConnectState
    \/ SendCommands \/ StartNextCmd \/ ClearPendingCommands \/ PendingCleared
    \/ ReadyRead \/ ReadLines \/ ReplyDone \/ HoldReply \/ ProcessGreeting
    \/ ProcessReply \/ IgnoreReply \/ ReactSuccess \/ ReactFailure \/ ReactWaiting
    \/ AfterFailure \/ ClearError \/ DtpConnected \/ DtpRefused \/ AfterRefusal
    \/ DtpClosed \/ DtpSettled \/ DataReadyRead \/ ListLines
    \/ CommandFinishedSlot \/ CommandFailedSlot \/ ListInfoSlot

Network ==
    \/ PostedStart \/ HostFound \/ SocketError \/ Connected \/ Arrives
    \/ ConnectionClosed \/ SocketConnected \/ SocketRefused
    \/ SocketReadyRead \/ SocketConnectionClosed \/ Serve

Next == Call \/ Network \/ ConnectionLost \/ ClientCloses

\* A call runs to its end; the event loop, the network and the server go on.
Fairness == WF_vars(Call) /\ WF_vars(Network)

Spec == Init /\ [][Next]_vars /\ Fairness

-----------------------------------------------------------------------------
(***************************************************************************)
(* Properties.                                                             *)
(***************************************************************************)

\* The queue of commands as QFtp's documentation has it.
Queue == INSTANCE CommandQueue WITH
    queue   <- [i \in DOMAIN ftp.pending |-> ftp.pending[i].id],
    current <- hist.current,
    last    <- hist.id

\* The commands are started in order, one at a time, and each that was started
\* is ended once, whatever the server answers and the slots do, until QFtpPI is
\* called in a state that is not Idle.  From then on the answer to a command
\* may be taken for the answer to one that has not been started.
QueueSpec ==
    Queue!Init /\ [][hist.overrun \/ Queue!Next]_<<ftp.pending, hist.current, hist.id>>

\* A frame that holds a command across the slots of others still finds it at
\* the head of pending: _q_piFinished() and _q_piError() keep the pointer c
\* while their slots run, and then remove and delete "the first".
CommandOutlivesSlots ==
    \A i \in DOMAIN calls :
        ~hist.overrun /\ calls[i][1] \in {"commandFinished", "commandFailed", "removeFirst"}
            => ftp.pending # <<>> /\ calls[i][2] = Current.id

\* A reply is taken for the answer to the last command that was sent only if
\* it is: nothing in the code relates the two but the state Waiting.
ReplyIsForCommand ==
    Runs("processReply") /\ pi.state = "Waiting" /\ ~hist.overrun
        => pi.reply.to = hist.sent

\* QFtpPI goes on before a command is answered only after a listing that turned
\* out to be an error text (the two calls at qftp.cpp:1121-1124).
OverrunNeedsDataError == hist.overrun => hist.dataError

\* A List that ends well was served and has shown every entry that was sent, and
\* exactly the files among them as files: the 226 and the data come on two
\* connections, in either order, and what is lost here is missing in the total.
ListingComplete ==
    Runs("commandFinished") /\ Current.cmd = "List" /\ ~hist.overrun
        => hist.done /\ hist.owed = 0 /\ hist.files = 0

\* What a command may wait for without end.
Stranded ==
    \/ hist.lost                                   \* its connection was lost
    \/ pi.toConnect /\ dtp.state = "closed"         \* or its data connection
    \/ pi.state = "Begin" /\ net.link = "closed"    \* no 220 was received

\* On a server that answers and a connection that lasts every command ends.
CommandsEnd == ftp.pending # <<>> ~> ftp.pending = <<>> \/ Stranded

=============================================================================
