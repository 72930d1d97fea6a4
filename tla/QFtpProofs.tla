----------------------------- MODULE QFtpProofs ------------------------------
(***************************************************************************)
(* The types of QFtp, for any number of commands and any listings, and the *)
(* order of its calls, replies and commands with what it says of them and  *)
(* of a listing.  QFtpOrderProofs shows that every step keeps them.        *)
(***************************************************************************)
EXTENDS QFtp, SequenceTheorems, FiniteSetTheorems, TLAPS

-----------------------------------------------------------------------------
(***************************************************************************)
(* The invariant.                                                          *)
(***************************************************************************)

Fn(i)    == calls[i][1]
Under(i) == IF i < Len(calls) THEN calls[i + 1][1] ELSE "none"

\* A call of f is in progress; it is not the one that runs, nor the one below.
OnStack(f) == \E i \in 1 .. Len(calls) : Fn(i) = f
Below(f)   == \E i \in 2 .. Len(calls) : Fn(i) = f
Deep(f)    == \E i \in 3 .. Len(calls) : Fn(i) = f

\* The call that runs is one of fs.
Running(fs) == \E f \in fs : Runs(f)

\* processReply() is called where its caller looks at what it returned.
Replied == \A i \in 1 .. Len(calls) : Fn(i) = "processReply" => Under(i) = "replyDone"

\* What is called once an answer was read, and to what it returns.
Resumes == {"none", "replyDone", "react", "afterFailure", "clearError", "afterRefusal"}

\* What runs from the end of a data connection to the next reply.
Reading == {"dtpClosed", "dtpSettled", "readyRead", "readLines"}

\* f may be called from, or return to, u.
Fits(f, u) ==
    /\ f \in {"startNextCommand", "sendCommands", "piFinished", "piError",
              "startNextCmd", "removeFirst"} => u \in Resumes
    /\ f \in {"commandFinished", "commandFailed"} => u = "removeFirst"
    /\ f \in {"clearPendingCommands", "pendingCleared"} => u = "commandFailed"
    /\ f \in Reading => u \in {"none", "pendingCleared"}
    /\ f \in {"processReply", "react", "afterFailure", "clearError"} => u = "replyDone"
    /\ f = "replyDone" => u \in {"readLines", "dtpSettled"}
    /\ f = "connectState" => u \in {"none", "react", "piError"}
    /\ f \in {"dataReadyRead", "listLines", "dtpConnected", "dtpRefused", "afterRefusal"}
          => u = "none"
    /\ f = "listInfo" => u = "listLines"

Framed == \A i \in 1 .. Len(calls) : Fits(Fn(i), Under(i))

\* What runs while a command is held that is then removed: it is held once.
AboveRemove == {"commandFinished", "commandFailed", "clearPendingCommands",
                "pendingCleared"} \cup Reading

\* Only calls of above are called by those of fs.
Nested(fs, above) ==
    \A i \in 1 .. Len(calls), j \in 1 .. Len(calls) :
        j < i /\ Fn(i) \in fs => Fn(j) \in above

OneHolder == Nested({"removeFirst"}, AboveRemove)

\* What goes on after an error or the last reply to a command was handled: once.
Conts == {"react", "afterFailure", "clearError", "afterRefusal"}

AboveCont == {"startNextCommand", "sendCommands", "piFinished", "piError", "startNextCmd",
              "removeFirst", "connectState"} \cup AboveRemove

OneCont == Nested(Conts, AboveCont)

Holders == {"commandFinished", "commandFailed", "removeFirst"}

\* The command that is held is the one in execution.
Holding ==
    \A i \in 1 .. Len(calls) :
        Fn(i) \in Holders => hist.current # 0 /\ calls[i][2] = hist.current

\* Nothing was sent that is not yet answered, no answer is still to be read.
Silent == net.outbox = <<>> /\ net.wire = <<>> /\ net.buffer = <<>>

Open == dtp.state \in {"connecting", "connected"}

\* The end of a connection that an error aborts is seen at once, and not the
\* error's own reply.
Clearing ==
    /\ ~Deep("pendingCleared") /\ ~Deep("piError")
    /\ Below("piError") => Runs("connectState")
    /\ Below("pendingCleared") => Running(Reading) /\ ~pi.toClose
    /\ (\E f \in {"piError", "clearPendingCommands", "pendingCleared"} : OnStack(f))
          => /\ Silent /\ pi.state \notin {"Waiting", "Success"} /\ (pi.toClose => ~Open)
             /\ pi.state = "Failure" => OnStack("afterFailure")
             /\ net.link \notin {"none", "lookup", "connecting"}
    /\ OnStack("pendingCleared") => ~Open

\* The first command is in execution, or its start is called or posted.
Started ==
    /\ hist.current # 0 => ftp.pending # <<>> /\ Current.id = hist.current
    /\ hist.current = 0 /\ ftp.pending # <<>> => Runs("startNextCommand") \/ ftp.posted > 0
    /\ ftp.posted > 0 => /\ ftp.posted = 1 /\ ftp.pending # <<>> /\ hist.current = 0
                         /\ Quiet \/ (Len(calls) = 1 /\ Runs("connectState"))
    /\ Runs("startNextCommand") => hist.current = 0

\* What may be the answer to a raw command, the ones of a transfer included.
CodesFor(cmd) ==
    CASE cmd = "LIST" -> {150, 226, 425, 426, 550}
      [] cmd = "RETR" -> {150, 226, 250, 425, 426, 550}
      [] OTHER        -> Answers(cmd)

Interim == {120, 150}

\* Before the greeting was handled there is no command but Connect.
Greeted ==
    /\ pi.state = "Begin" =>
         /\ pi.cmd = "none" /\ pi.todo = <<>> /\ dtp.state = "none" /\ ~pi.toConnect /\ ~pi.toClose
         /\ hist.sent = 0 /\ net.outbox = <<>> /\ ~ftp.closeWait /\ net.data = <<>> /\ ~net.fin
         /\ net.link # "open" => Silent
         /\ net.link \in {"lookup", "connecting", "open"} =>
               hist.current # 0 /\ Current.cmd = "Connect"
    /\ net.link \in {"none", "lookup", "connecting"} => pi.state = "Begin"
    /\ net.link = "none" => /\ ftp.pending # <<>> /\ Current.cmd = "Connect"
                            /\ hist.current = 0 /\ ~OnStack("replyDone")

\* One raw command is unanswered at most, the last one.
Talk ==
    /\ pi.state \in {"Idle", "Success", "Failure"} => Silent
    /\ pi.state \in {"Waiting", "Success", "Failure"} => hist.current # 0 /\ pi.cmd # "none"
    /\ pi.state \in {"Success", "Failure"} => OnStack("react") \/ OnStack("afterFailure")
    /\ net.outbox # <<>> => /\ Len(net.outbox) = 1 /\ net.wire = <<>> /\ net.buffer = <<>>
                            /\ net.outbox[1].to = hist.sent /\ net.outbox[1].cmd = pi.cmd
    /\ net.link # "open" => net.wire = <<>> /\ net.buffer = <<>>

\* What is read, or still on the wire, answers it; only the last reply ends it.
Answered ==
    /\ \A i \in 1 .. Len(net.buffer) :
          /\ net.buffer[i].to = hist.sent
          /\ pi.state = "Waiting" => net.buffer[i].code \in CodesFor(pi.cmd)
          /\ i < Len(net.buffer) \/ net.wire # <<>> => net.buffer[i].code \in Interim
    /\ \A i \in 1 .. Len(net.wire) :
          /\ net.wire[i].to = hist.sent
          /\ pi.state = "Waiting" => net.wire[i].code \in CodesFor(pi.cmd)
          /\ i < Len(net.wire) => net.wire[i].code \in Interim

\* The reply that is processed answers the last raw command.
Replying ==
    Runs("processReply") =>
        /\ pi.state \in {"Waiting", "Begin"}
        /\ pi.state = "Begin" => net.link = "open"
        /\ Len(calls) = 3
        /\ pi.reply.to = hist.sent
        /\ net.outbox = <<>>
        /\ pi.text
        /\ pi.reply.code \notin Interim => Silent
        /\ pi.state = "Waiting" => pi.reply.code \in CodesFor(pi.cmd)
        /\ pi.toClose => OnStack("dtpSettled")

\* A transfer is asked for next.
ToTransfer == {<<"LIST">>, <<"RETR">>}

\* What of an operation is left when cmd was sent.
Rest(cmd) ==
    CASE cmd = "none"     -> {<<>>} \cup {Raw(c) : c \in AllCommands}
      [] cmd = "USER" -> {<<"PASS">>, <<>>}
      [] cmd = "TYPE" -> {<<"PASV", "LIST">>, <<"SIZE", "PASV", "RETR">>}
      [] cmd = "SIZE" -> {<<"PASV", "RETR">>}
      [] cmd = "PASV" -> {<<"LIST">>, <<"RETR">>}
      [] cmd = "EPSV" -> {<<"LIST">>, <<"RETR">>, <<"PASV", "LIST">>, <<"PASV", "RETR">>}
      [] cmd = "RNFR" -> {<<"RNTO">>}
      [] OTHER        -> {<<>>}

Ends == {"piFinished", "commandFinished", "commandFailed", "removeFirst"}

\* The raw commands are sent to their end, or dropped by an error.
Progress ==
    /\ OnStack("pendingCleared") => pi.todo = <<>>
    /\ ~OnStack("pendingCleared") => pi.todo \in Rest(pi.cmd)
    /\ pi.cmd = "EPSV" => CASE pi.state = "Idle" -> TRUE
                             [] pi.state = "Failure" /\ OnStack("afterFailure") -> TRUE
                             [] OTHER -> pi.todo \in ToTransfer
    /\ hist.current = 0 => pi.cmd = "none" /\ pi.todo = <<>> /\ pi.state \in {"Idle", "Begin"}
    /\ pi.todo # <<>> => dtp.lines = <<>>

\* Where the raw commands of an operation are begun and ended.
Sending ==
    /\ Running(Ends) => pi.cmd = "none" /\ pi.todo = <<>> /\ pi.state = "Idle"
    /\ Runs("sendCommands") =>
          /\ hist.current # 0 /\ Arg = Raw(Current.cmd) /\ Current.cmd # "Connect"
          /\ pi.cmd = "none" /\ pi.todo = <<>> /\ pi.state \in {"Idle", "Begin"} /\ dtp.lines = <<>>
    /\ (\E f \in Conts : OnStack(f)) => pi.state # "Begin"
    /\ Runs("startNextCmd") /\ (\E f \in Conts : Below(f)) => pi.todo # <<>>
    /\ Runs("piFinished") /\ (\E f \in Conts : Below(f)) => Current.cmd = "Connect"

\* A Close that waits for the connection to be closed has sent all.
Busy == {"startNextCommand", "sendCommands", "startNextCmd", "piFinished", "piError",
         "commandFinished", "commandFailed", "clearPendingCommands", "pendingCleared",
         "removeFirst", "processReply", "react", "afterFailure", "clearError",
         "afterRefusal", "dtpConnected", "dtpRefused", "dataReadyRead", "listLines"}

ClosesLast ==
    ftp.closeWait =>
        /\ hist.current # 0 /\ pi.cmd = "none" /\ pi.todo = <<>> /\ pi.state = "Idle"
        /\ \A f \in Busy : ~OnStack(f)

\* A reply that has to wait for the end of the data connection.
Held ==
    /\ pi.state = "Waiting" /\ pi.text /\ Silent /\ pi.reply.to = hist.sent
    /\ pi.reply.code \in {226, 250} /\ pi.reply.code \in CodesFor(pi.cmd)

WaitsForEnd ==
    /\ pi.toClose => Held \/ (OnStack("dtpSettled") /\ ~Runs("processReply"))
    /\ pi.toClose /\ OnStack("replyDone") => OnStack("dtpSettled")
    /\ pi.text => OnStack("replyDone") \/ (pi.toClose /\ ~OnStack("dtpSettled"))
    /\ OnStack("dtpSettled") \/ Runs("dtpClosed") => ~Open
    /\ Runs("processReply") /\ OnStack("dtpSettled") => Held

\* The data connection is made before the transfer is asked for, and carries
\* data for LIST and RETR only.
Connection ==
    /\ dtp.state = "connecting" =>
          /\ pi.toConnect /\ hist.current # 0 /\ pi.cmd \in {"PASV", "EPSV"}
          /\ pi.todo \in ToTransfer
    /\ pi.toConnect => pi.state \in {"Idle", "Success"}
    /\ dtp.state = "connected" =>
          \/ /\ pi.cmd \in {"PASV", "EPSV"} /\ pi.state = "Idle" /\ hist.current # 0
             /\ pi.todo \in ToTransfer
             /\ Len(calls) = 1
             /\ (Runs("dtpConnected") /\ pi.toConnect) \/ (Runs("startNextCmd") /\ ~pi.toConnect)
          \/ pi.cmd \in {"LIST", "RETR"} /\ pi.state \in {"Waiting", "Failure"}
    /\ Runs("dtpConnected") => dtp.state = "connected" /\ pi.cmd \in {"PASV", "EPSV"}
    /\ Runs("dtpRefused") => pi.toConnect /\ ~Open
    /\ Runs("afterFailure") /\ pi.state = "Failure" => dtp.state # "connected"
    /\ net.data # <<>> \/ net.fin => dtp.state = "connected" /\ pi.cmd \in {"LIST", "RETR"}
    /\ Runs("dataReadyRead") => pi.cmd \in {"LIST", "RETR"}
    /\ Running({"listLines", "listInfo"}) => pi.cmd = "LIST" /\ hist.current # 0

\* The first command connects, and no other.
FirstConnects ==
    /\ \A i \in 2 .. Len(ftp.pending) : ftp.pending[i].cmd # "Connect"
    /\ ftp.pending # <<>> /\ Current.cmd = "Connect" /\ hist.current = 0
          => net.link = "none"

Missing(lines) == \E i \in 1 .. Len(lines) : lines[i] = "missing"

\* Only an error text in the place of a listing calls startNextCmd() in a state
\* that is not Idle.
Errors ==
    /\ dtp.err => hist.dataError
    /\ OnStack("clearError") => hist.dataError
    /\ OnStack("afterRefusal") => pi.toConnect
    /\ pi.cmd = "LIST" /\ Missing(net.data) => hist.dataError
    /\ pi.cmd = "LIST" /\ Missing(dtp.lines) => hist.dataError
    /\ Runs("startNextCmd") => pi.toConnect \/ pi.state = "Idle" \/ hist.dataError

\* A listing is in execution.
Listing == hist.current # 0 /\ Current.cmd = "List"

\* What of it may be left.
Suits ==
    /\ Listing => /\ pi.cmd \in {"none", "TYPE", "PASV", "EPSV", "LIST"}
                  /\ pi.todo \in {<<>>, Raw("List"), <<"PASV", "LIST">>, <<"LIST">>}
    /\ ftp.closeWait => Current.cmd = "Close"

\* What has arrived of a listing is shown before anything else happens.
ShownAtOnce ==
    pi.cmd = "LIST" /\ dtp.lines # <<>> => Runs("dataReadyRead") \/ OnStack("listLines")

\* What is still to be shown is on its way.
Owing ==
    /\ Runs("sendCommands") \/ (Listing /\ pi.todo # <<>>) => hist.owed = 0 /\ hist.files = 0
    /\ Listing /\ pi.cmd = "LIST" /\ pi.state = "Waiting" =>
          /\ hist.owed = Entries(net.data) + Entries(dtp.lines)
          /\ hist.files = RegularFiles(net.data) + RegularFiles(dtp.lines)
                             + (IF Runs("listInfo") /\ Arg.file THEN 1 ELSE 0)

\* A 226 says that the listing was sent, wherever the reply is.
Vouched ==
    Listing /\ pi.cmd = "LIST" /\ pi.state = "Waiting" /\ ~hist.done =>
        /\ \A i \in 1 .. Len(net.buffer) : net.buffer[i].code # 226
        /\ \A i \in 1 .. Len(net.wire) : net.wire[i].code # 226
        /\ Runs("processReply") \/ (pi.toClose /\ ~OnStack("dtpSettled")) => pi.reply.code # 226

Complete == hist.done /\ hist.owed = 0 /\ hist.files = 0 /\ ~pi.toConnect

Clears == {"piError", "clearPendingCommands", "pendingCleared"}

\* Once all its raw commands were sent, a listing is complete or is dropped.
Concluded ==
    Listing /\ pi.todo = <<>> =>
        /\ pi.state = "Success" => Complete
        /\ pi.state = "Failure" => Running({"react"} \cup Clears) \/ Below("pendingCleared")
        /\ pi.state = "Idle" =>
              \/ Running({"sendCommands", "commandFailed", "removeFirst"} \cup Clears)
              \/ Below("pendingCleared")
              \/ Running({"startNextCmd", "piFinished", "commandFinished"}) /\ Complete

Listed == Suits /\ ShownAtOnce /\ Owing /\ Vouched /\ Concluded

-----------------------------------------------------------------------------
(***************************************************************************)
(* The stack of calls.                                                     *)
(***************************************************************************)

\* What is put on it.
LEMMA TailNone ==
    ASSUME NEW S, NEW s \in Seq(S), s # <<>>
    PROVE  LET r == <<>> \o Tail(s)
           IN  /\ r \in Seq(S) /\ Len(r) = Len(s) - 1
               /\ \A i \in 1 .. Len(s) - 1 : r[i] = s[i + 1]
  OBVIOUS

\* Its head is replaced by one element,
LEMMA TailOne ==
    ASSUME NEW S, NEW s \in Seq(S), s # <<>>, NEW f \in S
    PROVE  LET r == <<f>> \o Tail(s)
           IN  /\ r \in Seq(S) /\ Len(r) = Len(s)
               /\ r[1] = f
               /\ \A i \in 2 .. Len(s) : r[i] = s[i]
  OBVIOUS

\* by two,
LEMMA TailTwo ==
    ASSUME NEW S, NEW s \in Seq(S), s # <<>>, NEW f \in S, NEW g \in S
    PROVE  LET r == <<f, g>> \o Tail(s)
           IN  /\ r \in Seq(S) /\ Len(r) = Len(s) + 1
               /\ r[1] = f /\ r[2] = g
               /\ \A i \in 3 .. Len(s) + 1 : r[i] = s[i - 1]
  OBVIOUS

\* or by three.
LEMMA TailThree ==
    ASSUME NEW S, NEW s \in Seq(S), s # <<>>, NEW f \in S, NEW g \in S, NEW h \in S
    PROVE  LET r == <<f, g, h>> \o Tail(s)
           IN  /\ r \in Seq(S) /\ Len(r) = Len(s) + 2
               /\ r[1] = f /\ r[2] = g /\ r[3] = h
               /\ \A i \in 4 .. Len(s) + 2 : r[i] = s[i - 2]
  OBVIOUS

\* A sequence with one element before it,
LEMMA OnOne ==
    ASSUME NEW S, NEW s \in Seq(S), NEW f \in S
    PROVE  LET r == <<f>> \o s
           IN  /\ r \in Seq(S) /\ Len(r) = Len(s) + 1
               /\ r[1] = f
               /\ \A i \in 2 .. Len(s) + 1 : r[i] = s[i - 1]
  OBVIOUS

\* or with two.
LEMMA OnTwo ==
    ASSUME NEW S, NEW s \in Seq(S), NEW f \in S, NEW g \in S
    PROVE  LET r == <<f, g>> \o s
           IN  /\ r \in Seq(S) /\ Len(r) = Len(s) + 2
               /\ r[1] = f /\ r[2] = g
               /\ \A i \in 3 .. Len(s) + 2 : r[i] = s[i - 2]
  OBVIOUS

\* The running call returns; below, it returns after having called others.
LEMMA Returns ==
    ASSUME calls \in Seq(Frame), ~Quiet, Then(<<>>)
    PROVE  /\ calls' \in Seq(Frame) /\ Len(calls') = Len(calls) - 1
           /\ \A i \in 1 .. Len(calls) - 1 : calls'[i] = calls[i + 1]
           /\ \A x : OnStack(x)' <=> Below(x)
           /\ \A x : Below(x)' => Below(x) /\ Deep(x)
           /\ \A x : Deep(x)' => Deep(x)
           /\ \A x : x # "none" => (Runs(x)' <=> Under(1) = x)
<1>1. /\ calls' \in Seq(Frame) /\ Len(calls') = Len(calls) - 1
      /\ \A i \in 1 .. Len(calls) - 1 : calls'[i] = calls[i + 1]
  BY TailNone DEF Then, Quiet
<1>2. Len(calls) \in Nat /\ Len(calls) >= 1
  BY DEF Quiet
<1>3. ASSUME NEW x PROVE OnStack(x)' <=> Below(x)
  <2>1. ASSUME NEW i \in 1 .. Len(calls'), calls'[i][1] = x PROVE Below(x)
    <3>1. (i + 1 \in 2 .. Len(calls) /\ calls[i + 1][1] = x)
      BY <1>1, <1>2, <2>1
    <3>2. QED  BY <1>1, <2>1, <3>1 DEF Below, Fn
  <2>2. ASSUME NEW i \in 2 .. Len(calls), calls[i][1] = x PROVE OnStack(x)'
    <3>1. i - 1 \in 1 .. Len(calls') /\ calls'[i - 1][1] = x
      BY <1>1, <1>2, <2>2
    <3>2. QED  BY <3>1 DEF OnStack, Fn
  <2>3. QED  BY <2>1, <2>2 DEF OnStack, Below, Fn
<1>4. ASSUME NEW x PROVE Below(x)' => Below(x)
  <2>1. ASSUME NEW i \in 2 .. Len(calls'), calls'[i][1] = x PROVE Below(x)
    <3>1. (i + 1 \in 2 .. Len(calls) /\ calls[i + 1][1] = x)
      BY <1>1, <1>2, <2>1
    <3>2. QED  BY <1>1, <2>1, <3>1 DEF Below, Fn
  <2>2. QED  BY <2>1 DEF Below, Fn
<1>5. ASSUME NEW x, x # "none" PROVE Runs(x)' <=> Under(1) = x
  BY <1>1, <1>2, <1>5 DEF Runs, Quiet, Under
<1>6. ASSUME NEW x PROVE Deep(x)' => Deep(x)
  <2>1. ASSUME NEW i \in 3 .. Len(calls'), calls'[i][1] = x PROVE Deep(x)
    <3>1. i + 1 \in 3 .. Len(calls) /\ calls[i + 1][1] = x
      BY <1>1, <1>2, <2>1
    <3>2. QED  BY <3>1 DEF Deep, Fn
  <2>2. QED  BY <2>1 DEF Deep, Fn
<1>7. ASSUME NEW x PROVE Below(x)' => Deep(x)
  <2>1. ASSUME NEW i \in 2 .. Len(calls'), calls'[i][1] = x PROVE Deep(x)
    <3>1. i + 1 \in 3 .. Len(calls) /\ calls[i + 1][1] = x
      BY <1>1, <1>2, <2>1
    <3>2. QED  BY <3>1 DEF Deep, Fn
  <2>2. QED  BY <2>1 DEF Deep, Below, Fn
<1>8. QED  BY <1>1, <1>3, <1>4, <1>5, <1>6, <1>7

\* A return keeps the form of the stack.
LEMMA ReturnsFit ==
    ASSUME calls \in Seq(Frame), ~Quiet, Then(<<>>)
    PROVE  /\ Replied => Replied'
           /\ Framed => Framed'
           /\ OneHolder => OneHolder'
           /\ OneCont => OneCont'
           /\ Holding /\ hist'.current = hist.current => Holding'
<1>1. /\ calls' \in Seq(Frame) /\ Len(calls') = Len(calls) - 1
      /\ \A i \in 1 .. Len(calls) - 1 : calls'[i] = calls[i + 1]
  BY Returns
<1>2. Len(calls) \in Nat /\ Len(calls) >= 1
  BY DEF Quiet
<1>3. ASSUME NEW i \in 1 .. Len(calls')
      PROVE  i + 1 \in 2 .. Len(calls) /\ calls'[i] = calls[i + 1]
             /\ Fn(i)' = Fn(i + 1) /\ Under(i)' = Under(i + 1)
  <2>1. i + 1 \in 2 .. Len(calls) /\ calls'[i] = calls[i + 1]
    BY <1>1, <1>2
  <2>2. CASE i < Len(calls')
    <3>1. calls'[i + 1] = calls[(i + 1) + 1] /\ i + 1 < Len(calls)
      BY SMTT(30), <1>1, <1>2, <2>2
    <3>2. QED  BY <2>1, <2>2, <3>1 DEF Fn, Under
  <2>3. CASE ~(i < Len(calls'))
    <3>1. ~(i + 1 < Len(calls))
      BY <1>1, <1>2, <2>3
    <3>2. QED  BY <2>1, <2>3, <3>1 DEF Fn, Under
  <2>4. QED  BY <2>2, <2>3
<1>5. \A i \in 1 .. Len(calls') : i + 1 \in 2 .. Len(calls)
  BY <1>1, <1>2
<1>6. Replied => Replied'
  BY <1>1, <1>3, <1>5 DEF Replied
<1>7. Framed => Framed'
  BY <1>1, <1>3, <1>5 DEF Framed
<1>8. ASSUME NEW fs, NEW above, Nested(fs, above)
      PROVE  Nested(fs, above)'
  BY <1>1, <1>2, <1>3, <1>5, <1>8 DEF Nested
<1>9. OneHolder => OneHolder'
  BY <1>8 DEF OneHolder
<1>10. OneCont => OneCont'
  BY <1>8 DEF OneCont
<1>11. Holding /\ hist'.current = hist.current => Holding'
  <2> SUFFICES ASSUME Holding, hist'.current = hist.current,
                  NEW i \in 1 .. Len(calls'), Fn(i)' \in Holders
           PROVE  hist'.current # 0 /\ calls'[i][2] = hist'.current
    BY DEF Holding, Holders
  <2>1. QED  BY <1>3, <1>5 DEF Holding
<1>12. QED  BY <1>6, <1>7, <1>9, <1>10, <1>11

\* It calls one function and ends with it.
LEMMA CallsOne ==
    ASSUME calls \in Seq(Frame), ~Quiet, NEW f \in Frame, Then(<<f>>)
    PROVE  /\ calls' \in Seq(Frame) /\ Len(calls') = Len(calls)
           /\ calls'[1] = f
           /\ \A i \in 2 .. Len(calls) : calls'[i] = calls[i]
           /\ \A x : OnStack(x)' <=> x = f[1] \/ Below(x)
           /\ \A x : Below(x)' <=> Below(x)
           /\ \A x : Deep(x)' <=> Deep(x)
           /\ \A x : Runs(x)' <=> x = f[1]
<1>1. /\ calls' \in Seq(Frame) /\ Len(calls') = Len(calls)
      /\ calls'[1] = f
      /\ \A i \in 2 .. Len(calls) : calls'[i] = calls[i]
  BY TailOne DEF Then, Quiet
<1>2. Len(calls) \in Nat /\ Len(calls) >= 1
  BY DEF Quiet
<1>3. ASSUME NEW x PROVE OnStack(x)' <=> x = f[1] \/ Below(x)
  <2>1. ASSUME NEW i \in 1 .. Len(calls'), calls'[i][1] = x PROVE x = f[1] \/ Below(x)
    <3>1. i = 1 \/ (i \in 2 .. Len(calls) /\ calls[i][1] = x)
      BY <1>1, <1>2, <2>1
    <3>2. QED  BY <1>1, <2>1, <3>1 DEF Below, Fn
  <2>2. ASSUME NEW i \in 2 .. Len(calls), calls[i][1] = x PROVE OnStack(x)'
    <3>1. i \in 1 .. Len(calls') /\ calls'[i][1] = x
      BY <1>1, <1>2, <2>2
    <3>2. QED  BY <3>1 DEF OnStack, Fn
  <2>3. x = f[1] => OnStack(x)'
    BY <1>1, <1>2 DEF OnStack, Fn
  <2>4. QED  BY <2>1, <2>2, <2>3 DEF OnStack, Below, Fn
<1>4. ASSUME NEW x PROVE Below(x)' <=> Below(x)
  <2>1. ASSUME NEW i \in 2 .. Len(calls'), calls'[i][1] = x PROVE Below(x)
    <3>1. (i \in 2 .. Len(calls) /\ calls[i][1] = x)
      BY <1>1, <1>2, <2>1
    <3>2. QED  BY <1>1, <2>1, <3>1 DEF Below, Fn
  <2>2. ASSUME NEW i \in 2 .. Len(calls), calls[i][1] = x PROVE Below(x)'
    <3>1. i \in 2 .. Len(calls') /\ calls'[i][1] = x
      BY <1>1, <1>2, <2>2
    <3>2. QED  BY <3>1 DEF Below, Fn
  <2>3. QED  BY <2>1, <2>2 DEF Below, Fn
<1>5. ASSUME NEW x PROVE Runs(x)' <=> x = f[1]
  BY <1>1, <1>2 DEF Runs, Quiet
<1>6. ASSUME NEW x PROVE Deep(x)' <=> Deep(x)
  <2>1. ASSUME NEW i \in 3 .. Len(calls'), calls'[i][1] = x PROVE Deep(x)
    <3>1. (i \in 3 .. Len(calls) /\ calls[i][1] = x)
      BY <1>1, <1>2, <2>1
    <3>2. QED  BY <1>1, <2>1, <3>1 DEF Deep, Fn
  <2>2. ASSUME NEW i \in 3 .. Len(calls), calls[i][1] = x PROVE Deep(x)'
    <3>1. i \in 3 .. Len(calls') /\ calls'[i][1] = x
      BY <1>1, <1>2, <2>2
    <3>2. QED  BY <3>1 DEF Deep, Fn
  <2>3. QED  BY <2>1, <2>2 DEF Deep, Fn
<1>7. QED  BY <1>1, <1>3, <1>4, <1>5, <1>6

\* It keeps its form if the new call fits.
LEMMA CallsOneFit ==
    ASSUME calls \in Seq(Frame), ~Quiet, NEW f \in Frame, Then(<<f>>)
    PROVE  /\ Replied /\ (f[1] = "processReply" => Under(1) = "replyDone") => Replied'
           /\ Framed /\ Fits(f[1], Under(1)) => Framed'
           /\ OneHolder /\ (Below("removeFirst") => f[1] \in AboveRemove) => OneHolder'
           /\ OneCont /\ ((\E c \in Conts : Below(c)) => f[1] \in AboveCont) => OneCont'
           /\ Holding /\ hist'.current = hist.current
                  /\ (f[1] \in Holders => hist'.current # 0 /\ f[2] = hist'.current) => Holding'
<1>1. /\ calls' \in Seq(Frame) /\ Len(calls') = Len(calls)
      /\ calls'[1] = f
      /\ \A i \in 2 .. Len(calls) : calls'[i] = calls[i]
  BY CallsOne
<1>2. Len(calls) \in Nat /\ Len(calls) >= 1
  BY DEF Quiet
<1>3. ASSUME NEW i \in 2 .. Len(calls')
      PROVE  i \in 2 .. Len(calls) /\ calls'[i] = calls[i]
             /\ Fn(i)' = Fn(i) /\ Under(i)' = Under(i)
  <2>1. i \in 2 .. Len(calls) /\ calls'[i] = calls[i]
    BY <1>1, <1>2
  <2>2. CASE i < Len(calls')
    <3>1. calls'[i + 1] = calls[i + 1] /\ i < Len(calls)
      BY <1>1, <1>2, <2>2
    <3>2. QED  BY <2>1, <2>2, <3>1 DEF Fn, Under
  <2>3. CASE ~(i < Len(calls'))
    <3>1. ~(i < Len(calls))
      BY <1>1, <1>2, <2>3
    <3>2. QED  BY <2>1, <2>3, <3>1 DEF Fn, Under
  <2>4. QED  BY <2>2, <2>3
<1>4. /\ Fn(1)' = f[1] /\ Under(1)' = Under(1)
  BY <1>1, <1>2 DEF Fn, Under
<1>5. \A i \in 1 .. Len(calls') : i = 1 \/ i \in 2 .. Len(calls)
  BY <1>1, <1>2
<1>6. Replied /\ (f[1] = "processReply" => Under(1) = "replyDone") => Replied'
  BY <1>1, <1>3, <1>4, <1>5 DEF Replied
<1>7. Framed /\ Fits(f[1], Under(1)) => Framed'
  BY <1>1, <1>3, <1>4, <1>5 DEF Framed
<1>8. ASSUME NEW fs, NEW above, Nested(fs, above),
             (\E c \in fs : Below(c)) => f[1] \in above
      PROVE  Nested(fs, above)'
  <2> SUFFICES ASSUME NEW i \in 1 .. Len(calls'), NEW j \in 1 .. Len(calls'),
                  j < i, Fn(i)' \in fs
           PROVE  Fn(j)' \in above
    BY DEF Nested
  <2>1. CASE i > 1
    <3>0. i \in 2 .. Len(calls) /\ Fn(i)' = Fn(i)
      BY <1>1, <1>2, <1>3, <2>1
    <3>1. i \in 2 .. Len(calls) /\ Fn(i) \in fs
      BY <3>0
    <3>2. CASE j > 1
      <4>1. j \in 1 .. Len(calls) /\ j < i /\ Fn(j)' = Fn(j)
        BY <1>1, <1>2, <1>3, <3>2
      <4>2. QED  BY <1>8, <3>1, <4>1 DEF Nested
    <3>3. CASE j <= 1
      <4>1. \E c \in fs : Below(c)
        BY <3>1 DEF Below
      <4>2. j \in 1 .. 1
        BY <3>3
      <4>3. QED  BY <1>8, <4>1, <4>2, <1>4
    <3>4. QED  BY <3>2, <3>3
  <2>2. CASE i <= 1
    <3>1. i \in 1 .. 1 /\ j \in 1 .. 1
      BY <2>2
    <3>2. QED  BY <1>8, <3>1, <1>4
  <2>3. QED  BY <2>1, <2>2
<1>9. OneHolder /\ (Below("removeFirst") => f[1] \in AboveRemove) => OneHolder'
  BY <1>8 DEF OneHolder
<1>10. OneCont /\ ((\E c \in Conts : Below(c)) => f[1] \in AboveCont) => OneCont'
  BY <1>8 DEF OneCont
<1>11. Holding /\ hist'.current = hist.current
           /\ (f[1] \in Holders => hist'.current # 0 /\ f[2] = hist'.current) => Holding'
  <2> SUFFICES ASSUME Holding, hist'.current = hist.current,
      (f[1] \in Holders => hist'.current # 0 /\ f[2] = hist'.current),
                  NEW i \in 1 .. Len(calls'), Fn(i)' \in Holders
           PROVE  hist'.current # 0 /\ calls'[i][2] = hist'.current
    BY DEF Holding, Holders
  <2>1. CASE i \in 1 .. 1
    BY <1>1, <1>4, <2>1 DEF Fn
  <2>2. CASE i \notin 1 .. 1
    BY <1>3, <1>5, <2>2 DEF Holding
  <2>3. QED  BY <2>1, <2>2
<1>12. QED  BY <1>6, <1>7, <1>9, <1>10, <1>11

\* It calls two.
LEMMA CallsTwo ==
    ASSUME calls \in Seq(Frame), ~Quiet, NEW f \in Frame, NEW g \in Frame, Then(<<f, g>>)
    PROVE  /\ calls' \in Seq(Frame) /\ Len(calls') = Len(calls) + 1
           /\ calls'[1] = f /\ calls'[2] = g
           /\ \A i \in 3 .. Len(calls) + 1 : calls'[i] = calls[i - 1]
           /\ \A x : OnStack(x)' <=> x \in {f[1], g[1]} \/ Below(x)
           /\ \A x : Below(x)' <=> x = g[1] \/ Below(x)
           /\ \A x : Deep(x)' <=> Below(x)
           /\ \A x : Runs(x)' <=> x = f[1]
<1>1. /\ calls' \in Seq(Frame) /\ Len(calls') = Len(calls) + 1
      /\ calls'[1] = f /\ calls'[2] = g
      /\ \A i \in 3 .. Len(calls) + 1 : calls'[i] = calls[i - 1]
  BY TailTwo DEF Then, Quiet
<1>2. Len(calls) \in Nat /\ Len(calls) >= 1
  BY DEF Quiet
<1>3. ASSUME NEW x PROVE OnStack(x)' <=> x \in {f[1], g[1]} \/ Below(x)
  <2>1. ASSUME NEW i \in 1 .. Len(calls'), calls'[i][1] = x PROVE x \in {f[1], g[1]} \/ Below(x)
    <3>1. i \in {1, 2} \/ (i - 1 \in 2 .. Len(calls) /\ calls[i - 1][1] = x)
      BY <1>1, <1>2, <2>1
    <3>2. QED  BY <1>1, <2>1, <3>1 DEF Below, Fn
  <2>2. ASSUME NEW i \in 2 .. Len(calls), calls[i][1] = x PROVE OnStack(x)'
    <3>1. i + 1 \in 1 .. Len(calls') /\ calls'[i + 1][1] = x
      BY <1>1, <1>2, <2>2
    <3>2. QED  BY <3>1 DEF OnStack, Fn
  <2>3. x \in {f[1], g[1]} => OnStack(x)'
    BY <1>1, <1>2 DEF OnStack, Fn
  <2>4. QED  BY <2>1, <2>2, <2>3 DEF OnStack, Below, Fn
<1>4. ASSUME NEW x PROVE Below(x)' <=> x = g[1] \/ Below(x)
  <2>1. ASSUME NEW i \in 2 .. Len(calls'), calls'[i][1] = x PROVE x = g[1] \/ Below(x)
    <3>1. i = 2 \/ (i - 1 \in 2 .. Len(calls) /\ calls[i - 1][1] = x)
      BY <1>1, <1>2, <2>1
    <3>2. QED  BY <1>1, <2>1, <3>1 DEF Below, Fn
  <2>2. ASSUME NEW i \in 2 .. Len(calls), calls[i][1] = x PROVE Below(x)'
    <3>1. i + 1 \in 2 .. Len(calls') /\ calls'[i + 1][1] = x
      BY <1>1, <1>2, <2>2
    <3>2. QED  BY <3>1 DEF Below, Fn
  <2>3. x = g[1] => Below(x)'
    BY <1>1, <1>2 DEF Below, Fn
  <2>4. QED  BY <2>1, <2>2, <2>3 DEF Below, Fn
<1>5. ASSUME NEW x PROVE Runs(x)' <=> x = f[1]
  BY <1>1, <1>2 DEF Runs, Quiet
<1>6. ASSUME NEW x PROVE Deep(x)' <=> Below(x)
  <2>1. ASSUME NEW i \in 3 .. Len(calls'), calls'[i][1] = x PROVE Below(x)
    <3>1. (i - 1 \in 2 .. Len(calls) /\ calls[i - 1][1] = x)
      BY <1>1, <1>2, <2>1
    <3>2. QED  BY <1>1, <2>1, <3>1 DEF Below, Fn
  <2>2. ASSUME NEW i \in 2 .. Len(calls), calls[i][1] = x PROVE Deep(x)'
    <3>1. i + 1 \in 3 .. Len(calls') /\ calls'[i + 1][1] = x
      BY <1>1, <1>2, <2>2
    <3>2. QED  BY <3>1 DEF Deep, Fn
  <2>3. QED  BY <2>1, <2>2 DEF Deep, Below, Fn
<1>7. QED  BY <1>1, <1>3, <1>4, <1>5, <1>6

\* It keeps its form if the new calls fit.
LEMMA CallsTwoFit ==
    ASSUME calls \in Seq(Frame), ~Quiet, NEW f \in Frame, NEW g \in Frame, Then(<<f, g>>)
    PROVE  /\ Replied /\ (f[1] = "processReply" => g[1] = "replyDone")
               /\ (g[1] = "processReply" => Under(1) = "replyDone") => Replied'
           /\ Framed /\ Fits(f[1], g[1]) /\ Fits(g[1], Under(1)) => Framed'
           /\ OneHolder
                  /\ (Below("removeFirst") => f[1] \in AboveRemove /\ g[1] \in AboveRemove)
                  /\ (g[1] = "removeFirst" => f[1] \in AboveRemove) => OneHolder'
           /\ OneCont
                  /\ ((\E c \in Conts : Below(c)) => f[1] \in AboveCont /\ g[1] \in AboveCont)
                  /\ (g[1] \in Conts => f[1] \in AboveCont) => OneCont'
           /\ Holding /\ hist'.current = hist.current
                  /\ (f[1] \in Holders => hist'.current # 0 /\ f[2] = hist'.current)
                  /\ (g[1] \in Holders => hist'.current # 0 /\ g[2] = hist'.current) => Holding'
<1>1. /\ calls' \in Seq(Frame) /\ Len(calls') = Len(calls) + 1
      /\ calls'[1] = f /\ calls'[2] = g
      /\ \A i \in 3 .. Len(calls) + 1 : calls'[i] = calls[i - 1]
  BY CallsTwo
<1>2. Len(calls) \in Nat /\ Len(calls) >= 1
  BY DEF Quiet
<1>3. ASSUME NEW i \in 3 .. Len(calls')
      PROVE  i - 1 \in 2 .. Len(calls) /\ calls'[i] = calls[i - 1]
             /\ Fn(i)' = Fn(i - 1) /\ Under(i)' = Under(i - 1)
  <2>1. i - 1 \in 2 .. Len(calls) /\ calls'[i] = calls[i - 1]
    BY <1>1, <1>2
  <2>2. CASE i < Len(calls')
    <3>1. calls'[i + 1] = calls[(i - 1) + 1] /\ i - 1 < Len(calls)
      BY <1>1, <1>2, <2>2
    <3>2. QED  BY <2>1, <2>2, <3>1 DEF Fn, Under
  <2>3. CASE ~(i < Len(calls'))
    <3>1. ~(i - 1 < Len(calls))
      BY <1>1, <1>2, <2>3
    <3>2. QED  BY <2>1, <2>3, <3>1 DEF Fn, Under
  <2>4. QED  BY <2>2, <2>3
<1>4. /\ Fn(1)' = f[1] /\ Under(1)' = g[1]
      /\ Fn(2)' = g[1] /\ Under(2)' = Under(1)
  BY <1>1, <1>2 DEF Fn, Under
<1>5. \A i \in 1 .. Len(calls') : i \in 1 .. 2 \/ i - 1 \in 2 .. Len(calls)
  BY <1>1, <1>2
<1>6. Replied /\ (f[1] = "processReply" => g[1] = "replyDone")
          /\ (g[1] = "processReply" => Under(1) = "replyDone") => Replied'
  BY <1>1, <1>3, <1>4, <1>5 DEF Replied
<1>7. Framed /\ Fits(f[1], g[1]) /\ Fits(g[1], Under(1)) => Framed'
  BY <1>1, <1>3, <1>4, <1>5 DEF Framed
<1>8. ASSUME NEW fs, NEW above, Nested(fs, above),
             (\E c \in fs : Below(c)) => f[1] \in above /\ g[1] \in above,
             g[1] \in fs => f[1] \in above
      PROVE  Nested(fs, above)'
  <2> SUFFICES ASSUME NEW i \in 1 .. Len(calls'), NEW j \in 1 .. Len(calls'),
                  j < i, Fn(i)' \in fs
           PROVE  Fn(j)' \in above
    BY DEF Nested
  <2>1. CASE i > 2
    <3>0. i - 1 \in 2 .. Len(calls) /\ Fn(i)' = Fn(i - 1)
      BY <1>1, <1>2, <1>3, <2>1
    <3>1. i - 1 \in 2 .. Len(calls) /\ Fn(i - 1) \in fs
      BY <3>0
    <3>2. CASE j > 2
      <4>1. j - 1 \in 1 .. Len(calls) /\ j - 1 < i - 1 /\ Fn(j)' = Fn(j - 1)
        BY <1>1, <1>2, <1>3, <3>2
      <4>2. QED  BY <1>8, <3>1, <4>1 DEF Nested
    <3>3. CASE j <= 2
      <4>1. \E c \in fs : Below(c)
        BY <3>1 DEF Below
      <4>2. j \in 1 .. 2
        BY <3>3
      <4>3. QED  BY <1>8, <4>1, <4>2, <1>4
    <3>4. QED  BY <3>2, <3>3
  <2>2. CASE i <= 2
    <3>1. i \in 1 .. 2 /\ j \in 1 .. 2
      BY <2>2
    <3>2. QED  BY <1>8, <3>1, <1>4
  <2>3. QED  BY <2>1, <2>2
<1>9. OneHolder /\ (Below("removeFirst") => f[1] \in AboveRemove /\ g[1] \in AboveRemove)
          /\ (g[1] = "removeFirst" => f[1] \in AboveRemove) => OneHolder'
  BY <1>8 DEF OneHolder
<1>10. OneCont /\ ((\E c \in Conts : Below(c)) => f[1] \in AboveCont /\ g[1] \in AboveCont)
           /\ (g[1] \in Conts => f[1] \in AboveCont) => OneCont'
  BY <1>8 DEF OneCont
<1>11. Holding /\ hist'.current = hist.current
           /\ (f[1] \in Holders => hist'.current # 0 /\ f[2] = hist'.current)
           /\ (g[1] \in Holders => hist'.current # 0 /\ g[2] = hist'.current) => Holding'
  <2> SUFFICES ASSUME Holding, hist'.current = hist.current,
      (f[1] \in Holders => hist'.current # 0 /\ f[2] = hist'.current),
      (g[1] \in Holders => hist'.current # 0 /\ g[2] = hist'.current),
                  NEW i \in 1 .. Len(calls'), Fn(i)' \in Holders
           PROVE  hist'.current # 0 /\ calls'[i][2] = hist'.current
    BY DEF Holding, Holders
  <2>1. CASE i \in 1 .. 2
    BY <1>1, <1>4, <2>1 DEF Fn
  <2>2. CASE i \notin 1 .. 2
    BY <1>3, <1>5, <2>2 DEF Holding
  <2>3. QED  BY <2>1, <2>2
<1>12. QED  BY <1>6, <1>7, <1>9, <1>10, <1>11

\* It calls three.
LEMMA CallsThree ==
    ASSUME calls \in Seq(Frame), ~Quiet, NEW f \in Frame, NEW g \in Frame, NEW h \in Frame,
               Then(<<f, g, h>>)
    PROVE  /\ calls' \in Seq(Frame) /\ Len(calls') = Len(calls) + 2
           /\ calls'[1] = f /\ calls'[2] = g /\ calls'[3] = h
           /\ \A i \in 4 .. Len(calls) + 2 : calls'[i] = calls[i - 2]
           /\ \A x : OnStack(x)' <=> x \in {f[1], g[1], h[1]} \/ Below(x)
           /\ \A x : Below(x)' <=> x \in {g[1], h[1]} \/ Below(x)
           /\ \A x : Deep(x)' <=> x = h[1] \/ Below(x)
           /\ \A x : Runs(x)' <=> x = f[1]
<1>1. /\ calls' \in Seq(Frame) /\ Len(calls') = Len(calls) + 2
      /\ calls'[1] = f /\ calls'[2] = g /\ calls'[3] = h
      /\ \A i \in 4 .. Len(calls) + 2 : calls'[i] = calls[i - 2]
  BY TailThree DEF Then, Quiet
<1>2. Len(calls) \in Nat /\ Len(calls) >= 1
  BY DEF Quiet
<1>3. ASSUME NEW x PROVE OnStack(x)' <=> x \in {f[1], g[1], h[1]} \/ Below(x)
  <2>1. ASSUME NEW i \in 1 .. Len(calls'), calls'[i][1] = x PROVE x \in {f[1], g[1], h[1]}
                   \/ Below(x)
    <3>1. i \in {1, 2, 3} \/ (i - 2 \in 2 .. Len(calls) /\ calls[i - 2][1] = x)
      BY <1>1, <1>2, <2>1
    <3>2. QED  BY <1>1, <2>1, <3>1 DEF Below, Fn
  <2>2. ASSUME NEW i \in 2 .. Len(calls), calls[i][1] = x PROVE OnStack(x)'
    <3>1. i + 2 \in 1 .. Len(calls') /\ calls'[i + 2][1] = x
      BY <1>1, <1>2, <2>2
    <3>2. QED  BY <3>1 DEF OnStack, Fn
  <2>3. x \in {f[1], g[1], h[1]} => OnStack(x)'
    BY <1>1, <1>2 DEF OnStack, Fn
  <2>4. QED  BY <2>1, <2>2, <2>3 DEF OnStack, Below, Fn
<1>4. ASSUME NEW x PROVE Below(x)' <=> x \in {g[1], h[1]} \/ Below(x)
  <2>1. ASSUME NEW i \in 2 .. Len(calls'), calls'[i][1] = x PROVE x \in {g[1], h[1]} \/ Below(x)
    <3>1. i \in {2, 3} \/ (i - 2 \in 2 .. Len(calls) /\ calls[i - 2][1] = x)
      BY <1>1, <1>2, <2>1
    <3>2. QED  BY <1>1, <2>1, <3>1 DEF Below, Fn
  <2>2. ASSUME NEW i \in 2 .. Len(calls), calls[i][1] = x PROVE Below(x)'
    <3>1. i + 2 \in 2 .. Len(calls') /\ calls'[i + 2][1] = x
      BY <1>1, <1>2, <2>2
    <3>2. QED  BY <3>1 DEF Below, Fn
  <2>3. x \in {g[1], h[1]} => Below(x)'
    BY <1>1, <1>2 DEF Below, Fn
  <2>4. QED  BY <2>1, <2>2, <2>3 DEF Below, Fn
<1>5. ASSUME NEW x PROVE Runs(x)' <=> x = f[1]
  BY <1>1, <1>2 DEF Runs, Quiet
<1>6. ASSUME NEW x PROVE Deep(x)' <=> x = h[1] \/ Below(x)
  <2>1. ASSUME NEW i \in 3 .. Len(calls'), calls'[i][1] = x PROVE x = h[1] \/ Below(x)
    <3>1. i = 3 \/ (i - 2 \in 2 .. Len(calls) /\ calls[i - 2][1] = x)
      BY <1>1, <1>2, <2>1
    <3>2. QED  BY <1>1, <2>1, <3>1 DEF Below, Fn
  <2>2. ASSUME NEW i \in 2 .. Len(calls), calls[i][1] = x PROVE Deep(x)'
    <3>1. i + 2 \in 3 .. Len(calls') /\ calls'[i + 2][1] = x
      BY <1>1, <1>2, <2>2
    <3>2. QED  BY <3>1 DEF Deep, Fn
  <2>3. x = h[1] => Deep(x)'
    BY <1>1, <1>2 DEF Deep, Fn
  <2>4. QED  BY <2>1, <2>2, <2>3 DEF Deep, Below, Fn
<1>7. QED  BY <1>1, <1>3, <1>4, <1>5, <1>6

\* It keeps its form if the new calls fit.
LEMMA CallsThreeFit ==
    ASSUME calls \in Seq(Frame), ~Quiet, NEW f \in Frame, NEW g \in Frame, NEW h \in Frame,
               Then(<<f, g, h>>)
    PROVE  /\ Replied /\ (f[1] = "processReply" => g[1] = "replyDone")
               /\ (g[1] = "processReply" => h[1] = "replyDone")
               /\ (h[1] = "processReply" => Under(1) = "replyDone") => Replied'
           /\ Framed /\ Fits(f[1], g[1]) /\ Fits(g[1], h[1]) /\ Fits(h[1], Under(1)) => Framed'
           /\ OneHolder
                  /\ (Below("removeFirst")
                  => f[1] \in AboveRemove /\ g[1] \in AboveRemove /\ h[1] \in AboveRemove)
                  /\ (g[1] = "removeFirst" => f[1] \in AboveRemove)
                  /\ (h[1] = "removeFirst" => f[1] \in AboveRemove /\ g[1] \in AboveRemove)
                  => OneHolder'
           /\ OneCont
                  /\ ((\E c \in Conts : Below(c))
                  => f[1] \in AboveCont /\ g[1] \in AboveCont /\ h[1] \in AboveCont)
                  /\ (g[1] \in Conts => f[1] \in AboveCont)
                  /\ (h[1] \in Conts => f[1] \in AboveCont /\ g[1] \in AboveCont) => OneCont'
           /\ Holding /\ hist'.current = hist.current
                  /\ (f[1] \in Holders => hist'.current # 0 /\ f[2] = hist'.current)
                  /\ (g[1] \in Holders => hist'.current # 0 /\ g[2] = hist'.current)
                  /\ (h[1] \in Holders => hist'.current # 0 /\ h[2] = hist'.current) => Holding'
<1>1. /\ calls' \in Seq(Frame) /\ Len(calls') = Len(calls) + 2
      /\ calls'[1] = f /\ calls'[2] = g /\ calls'[3] = h
      /\ \A i \in 4 .. Len(calls) + 2 : calls'[i] = calls[i - 2]
  BY CallsThree
<1>2. Len(calls) \in Nat /\ Len(calls) >= 1
  BY DEF Quiet
<1>3. ASSUME NEW i \in 4 .. Len(calls')
      PROVE  i - 2 \in 2 .. Len(calls) /\ calls'[i] = calls[i - 2]
             /\ Fn(i)' = Fn(i - 2) /\ Under(i)' = Under(i - 2)
  <2>1. i - 2 \in 2 .. Len(calls) /\ calls'[i] = calls[i - 2]
    BY <1>1, <1>2
  <2>2. CASE i < Len(calls')
    <3>1. calls'[i + 1] = calls[(i - 2) + 1] /\ i - 2 < Len(calls)
      BY <1>1, <1>2, <2>2
    <3>2. QED  BY <2>1, <2>2, <3>1 DEF Fn, Under
  <2>3. CASE ~(i < Len(calls'))
    <3>1. ~(i - 2 < Len(calls))
      BY <1>1, <1>2, <2>3
    <3>2. QED  BY <2>1, <2>3, <3>1 DEF Fn, Under
  <2>4. QED  BY <2>2, <2>3
<1>4. /\ Fn(1)' = f[1] /\ Under(1)' = g[1]
      /\ Fn(2)' = g[1] /\ Under(2)' = h[1]
      /\ Fn(3)' = h[1] /\ Under(3)' = Under(1)
  BY <1>1, <1>2 DEF Fn, Under
<1>5. \A i \in 1 .. Len(calls') : i \in 1 .. 3 \/ i - 2 \in 2 .. Len(calls)
  BY <1>1, <1>2
<1>6. Replied /\ (f[1] = "processReply" => g[1] = "replyDone")
          /\ (g[1] = "processReply" => h[1] = "replyDone")
          /\ (h[1] = "processReply" => Under(1) = "replyDone") => Replied'
  BY <1>1, <1>3, <1>4, <1>5 DEF Replied
<1>7. Framed /\ Fits(f[1], g[1]) /\ Fits(g[1], h[1]) /\ Fits(h[1], Under(1)) => Framed'
  BY <1>1, <1>3, <1>4, <1>5 DEF Framed
<1>8. ASSUME NEW fs, NEW above, Nested(fs, above),
             (\E c \in fs : Below(c)) => f[1] \in above /\ g[1] \in above /\ h[1] \in above,
             g[1] \in fs => f[1] \in above,
             h[1] \in fs => f[1] \in above /\ g[1] \in above
      PROVE  Nested(fs, above)'
  <2> SUFFICES ASSUME NEW i \in 1 .. Len(calls'), NEW j \in 1 .. Len(calls'),
                  j < i, Fn(i)' \in fs
           PROVE  Fn(j)' \in above
    BY DEF Nested
  <2>1. CASE i > 3
    <3>0. i \in 4 .. Len(calls')
      BY <2>1
    <3>1. i - 2 \in 2 .. Len(calls) /\ Fn(i - 2) \in fs
      BY <1>3, <3>0
    <3>2. CASE j > 3
      <4>0. j \in 4 .. Len(calls')
        BY <3>2
      <4>1. j - 2 \in 2 .. Len(calls) /\ Fn(j)' = Fn(j - 2)
        BY <1>3, <4>0
      <4>2. j - 2 \in 1 .. Len(calls) /\ j - 2 < i - 2
        BY <1>1, <1>2, <4>1
      <4>3. QED  BY <1>8, <3>1, <4>1, <4>2 DEF Nested
    <3>3. CASE j <= 3
      <4>1. \E c \in fs : Below(c)
        BY <3>1 DEF Below
      <4>2. j \in 1 .. 3
        BY <3>3
      <4>3. QED  BY <1>8, <4>1, <4>2, <1>4
    <3>4. QED  BY <3>2, <3>3
  <2>2. CASE i <= 3
    <3>1. i \in 1 .. 3 /\ j \in 1 .. 3
      BY <2>2
    <3>2. QED  BY <1>8, <3>1, <1>4
  <2>3. QED  BY <2>1, <2>2
<1>9. OneHolder
          /\ (Below("removeFirst")
          => f[1] \in AboveRemove /\ g[1] \in AboveRemove /\ h[1] \in AboveRemove)
          /\ (g[1] = "removeFirst" => f[1] \in AboveRemove)
          /\ (h[1] = "removeFirst" => f[1] \in AboveRemove /\ g[1] \in AboveRemove) => OneHolder'
  BY <1>8 DEF OneHolder
<1>10. OneCont
           /\ ((\E c \in Conts : Below(c))
           => f[1] \in AboveCont /\ g[1] \in AboveCont /\ h[1] \in AboveCont)
           /\ (g[1] \in Conts => f[1] \in AboveCont)
           /\ (h[1] \in Conts => f[1] \in AboveCont /\ g[1] \in AboveCont) => OneCont'
  BY <1>8 DEF OneCont
<1>11. Holding /\ hist'.current = hist.current
           /\ (f[1] \in Holders => hist'.current # 0 /\ f[2] = hist'.current)
           /\ (g[1] \in Holders => hist'.current # 0 /\ g[2] = hist'.current)
           /\ (h[1] \in Holders => hist'.current # 0 /\ h[2] = hist'.current) => Holding'
  <2> SUFFICES ASSUME Holding, hist'.current = hist.current,
      (f[1] \in Holders => hist'.current # 0 /\ f[2] = hist'.current),
      (g[1] \in Holders => hist'.current # 0 /\ g[2] = hist'.current),
      (h[1] \in Holders => hist'.current # 0 /\ h[2] = hist'.current),
                  NEW i \in 1 .. Len(calls'), Fn(i)' \in Holders
           PROVE  hist'.current # 0 /\ calls'[i][2] = hist'.current
    BY DEF Holding, Holders
  <2>1. CASE i \in 1 .. 3
    BY <1>1, <1>4, <2>1 DEF Fn
  <2>2. CASE i \notin 1 .. 3
    BY <1>3, <1>5, <2>2 DEF Holding
  <2>3. QED  BY <2>1, <2>2
<1>12. QED  BY <1>6, <1>7, <1>9, <1>10, <1>11

\* It calls one, and goes on.
LEMMA PushOne ==
    ASSUME calls \in Seq(Frame), ~Quiet, NEW f \in Frame, calls' = <<f>> \o calls
    PROVE  /\ calls' \in Seq(Frame) /\ Len(calls') = Len(calls) + 1
           /\ calls'[1] = f
           /\ \A i \in 2 .. Len(calls) + 1 : calls'[i] = calls[i - 1]
           /\ \A x : OnStack(x)' <=> x = f[1] \/ OnStack(x)
           /\ \A x : Below(x)' <=> OnStack(x)
           /\ \A x : Deep(x)' <=> Below(x)
           /\ \A x : Runs(x)' <=> x = f[1]
<1>1. /\ calls' \in Seq(Frame) /\ Len(calls') = Len(calls) + 1
      /\ calls'[1] = f
      /\ \A i \in 2 .. Len(calls) + 1 : calls'[i] = calls[i - 1]
  BY OnOne DEF Then, Quiet
<1>2. Len(calls) \in Nat /\ Len(calls) >= 1
  BY DEF Quiet
<1>3. ASSUME NEW x PROVE OnStack(x)' <=> x = f[1] \/ OnStack(x)
  <2>1. ASSUME NEW i \in 1 .. Len(calls'), calls'[i][1] = x PROVE x = f[1] \/ OnStack(x)
    <3>1. i = 1 \/ (i - 1 \in 1 .. Len(calls) /\ calls[i - 1][1] = x)
      BY <1>1, <1>2, <2>1
    <3>2. QED  BY <1>1, <2>1, <3>1 DEF OnStack, Fn
  <2>2. ASSUME NEW i \in 1 .. Len(calls), calls[i][1] = x PROVE OnStack(x)'
    <3>1. i + 1 \in 1 .. Len(calls') /\ calls'[i + 1][1] = x
      BY <1>1, <1>2, <2>2
    <3>2. QED  BY <3>1 DEF OnStack, Fn
  <2>3. x = f[1] => OnStack(x)'
    BY <1>1, <1>2 DEF OnStack, Fn
  <2>4. QED  BY <2>1, <2>2, <2>3 DEF OnStack, Fn
<1>4. ASSUME NEW x PROVE Below(x)' <=> OnStack(x)
  <2>1. ASSUME NEW i \in 2 .. Len(calls'), calls'[i][1] = x PROVE OnStack(x)
    <3>1. (i - 1 \in 1 .. Len(calls) /\ calls[i - 1][1] = x)
      BY <1>1, <1>2, <2>1
    <3>2. QED  BY <1>1, <2>1, <3>1 DEF OnStack, Fn
  <2>2. ASSUME NEW i \in 1 .. Len(calls), calls[i][1] = x PROVE Below(x)'
    <3>1. i + 1 \in 2 .. Len(calls') /\ calls'[i + 1][1] = x
      BY <1>1, <1>2, <2>2
    <3>2. QED  BY <3>1 DEF Below, Fn
  <2>3. QED  BY <2>1, <2>2 DEF Below, OnStack, Fn
<1>5. ASSUME NEW x PROVE Runs(x)' <=> x = f[1]
  BY <1>1, <1>2 DEF Runs, Quiet
<1>6. ASSUME NEW x PROVE Deep(x)' <=> Below(x)
  <2>1. ASSUME NEW i \in 3 .. Len(calls'), calls'[i][1] = x PROVE Below(x)
    <3>1. (i - 1 \in 2 .. Len(calls) /\ calls[i - 1][1] = x)
      BY <1>1, <1>2, <2>1
    <3>2. QED  BY <1>1, <2>1, <3>1 DEF Below, Fn
  <2>2. ASSUME NEW i \in 2 .. Len(calls), calls[i][1] = x PROVE Deep(x)'
    <3>1. i + 1 \in 3 .. Len(calls') /\ calls'[i + 1][1] = x
      BY <1>1, <1>2, <2>2
    <3>2. QED  BY <3>1 DEF Deep, Fn
  <2>3. QED  BY <2>1, <2>2 DEF Deep, Below, Fn
<1>7. QED  BY <1>1, <1>3, <1>4, <1>5, <1>6

\* It keeps its form if the new call fits.
LEMMA PushOneFit ==
    ASSUME calls \in Seq(Frame), ~Quiet, NEW f \in Frame, calls' = <<f>> \o calls
    PROVE  /\ Replied /\ (f[1] = "processReply" => Fn(1) = "replyDone") => Replied'
           /\ Framed /\ Fits(f[1], Fn(1)) => Framed'
           /\ OneHolder /\ (OnStack("removeFirst") => f[1] \in AboveRemove) => OneHolder'
           /\ OneCont /\ ((\E c \in Conts : OnStack(c)) => f[1] \in AboveCont) => OneCont'
           /\ Holding /\ hist'.current = hist.current
                  /\ (f[1] \in Holders => hist'.current # 0 /\ f[2] = hist'.current) => Holding'
<1>1. /\ calls' \in Seq(Frame) /\ Len(calls') = Len(calls) + 1
      /\ calls'[1] = f
      /\ \A i \in 2 .. Len(calls) + 1 : calls'[i] = calls[i - 1]
  BY PushOne
<1>2. Len(calls) \in Nat /\ Len(calls) >= 1
  BY DEF Quiet
<1>3. ASSUME NEW i \in 2 .. Len(calls')
      PROVE  i - 1 \in 1 .. Len(calls) /\ calls'[i] = calls[i - 1]
             /\ Fn(i)' = Fn(i - 1) /\ Under(i)' = Under(i - 1)
  <2>1. i - 1 \in 1 .. Len(calls) /\ calls'[i] = calls[i - 1]
    BY <1>1, <1>2
  <2>2. CASE i < Len(calls')
    <3>1. calls'[i + 1] = calls[(i - 1) + 1] /\ i - 1 < Len(calls)
      BY <1>1, <1>2, <2>2
    <3>2. QED  BY <2>1, <2>2, <3>1 DEF Fn, Under
  <2>3. CASE ~(i < Len(calls'))
    <3>1. ~(i - 1 < Len(calls))
      BY <1>1, <1>2, <2>3
    <3>2. QED  BY <2>1, <2>3, <3>1 DEF Fn, Under
  <2>4. QED  BY <2>2, <2>3
<1>4. /\ Fn(1)' = f[1] /\ Under(1)' = Fn(1)
  BY <1>1, <1>2 DEF Fn, Under
<1>5. \A i \in 1 .. Len(calls') : i = 1 \/ i - 1 \in 1 .. Len(calls)
  BY <1>1, <1>2
<1>6. Replied /\ (f[1] = "processReply" => Fn(1) = "replyDone") => Replied'
  BY <1>1, <1>3, <1>4, <1>5 DEF Replied
<1>7. Framed /\ Fits(f[1], Fn(1)) => Framed'
  BY <1>1, <1>3, <1>4, <1>5 DEF Framed
<1>8. ASSUME NEW fs, NEW above, Nested(fs, above),
             (\E c \in fs : OnStack(c)) => f[1] \in above
      PROVE  Nested(fs, above)'
  <2> SUFFICES ASSUME NEW i \in 1 .. Len(calls'), NEW j \in 1 .. Len(calls'),
                  j < i, Fn(i)' \in fs
           PROVE  Fn(j)' \in above
    BY DEF Nested
  <2>1. CASE i > 1
    <3>0. i - 1 \in 1 .. Len(calls) /\ Fn(i)' = Fn(i - 1)
      BY <1>1, <1>2, <1>3, <2>1
    <3>1. i - 1 \in 1 .. Len(calls) /\ Fn(i - 1) \in fs
      BY <3>0
    <3>2. CASE j > 1
      <4>1. j - 1 \in 1 .. Len(calls) /\ j - 1 < i - 1 /\ Fn(j)' = Fn(j - 1)
        BY <1>1, <1>2, <1>3, <3>2
      <4>2. QED  BY <1>8, <3>1, <4>1 DEF Nested
    <3>3. CASE j <= 1
      <4>1. \E c \in fs : OnStack(c)
        BY <3>1 DEF OnStack
      <4>2. j \in 1 .. 1
        BY <3>3
      <4>3. QED  BY <1>8, <4>1, <4>2, <1>4
    <3>4. QED  BY <3>2, <3>3
  <2>2. CASE i <= 1
    <3>1. i \in 1 .. 1 /\ j \in 1 .. 1
      BY <2>2
    <3>2. QED  BY <1>8, <3>1, <1>4
  <2>3. QED  BY <2>1, <2>2
<1>9. OneHolder /\ (OnStack("removeFirst") => f[1] \in AboveRemove) => OneHolder'
  BY <1>8 DEF OneHolder
<1>10. OneCont /\ ((\E c \in Conts : OnStack(c)) => f[1] \in AboveCont) => OneCont'
  BY <1>8 DEF OneCont
<1>11. Holding /\ hist'.current = hist.current
           /\ (f[1] \in Holders => hist'.current # 0 /\ f[2] = hist'.current) => Holding'
  <2> SUFFICES ASSUME Holding, hist'.current = hist.current,
      (f[1] \in Holders => hist'.current # 0 /\ f[2] = hist'.current),
                  NEW i \in 1 .. Len(calls'), Fn(i)' \in Holders
           PROVE  hist'.current # 0 /\ calls'[i][2] = hist'.current
    BY DEF Holding, Holders
  <2>1. CASE i \in 1 .. 1
    BY <1>1, <1>4, <2>1 DEF Fn
  <2>2. CASE i \notin 1 .. 1
    BY <1>3, <1>5, <2>2 DEF Holding
  <2>3. QED  BY <2>1, <2>2
<1>12. QED  BY <1>6, <1>7, <1>9, <1>10, <1>11

\* It calls two, and goes on.
LEMMA PushTwo ==
    ASSUME calls \in Seq(Frame), ~Quiet, NEW f \in Frame, NEW g \in Frame,
               calls' = <<f, g>> \o calls
    PROVE  /\ calls' \in Seq(Frame) /\ Len(calls') = Len(calls) + 2
           /\ calls'[1] = f /\ calls'[2] = g
           /\ \A i \in 3 .. Len(calls) + 2 : calls'[i] = calls[i - 2]
           /\ \A x : OnStack(x)' <=> x \in {f[1], g[1]} \/ OnStack(x)
           /\ \A x : Below(x)' <=> x = g[1] \/ OnStack(x)
           /\ \A x : Deep(x)' <=> OnStack(x)
           /\ \A x : Runs(x)' <=> x = f[1]
<1>1. /\ calls' \in Seq(Frame) /\ Len(calls') = Len(calls) + 2
      /\ calls'[1] = f /\ calls'[2] = g
      /\ \A i \in 3 .. Len(calls) + 2 : calls'[i] = calls[i - 2]
  BY OnTwo DEF Then, Quiet
<1>2. Len(calls) \in Nat /\ Len(calls) >= 1
  BY DEF Quiet
<1>3. ASSUME NEW x PROVE OnStack(x)' <=> x \in {f[1], g[1]} \/ OnStack(x)
  <2>1. ASSUME NEW i \in 1 .. Len(calls'), calls'[i][1] = x PROVE x \in {f[1], g[1]} \/ OnStack(x)
    <3>1. i \in {1, 2} \/ (i - 2 \in 1 .. Len(calls) /\ calls[i - 2][1] = x)
      BY <1>1, <1>2, <2>1
    <3>2. QED  BY <1>1, <2>1, <3>1 DEF OnStack, Fn
  <2>2. ASSUME NEW i \in 1 .. Len(calls), calls[i][1] = x PROVE OnStack(x)'
    <3>1. i + 2 \in 1 .. Len(calls') /\ calls'[i + 2][1] = x
      BY <1>1, <1>2, <2>2
    <3>2. QED  BY <3>1 DEF OnStack, Fn
  <2>3. x \in {f[1], g[1]} => OnStack(x)'
    BY <1>1, <1>2 DEF OnStack, Fn
  <2>4. QED  BY <2>1, <2>2, <2>3 DEF OnStack, Fn
<1>4. ASSUME NEW x PROVE Below(x)' <=> x = g[1] \/ OnStack(x)
  <2>1. ASSUME NEW i \in 2 .. Len(calls'), calls'[i][1] = x PROVE x = g[1] \/ OnStack(x)
    <3>1. i = 2 \/ (i - 2 \in 1 .. Len(calls) /\ calls[i - 2][1] = x)
      BY <1>1, <1>2, <2>1
    <3>2. QED  BY <1>1, <2>1, <3>1 DEF OnStack, Fn
  <2>2. ASSUME NEW i \in 1 .. Len(calls), calls[i][1] = x PROVE Below(x)'
    <3>1. i + 2 \in 2 .. Len(calls') /\ calls'[i + 2][1] = x
      BY <1>1, <1>2, <2>2
    <3>2. QED  BY <3>1 DEF Below, Fn
  <2>3. x = g[1] => Below(x)'
    BY <1>1, <1>2 DEF Below, Fn
  <2>4. QED  BY <2>1, <2>2, <2>3 DEF Below, OnStack, Fn
<1>5. ASSUME NEW x PROVE Runs(x)' <=> x = f[1]
  BY <1>1, <1>2 DEF Runs, Quiet
<1>6. ASSUME NEW x PROVE Deep(x)' <=> OnStack(x)
  <2>1. ASSUME NEW i \in 3 .. Len(calls'), calls'[i][1] = x PROVE OnStack(x)
    <3>1. (i - 2 \in 1 .. Len(calls) /\ calls[i - 2][1] = x)
      BY <1>1, <1>2, <2>1
    <3>2. QED  BY <1>1, <2>1, <3>1 DEF OnStack, Fn
  <2>2. ASSUME NEW i \in 1 .. Len(calls), calls[i][1] = x PROVE Deep(x)'
    <3>1. i + 2 \in 3 .. Len(calls') /\ calls'[i + 2][1] = x
      BY <1>1, <1>2, <2>2
    <3>2. QED  BY <3>1 DEF Deep, Fn
  <2>3. QED  BY <2>1, <2>2 DEF Deep, OnStack, Fn
<1>7. QED  BY <1>1, <1>3, <1>4, <1>5, <1>6

\* It keeps its form if the new calls fit.
LEMMA PushTwoFit ==
    ASSUME calls \in Seq(Frame), ~Quiet, NEW f \in Frame, NEW g \in Frame,
               calls' = <<f, g>> \o calls
    PROVE  /\ Replied /\ (f[1] = "processReply" => g[1] = "replyDone")
               /\ (g[1] = "processReply" => Fn(1) = "replyDone") => Replied'
           /\ Framed /\ Fits(f[1], g[1]) /\ Fits(g[1], Fn(1)) => Framed'
           /\ OneHolder
                  /\ (OnStack("removeFirst") => f[1] \in AboveRemove /\ g[1] \in AboveRemove)
                  /\ (g[1] = "removeFirst" => f[1] \in AboveRemove) => OneHolder'
           /\ OneCont
                  /\ ((\E c \in Conts : OnStack(c)) => f[1] \in AboveCont /\ g[1] \in AboveCont)
                  /\ (g[1] \in Conts => f[1] \in AboveCont) => OneCont'
           /\ Holding /\ hist'.current = hist.current
                  /\ (f[1] \in Holders => hist'.current # 0 /\ f[2] = hist'.current)
                  /\ (g[1] \in Holders => hist'.current # 0 /\ g[2] = hist'.current) => Holding'
<1>1. /\ calls' \in Seq(Frame) /\ Len(calls') = Len(calls) + 2
      /\ calls'[1] = f /\ calls'[2] = g
      /\ \A i \in 3 .. Len(calls) + 2 : calls'[i] = calls[i - 2]
  BY PushTwo
<1>2. Len(calls) \in Nat /\ Len(calls) >= 1
  BY DEF Quiet
<1>3. ASSUME NEW i \in 3 .. Len(calls')
      PROVE  i - 2 \in 1 .. Len(calls) /\ calls'[i] = calls[i - 2]
             /\ Fn(i)' = Fn(i - 2) /\ Under(i)' = Under(i - 2)
  <2>1. i - 2 \in 1 .. Len(calls) /\ calls'[i] = calls[i - 2]
    BY <1>1, <1>2
  <2>2. CASE i < Len(calls')
    <3>1. calls'[i + 1] = calls[(i - 2) + 1] /\ i - 2 < Len(calls)
      BY <1>1, <1>2, <2>2
    <3>2. QED  BY <2>1, <2>2, <3>1 DEF Fn, Under
  <2>3. CASE ~(i < Len(calls'))
    <3>1. ~(i - 2 < Len(calls))
      BY <1>1, <1>2, <2>3
    <3>2. QED  BY <2>1, <2>3, <3>1 DEF Fn, Under
  <2>4. QED  BY <2>2, <2>3
<1>4. /\ Fn(1)' = f[1] /\ Under(1)' = g[1]
      /\ Fn(2)' = g[1] /\ Under(2)' = Fn(1)
  BY <1>1, <1>2 DEF Fn, Under
<1>5. \A i \in 1 .. Len(calls') : i \in 1 .. 2 \/ i - 2 \in 1 .. Len(calls)
  BY <1>1, <1>2
<1>6. Replied /\ (f[1] = "processReply" => g[1] = "replyDone")
          /\ (g[1] = "processReply" => Fn(1) = "replyDone") => Replied'
  BY <1>1, <1>3, <1>4, <1>5 DEF Replied
<1>7. Framed /\ Fits(f[1], g[1]) /\ Fits(g[1], Fn(1)) => Framed'
  BY <1>1, <1>3, <1>4, <1>5 DEF Framed
<1>8. ASSUME NEW fs, NEW above, Nested(fs, above),
             (\E c \in fs : OnStack(c)) => f[1] \in above /\ g[1] \in above,
             g[1] \in fs => f[1] \in above
      PROVE  Nested(fs, above)'
  <2> SUFFICES ASSUME NEW i \in 1 .. Len(calls'), NEW j \in 1 .. Len(calls'),
                  j < i, Fn(i)' \in fs
           PROVE  Fn(j)' \in above
    BY DEF Nested
  <2>1. CASE i > 2
    <3>0. i - 2 \in 1 .. Len(calls) /\ Fn(i)' = Fn(i - 2)
      BY <1>1, <1>2, <1>3, <2>1
    <3>1. i - 2 \in 1 .. Len(calls) /\ Fn(i - 2) \in fs
      BY <3>0
    <3>2. CASE j > 2
      <4>1. j - 2 \in 1 .. Len(calls) /\ j - 2 < i - 2 /\ Fn(j)' = Fn(j - 2)
        BY <1>1, <1>2, <1>3, <3>2
      <4>2. QED  BY <1>8, <3>1, <4>1 DEF Nested
    <3>3. CASE j <= 2
      <4>1. \E c \in fs : OnStack(c)
        BY <3>1 DEF OnStack
      <4>2. j \in 1 .. 2
        BY <3>3
      <4>3. QED  BY <1>8, <4>1, <4>2, <1>4
    <3>4. QED  BY <3>2, <3>3
  <2>2. CASE i <= 2
    <3>1. i \in 1 .. 2 /\ j \in 1 .. 2
      BY <2>2
    <3>2. QED  BY <1>8, <3>1, <1>4
  <2>3. QED  BY <2>1, <2>2
<1>9. OneHolder /\ (OnStack("removeFirst") => f[1] \in AboveRemove /\ g[1] \in AboveRemove)
          /\ (g[1] = "removeFirst" => f[1] \in AboveRemove) => OneHolder'
  BY <1>8 DEF OneHolder
<1>10. OneCont /\ ((\E c \in Conts : OnStack(c)) => f[1] \in AboveCont /\ g[1] \in AboveCont)
           /\ (g[1] \in Conts => f[1] \in AboveCont) => OneCont'
  BY <1>8 DEF OneCont
<1>11. Holding /\ hist'.current = hist.current
           /\ (f[1] \in Holders => hist'.current # 0 /\ f[2] = hist'.current)
           /\ (g[1] \in Holders => hist'.current # 0 /\ g[2] = hist'.current) => Holding'
  <2> SUFFICES ASSUME Holding, hist'.current = hist.current,
      (f[1] \in Holders => hist'.current # 0 /\ f[2] = hist'.current),
      (g[1] \in Holders => hist'.current # 0 /\ g[2] = hist'.current),
                  NEW i \in 1 .. Len(calls'), Fn(i)' \in Holders
           PROVE  hist'.current # 0 /\ calls'[i][2] = hist'.current
    BY DEF Holding, Holders
  <2>1. CASE i \in 1 .. 2
    BY <1>1, <1>4, <2>1 DEF Fn
  <2>2. CASE i \notin 1 .. 2
    BY <1>3, <1>5, <2>2 DEF Holding
  <2>3. QED  BY <2>1, <2>2
<1>12. QED  BY <1>6, <1>7, <1>9, <1>10, <1>11

\* The event loop calls.
LEMMA BeginsNone ==
    ASSUME Begin(<<>>)
    PROVE  /\ Quiet /\ Quiet' /\ calls' \in Seq(Frame) /\ Len(calls') = 0 /\ Len(calls) = 0
           /\ \A x : ~OnStack(x)' /\ ~OnStack(x) /\ ~Below(x)' /\ ~Below(x) /\ ~Deep(x)'
           /\ \A x : ~Runs(x)' /\ ~Runs(x)
           /\ Replied' /\ Framed' /\ OneHolder' /\ OneCont' /\ Holding'
  BY DEF Begin, Quiet, OnStack, Below, Deep, Runs, Replied, Framed, OneHolder, OneCont, Nested,
         Holding

\* one function,
LEMMA BeginsOne ==
    ASSUME NEW f \in Frame, Begin(<<f>>)
    PROVE  /\ Quiet /\ calls' \in Seq(Frame) /\ Len(calls') = 1 /\ Len(calls) = 0
           /\ calls'[1] = f
           /\ \A x : (OnStack(x)' <=> x = f[1]) /\ ~OnStack(x) /\ ~Below(x)' /\ ~Below(x)
                  /\ ~Deep(x)'
           /\ \A x : (Runs(x)' <=> x = f[1]) /\ ~Runs(x)
           /\ f[1] # "processReply" => Replied'
           /\ Fits(f[1], "none") => Framed'
           /\ OneHolder' /\ OneCont'
           /\ f[1] \notin Holders => Holding'
<1>1. Quiet /\ calls' \in Seq(Frame) /\ Len(calls') = 1 /\ Len(calls) = 0 /\ calls'[1] = f
  BY DEF Begin, Quiet
<1>2. ASSUME NEW x
      PROVE  /\ OnStack(x)' <=> x = f[1]
             /\ Runs(x)' <=> x = f[1]
             /\ ~OnStack(x) /\ ~Below(x)' /\ ~Below(x) /\ ~Deep(x)' /\ ~Runs(x)
  <2>1. OnStack(x)' <=> x = f[1]
    BY <1>1 DEF OnStack, Fn
  <2>2. Runs(x)' <=> x = f[1]
    BY <1>1 DEF Runs, Quiet
  <2>3. ~OnStack(x) /\ ~Below(x)' /\ ~Below(x) /\ ~Deep(x)' /\ ~Runs(x)
    BY <1>1 DEF OnStack, Below, Deep, Runs, Quiet
  <2>4. QED  BY <2>1, <2>2, <2>3
<1>3. /\ f[1] # "processReply" => Replied'
      /\ Fits(f[1], "none") => Framed'
      /\ OneHolder' /\ OneCont'
      /\ f[1] \notin Holders => Holding'
  BY <1>1 DEF Replied, Framed, OneHolder, OneCont, Nested, Holding, Fn, Under
<1>4. QED  BY <1>1, <1>2, <1>3

\* or one that was called by another.
LEMMA BeginsTwo ==
    ASSUME NEW f \in Frame, NEW g \in Frame, Begin(<<f, g>>)
    PROVE  /\ Quiet /\ calls' \in Seq(Frame) /\ Len(calls') = 2 /\ Len(calls) = 0
           /\ calls'[1] = f /\ calls'[2] = g
           /\ \A x : (OnStack(x)' <=> x \in {f[1], g[1]}) /\ ~OnStack(x)
           /\ \A x : (Below(x)' <=> x = g[1]) /\ ~Below(x) /\ ~Deep(x)'
           /\ \A x : (Runs(x)' <=> x = f[1]) /\ ~Runs(x)
           /\ "processReply" \notin {f[1], g[1]} => Replied'
           /\ Fits(f[1], g[1]) /\ Fits(g[1], "none") => Framed'
           /\ g[1] # "removeFirst" => OneHolder'
           /\ g[1] \notin Conts => OneCont'
           /\ f[1] \notin Holders /\ g[1] \notin Holders => Holding'
<1>1. Quiet /\ calls' \in Seq(Frame) /\ Len(calls') = 2 /\ Len(calls) = 0
      /\ calls'[1] = f /\ calls'[2] = g
  BY DEF Begin, Quiet
<1>2. \A i : i \in 1 .. 2 <=> i = 1 \/ i = 2
  OBVIOUS
<1>3. /\ \A x : (OnStack(x)' <=> x \in {f[1], g[1]}) /\ ~OnStack(x)
      /\ \A x : (Below(x)' <=> x = g[1]) /\ ~Below(x) /\ ~Deep(x)'
      /\ \A x : (Runs(x)' <=> x = f[1]) /\ ~Runs(x)
  BY <1>1, <1>2 DEF OnStack, Below, Deep, Runs, Quiet, Fn
<1>4. /\ "processReply" \notin {f[1], g[1]} => Replied'
      /\ Fits(f[1], g[1]) /\ Fits(g[1], "none") => Framed'
      /\ g[1] # "removeFirst" => OneHolder'
      /\ g[1] \notin Conts => OneCont'
      /\ f[1] \notin Holders /\ g[1] \notin Holders => Holding'
  BY <1>1, <1>2 DEF Replied, Framed, OneHolder, OneCont, Nested, Holding, Fn, Under
<1>5. QED  BY <1>1, <1>3, <1>4

\* The frames there are.
LEMMA Frames ==
    /\ <<"startNextCommand">> \in Frame /\ <<"piFinished">> \in Frame
    /\ <<"startNextCmd">> \in Frame /\ <<"clearPendingCommands">> \in Frame
    /\ <<"pendingCleared">> \in Frame /\ <<"readyRead">> \in Frame
    /\ <<"readLines">> \in Frame /\ <<"processReply">> \in Frame
    /\ <<"replyDone">> \in Frame /\ <<"react">> \in Frame
    /\ <<"afterFailure">> \in Frame /\ <<"clearError">> \in Frame
    /\ <<"dtpConnected">> \in Frame /\ <<"dtpRefused">> \in Frame
    /\ <<"afterRefusal">> \in Frame /\ <<"dtpClosed">> \in Frame
    /\ <<"dtpSettled">> \in Frame /\ <<"dataReadyRead">> \in Frame
    /\ <<"listLines">> \in Frame
    /\ \A s \in FtpStates : <<"connectState", s>> \in Frame
    /\ \A s \in Seq(RawCommands) : <<"sendCommands", s>> \in Frame
    /\ \A e \in FtpErrors : <<"piError", e>> \in Frame
    /\ \A u \in UrlInfo : <<"listInfo", u>> \in Frame
    /\ \A id \in 1 .. MaxCommands :
          /\ <<"commandFinished", id>> \in Frame
          /\ <<"commandFailed", id>> \in Frame
          /\ <<"removeFirst", id>> \in Frame
  BY DEF Frame

\* What the frame that runs holds.
LEMMA Args ==
    ASSUME calls \in Seq(Frame), ~Quiet
    PROVE  /\ calls[1] = Head(calls) /\ calls[1] \in Frame /\ Len(calls) \in Nat /\ Len(calls) >= 1
           /\ Fn(1) = Head(calls)[1] /\ Fn(1) # "none"
           /\ \A x : Runs(x) <=> Fn(1) = x
           /\ Runs("connectState") => Arg \in FtpStates
           /\ Runs("sendCommands") => Arg \in Seq(RawCommands)
           /\ Runs("piError") => Arg \in FtpErrors
           /\ Runs("listInfo") => Arg \in UrlInfo
           /\ Fn(1) \in Holders => Arg \in 1 .. MaxCommands
<1>1. calls[1] = Head(calls) /\ calls[1] \in Frame /\ Len(calls) \in Nat /\ Len(calls) >= 1
  BY DEF Quiet
<1>2. Fn(1) = Head(calls)[1] /\ \A x : Runs(x) <=> Fn(1) = x
  BY <1>1 DEF Fn, Runs
<1>3. ASSUME NEW f \in Frame
      PROVE  /\ f[1] # "none"
             /\ f[1] = "connectState" => f[2] \in FtpStates
             /\ f[1] = "sendCommands" => f[2] \in Seq(RawCommands)
             /\ f[1] = "piError" => f[2] \in FtpErrors
             /\ f[1] = "listInfo" => f[2] \in UrlInfo
             /\ f[1] \in Holders => f[2] \in 1 .. MaxCommands
  BY DEF Frame, Holders
<1>4. QED  BY <1>1, <1>2, <1>3 DEF Arg

-----------------------------------------------------------------------------
(***************************************************************************)
(* Types. What the variables become where the provers need more than the   *)
(* definitions.                                                            *)
(***************************************************************************)

\* Sequences.
LEMMA NoElements == \A S : <<>> \in Seq(S)
  OBVIOUS

\* The rest of a sequence.
LEMMA TailSeq ==
    ASSUME NEW S, NEW s \in Seq(S), s # <<>>
    PROVE  Head(s) \in S /\ Tail(s) \in Seq(S)
  OBVIOUS

\* What is added to one.
LEMMA AppendSeq ==
    ASSUME NEW S, NEW s \in Seq(S), NEW e \in S
    PROVE  Append(s, e) \in Seq(S) /\ <<e>> \o s \in Seq(S) /\ <<e>> \in Seq(S)
  OBVIOUS

\* The first command of the queue.
LEMMA CurrentTyped ==
    ASSUME TypeOK, ftp.pending # <<>>
    PROVE  /\ Current.id \in 1 .. MaxCommands /\ Current.cmd \in AllCommands
           /\ Tail(ftp.pending) \in Seq([id : 1 .. MaxCommands, cmd : AllCommands])
           /\ <<Head(ftp.pending)>> \in Seq([id : 1 .. MaxCommands, cmd : AllCommands])
<1> DEFINE C == [id : 1 .. MaxCommands, cmd : AllCommands]
<1>1. ftp.pending \in Seq(C)
  BY DEF TypeOK, Private
<1>2. Head(ftp.pending) \in C /\ Tail(ftp.pending) \in Seq(C)
  BY <1>1, TailSeq
<1>3. <<Head(ftp.pending)>> \in Seq(C)
  BY <1>2
<1>4. QED  BY <1>2, <1>3 DEF Current

\* The commands that may be scheduled.
LEMMA CommandsKnown ==
    /\ Commands \subseteq AllCommands
    /\ "Close" \in AllCommands
    /\ MaxCommands \in Nat /\ MaxCommands >= 2
  BY QFtpAssumption DEF AllCommands

\* _q_startNextCommand(): the identifier of the command it starts.
LEMMA StartNextCommandHistory ==
    ASSUME TypeOK, StartNextCommand
    PROVE  hist' \in History
<1>1. CASE ftp.pending = <<>>
  BY <1>1 DEF StartNextCommand, TypeOK
<1>2. CASE ftp.pending # <<>>
  <2>1. hist' = [hist EXCEPT !.current = Current.id, !.owed = 0, !.files = 0, !.done = FALSE]
    BY <1>2 DEF StartNextCommand
  <2>2. ASSUME NEW c \in 0 .. MaxCommands
        PROVE  [hist EXCEPT !.current = c, !.owed = 0, !.files = 0, !.done = FALSE] \in History
    <3>1. ASSUME NEW h \in History
          PROVE  /\ [h EXCEPT !.current = c] \in History
                 /\ [h EXCEPT !.owed = 0] \in History
                 /\ [h EXCEPT !.files = 0] \in History
                 /\ [h EXCEPT !.done = FALSE] \in History
      <4>1. [h EXCEPT !.current = c] \in History
        BY DEF History
      <4>2. [h EXCEPT !.owed = 0] \in History
        BY DEF History
      <4>3. [h EXCEPT !.files = 0] \in History
        BY DEF History
      <4>4. [h EXCEPT !.done = FALSE] \in History
        BY DEF History
      <4>5. QED  BY <4>1, <4>2, <4>3, <4>4
    <3>2. QED  BY <3>1 DEF TypeOK
  <2>3. Current.id \in 0 .. MaxCommands
    BY <1>2, CurrentTyped, CommandsKnown
  <2>4. QED  BY <2>1, <2>2, <2>3
<1>3. QED  BY <1>1, <1>2

\* A command is removed.
LEMMA RemoveFirstHistory ==
    ASSUME TypeOK, RemoveFirst
    PROVE  hist' \in History
<1>1. hist' = [hist EXCEPT !.current = 0] /\ 0 \in 0 .. MaxCommands
  BY CommandsKnown DEF RemoveFirst
<1>2. QED  BY <1>1 DEF TypeOK, History

\* startNextCmd(): one more raw command is sent.
LEMMA StartNextCmdHistory ==
    ASSUME TypeOK, StartNextCmd
    PROVE  hist' \in History
<1>1. CASE pi.toConnect
  BY <1>1 DEF StartNextCmd, TypeOK
<1>2. CASE ~pi.toConnect
  <2>1. PICK s \in Nat, b \in BOOLEAN : hist' = [hist EXCEPT !.sent = s, !.overrun = b]
    <3>1. hist' = [hist EXCEPT !.sent = IF pi.todo = <<>> THEN hist.sent ELSE hist.sent + 1,
                               !.overrun = hist.overrun \/ pi.state # "Idle"]
      BY <1>2 DEF StartNextCmd
    <3>2. (IF pi.todo = <<>> THEN hist.sent ELSE hist.sent + 1) \in Nat
      BY DEF TypeOK, History
    <3>3. (hist.overrun \/ pi.state # "Idle") \in BOOLEAN
      BY Zenon
    <3>4. QED  BY <3>1, <3>2, <3>3
  <2>2. QED  BY <2>1 DEF TypeOK, History
<1>3. QED  BY <1>1, <1>2

\* A line of a listing goes.
LEMMA ListLinesData ==
    ASSUME TypeOK, ListLines
    PROVE  dtp' \in DataConnection
<1>1. CASE dtp.lines = <<>>
  BY <1>1 DEF ListLines, TypeOK
<1>2. CASE dtp.lines # <<>>
  <2>1. PICK b \in BOOLEAN : dtp' = [dtp EXCEPT !.lines = Tail(dtp.lines), !.err = b]
    <3>1. dtp' = [dtp EXCEPT !.lines = Tail(dtp.lines),
                             !.err = dtp.err \/ Head(dtp.lines) = "missing"]
      BY <1>2 DEF ListLines
    <3>2. (dtp.err \/ Head(dtp.lines) = "missing") \in BOOLEAN
      BY Zenon
    <3>3. QED  BY Zenon, <3>1, <3>2
  <2>2. Tail(dtp.lines) \in Seq(Lines)
    BY <1>2 DEF TypeOK, DataConnection
  <2>3. QED  BY <2>1, <2>2 DEF TypeOK, DataConnection
<1>3. QED  BY <1>1, <1>2

\* processReply() may set up a data connection.
LEMMA ProcessReplyData ==
    ASSUME TypeOK, ProcessReply
    PROVE  dtp' \in DataConnection /\ net' \in Connections
<1>1. ASSUME dtp' = [dtp EXCEPT !.state = "connecting", !.lines = <<>>],
             net' = [net EXCEPT !.data = <<>>, !.fin = FALSE]
      PROVE  dtp' \in DataConnection /\ net' \in Connections
  BY <1>1, NoElements DEF TypeOK, DataConnection, Connections
<1>2. CASE UNCHANGED <<dtp, net>>
  BY <1>2 DEF TypeOK
<1>3. QED  BY <1>1, <1>2 DEF ProcessReply

\* A reply is taken from the buffer.
LEMMA ReadLinesReplies ==
    ASSUME TypeOK, ReadLines
    PROVE  pi' \in Interpreter /\ net' \in Connections
<1>1. CASE net.buffer = <<>>
  BY <1>1 DEF ReadLines, TypeOK
<1>2. CASE net.buffer # <<>>
  <2>1. Head(net.buffer) \in Reply /\ Tail(net.buffer) \in Seq(Reply)
    BY <1>2 DEF TypeOK, Connections
  <2>2. net' = [net EXCEPT !.buffer = Tail(net.buffer)]
    BY <1>2 DEF ReadLines
  <2>3. pi' = IF pi.text THEN pi ELSE [pi EXCEPT !.reply = Head(net.buffer), !.text = TRUE]
    BY <1>2 DEF ReadLines
  <2>4. pi' \in Interpreter
    BY <2>1, <2>3 DEF TypeOK, Interpreter
  <2>5. QED  BY <2>1, <2>2, <2>4 DEF TypeOK, Connections
<1>3. QED  BY <1>1, <1>2

\* Lines of a listing are read.
LEMMA SocketReadyReadData ==
    ASSUME TypeOK, SocketReadyRead
    PROVE  dtp' \in DataConnection
<1>1. dtp' = [dtp EXCEPT !.lines = dtp.lines \o net.data]
  BY DEF SocketReadyRead
<1>2. dtp.lines \o net.data \in Seq(Lines)
  BY DEF TypeOK, DataConnection, Connections
<1>3. QED  BY <1>1, <1>2 DEF TypeOK, DataConnection

\* processReply() leaves an interpreter.
LEMMA ProcessReplyInterpreter ==
    ASSUME TypeOK, ProcessReply
    PROVE  pi' \in Interpreter
<1>1. StateFor(Code) \in {"Idle", "Waiting", "Success", "Failure"}
  BY DEF StateFor
<1>2. pi' = [pi EXCEPT !.state = StateFor(Code), !.toConnect = TRUE] => pi' \in Interpreter
  BY <1>1 DEF TypeOK, Interpreter
<1>3. pi' = [pi EXCEPT !.state = StateFor(Code)] => pi' \in Interpreter
  BY <1>1 DEF TypeOK, Interpreter
<1>4. ASSUME pi' = [pi EXCEPT !.state = StateFor(Code),
                              !.todo = IF pi.cmd = "USER" /\ pi.todo # <<>>
                                  /\ Head(pi.todo) = "PASS"
                                       THEN Tail(pi.todo) ELSE pi.todo]
      PROVE  pi' \in Interpreter
  <2>1. PICK t \in Seq(RawCommands) : pi' = [pi EXCEPT !.state = StateFor(Code), !.todo = t]
    <3>1. pi.todo \in Seq(RawCommands)
      BY DEF TypeOK, Interpreter
    <3>2. pi.todo # <<>> => Tail(pi.todo) \in Seq(RawCommands)
      BY <3>1
    <3>3. QED  BY <1>4, <3>1, <3>2
  <2>2. QED  BY <1>1, <2>1 DEF TypeOK, Interpreter
<1>5. QED  BY <1>2, <1>3, <1>4 DEF ProcessReply

\* So does a failure, which may add PASV.
LEMMA ReactFailureInterpreter ==
    ASSUME TypeOK, ReactFailure
    PROVE  pi' \in Interpreter
<1>1. CASE pi.cmd = "EPSV"
  <2>1. pi' = [pi EXCEPT !.extended = FALSE, !.todo = <<"PASV">> \o pi.todo]
    BY <1>1 DEF ReactFailure
  <2>2. <<"PASV">> \o pi.todo \in Seq(RawCommands)
    <3>1. pi.todo \in Seq(RawCommands) /\ "PASV" \in RawCommands
      BY DEF TypeOK, Interpreter, RawCommands
    <3>2. QED  BY <3>1, AppendSeq
  <2>3. QED  BY <2>1, <2>2 DEF TypeOK, Interpreter
<1>2. CASE pi.cmd # "EPSV"
  BY <1>2 DEF ReactFailure, TypeOK
<1>3. QED  BY <1>1, <1>2

\* The raw command that is sent.
LEMMA StartNextCmdSends ==
    ASSUME TypeOK, StartNextCmd
    PROVE  pi' \in Interpreter /\ net' \in Connections
<1>1. CASE pi.toConnect
  BY <1>1 DEF StartNextCmd, TypeOK
<1>2. CASE ~pi.toConnect /\ pi.todo = <<>>
  BY <1>2 DEF StartNextCmd, TypeOK, Interpreter
<1>3. CASE ~pi.toConnect /\ pi.todo # <<>>
  <2>1. /\ pi' = [pi EXCEPT !.cmd = NextCmd, !.todo = Tail(pi.todo), !.state = "Waiting"]
        /\ net' = [net EXCEPT !.outbox = Append(net.outbox,
               [cmd |-> NextCmd, to |-> hist.sent + 1])]
    BY <1>3 DEF StartNextCmd
  <2>2. Head(pi.todo) \in RawCommands /\ Tail(pi.todo) \in Seq(RawCommands)
    <3>1. pi.todo \in Seq(RawCommands)
      BY DEF TypeOK, Interpreter
    <3>2. QED  BY <1>3, <3>1, TailSeq
  <2>3. NextCmd \in RawCommands
    BY <2>2 DEF NextCmd, RawCommands
  <2>4. pi' \in Interpreter
    BY <2>1, <2>2, <2>3 DEF TypeOK, Interpreter
  <2>5. [cmd |-> NextCmd, to |-> hist.sent + 1] \in [cmd : RawCommands, to : Nat]
    BY <2>3 DEF TypeOK, History
  <2>6. Append(net.outbox, [cmd |-> NextCmd, to |-> hist.sent + 1])
            \in Seq([cmd : RawCommands, to : Nat])
    BY <2>5, AppendSeq DEF TypeOK, Connections
  <2>7. net' \in Connections
    BY <2>1, <2>6 DEF TypeOK, Connections
  <2>8. QED  BY <2>4, <2>7
<1>4. QED  BY <1>1, <1>2, <1>3

\* What a slot that schedules a command does.
LEMMA Adds ==
    ASSUME TypeOK, NEW h \in History, NEW c \in AllCommands, AddCommandTo(h, c)
    PROVE  ftp' \in Private /\ hist' \in History
<1>1. h.id + 1 \in 2 .. MaxCommands /\ h.id + 1 \in 1 .. MaxCommands
  BY CommandsKnown DEF AddCommandTo, History
<1>2. hist' \in History
  BY <1>1 DEF AddCommandTo, History
<1>3. [id |-> h.id + 1, cmd |-> c] \in [id : 1 .. MaxCommands, cmd : AllCommands]
  BY <1>1
<1>4. Append(ftp.pending, [id |-> h.id + 1, cmd |-> c])
          \in Seq([id : 1 .. MaxCommands, cmd : AllCommands])
  BY <1>3, AppendSeq DEF TypeOK, Private
<1>5. PICK n \in Nat : ftp' = [ftp EXCEPT !.pending = Append(ftp.pending,
                           [id |-> h.id + 1, cmd |-> c]),
                                         !.posted = n]
  <2>1. ftp.posted \in Nat /\ ftp.posted + 1 \in Nat
    BY DEF TypeOK, Private
  <2>2. QED  BY <2>1 DEF AddCommandTo
<1>6. ftp' \in Private
  BY <1>4, <1>5 DEF TypeOK, Private
<1>7. QED  BY <1>2, <1>6

\* Each of the slots.
LEMMA SlotsSchedule ==
    ASSUME TypeOK, CommandFinishedSlot \/ CommandFailedSlot \/ ListInfoSlot \/ ClientCloses
    PROVE  ftp' \in Private /\ hist' \in History
<1>1. ASSUME NEW c \in AllCommands, AddCommandTo(hist, c) PROVE ftp' \in Private
                 /\ hist' \in History
  BY <1>1, Adds DEF TypeOK
<1>2. CASE UNCHANGED <<ftp, hist>>
  BY <1>2 DEF TypeOK
<1>3. CASE CommandFinishedSlot \/ CommandFailedSlot \/ ClientCloses
  BY <1>1, <1>2, <1>3, CommandsKnown
     DEF CommandFinishedSlot, CommandFailedSlot, ClientCloses, Schedules, AddCommand
<1>4. CASE ListInfoSlot
  <2> DEFINE counted == [hist EXCEPT !.files = IF Arg.file THEN hist.files - 1 ELSE hist.files]
  <2>1. counted \in History
    BY DEF TypeOK, History
  <2>2. \/ \E c \in Commands : AddCommandTo(counted, c)
        \/ hist' = counted /\ UNCHANGED ftp
    BY <1>4 DEF ListInfoSlot
  <2>3. CASE \E c \in Commands : AddCommandTo(counted, c)
    BY <2>1, <2>3, Adds, CommandsKnown
  <2>4. CASE hist' = counted /\ UNCHANGED ftp
    BY <2>1, <2>4 DEF TypeOK
  <2>5. QED  BY <2>2, <2>3, <2>4
<1>5. QED  BY <1>3, <1>4

\* The greeting is put on the wire.
LEMMA ConnectedConnections ==
    ASSUME TypeOK, Connected
    PROVE  net' \in Connections
<1>1. PICK codes \in { <<220>>, <<120, 220>>, <<421>> } :
          net' = [net EXCEPT !.link = "open",
                             !.wire = [i \in DOMAIN codes |-> [code |-> codes[i], to |-> 0]],
                             !.quit = codes = <<421>>]
  BY DEF Connected
<1>2. [i \in DOMAIN codes |-> [code |-> codes[i], to |-> 0]] \in Seq(Reply)
  <2>1. codes \in Seq(Codes)
    <3>1. <<220>> \in Seq(Codes) /\ <<120, 220>> \in Seq(Codes) /\ <<421>> \in Seq(Codes)
      BY DEF Codes
    <3>2. CASE codes = <<220>>
      BY <3>1, <3>2
    <3>3. CASE codes = <<120, 220>>
      BY <3>1, <3>3
    <3>4. CASE codes = <<421>>
      BY <3>1, <3>4
    <3>5. QED  BY Zenon, <3>2, <3>3, <3>4
  <2>2. \A i \in DOMAIN codes : [code |-> codes[i], to |-> 0] \in Reply
    BY <2>1 DEF Reply
  <2>3. QED  BY <2>1, <2>2
<1>3. (codes = <<421>>) \in BOOLEAN
  BY Zenon
<1>4. \A w \in Seq(Reply), q \in BOOLEAN :
         [net EXCEPT !.link = "open", !.wire = w, !.quit = q] \in Connections
  BY ZenonT(30) DEF TypeOK, Connections
<1>5. PICK w \in Seq(Reply), q \in BOOLEAN :
         net' = [net EXCEPT !.link = "open", !.wire = w, !.quit = q]
  <2> DEFINE w0 == [i \in DOMAIN codes |-> [code |-> codes[i], to |-> 0]]
             q0 == codes = <<421>>
  <2>1. w0 \in Seq(Reply) /\ net' = [net EXCEPT !.link = "open", !.wire = w0, !.quit = q0]
    BY <1>1, <1>2
  <2>2. q0 \in BOOLEAN
    BY <1>3
  <2> HIDE DEF w0, q0
  <2>3. QED  BY <2>1, <2>2
<1>6. QED  BY <1>4, <1>5

\* A part of the wire is read.
LEMMA ArrivesConnections ==
    ASSUME TypeOK, Arrives
    PROVE  net' \in Connections
<1>1. PICK n \in {1, Len(net.wire)} :
          net' = [net EXCEPT !.buffer = net.buffer \o SubSeq(net.wire, 1, n),
                             !.wire = SubSeq(net.wire, n + 1, Len(net.wire))]
  BY DEF Arrives
<1>2. net.wire \in Seq(Reply) /\ net.wire # <<>> /\ net.buffer \in Seq(Reply)
  BY DEF Arrives, TypeOK, Connections
<1>3. n \in 1 .. Len(net.wire)
  BY <1>2
<1>4. /\ net.buffer \o SubSeq(net.wire, 1, n) \in Seq(Reply)
      /\ SubSeq(net.wire, n + 1, Len(net.wire)) \in Seq(Reply)
  BY <1>2, <1>3
<1>5. QED  BY <1>1, <1>4 DEF TypeOK, Connections

\* The number of the entries of a listing.
LEMMA Counted ==
    ASSUME NEW lines \in Seq(Lines)
    PROVE  Entries(lines) \in Nat /\ RegularFiles(lines) \in Nat
<1>1. IsFiniteSet(DOMAIN lines)
  <2>1. DOMAIN lines = 1 .. Len(lines) /\ Len(lines) \in Nat
    OBVIOUS
  <2>2. QED  BY <2>1, FS_Interval
<1>2. ASSUME NEW S \in SUBSET DOMAIN lines PROVE Cardinality(S) \in Nat
  BY <1>1, FS_Subset, FS_CardinalityType
<1>3. QED  BY <1>2 DEF Entries, RegularFiles

\* Replies and a listing are sent.
LEMMA ServeConnections ==
    ASSUME TypeOK, Serve
    PROVE  net' \in Connections /\ hist' \in History
<1>1. /\ Served \in [cmd : RawCommands, to : Nat]
      /\ Tail(net.outbox) \in Seq([cmd : RawCommands, to : Nat])
  <2>1. net.outbox \in Seq([cmd : RawCommands, to : Nat]) /\ net.outbox # <<>>
    BY DEF TypeOK, Connections, Serve
  <2>2. QED  BY <2>1, TailSeq DEF Served
<1>2. ASSUME NEW code \in Codes PROVE Reply1(code) \in Reply
  BY <1>1 DEF Reply, Reply1
<1>3. net.wire \in Seq(Reply)
  BY DEF TypeOK, Connections
<1>4. CASE ServerReplies
  <2>1. PICK code \in Answers(Served.cmd) :
           net' = [net EXCEPT !.outbox = Tail(net.outbox),
                              !.wire = Append(net.wire, Reply1(code)),
                              !.port = net.port \/ code \in {227, 229},
                              !.quit = net.quit \/ code = 221]
    BY <1>4 DEF ServerReplies
  <2>2. code \in Codes
    BY <1>1 DEF Answers, Codes
  <2>3. Append(net.wire, Reply1(code)) \in Seq(Reply)
    BY <1>2, <1>3, <2>2
  <2>4. /\ (net.port \/ code \in {227, 229}) \in BOOLEAN
        /\ (net.quit \/ code = 221) \in BOOLEAN
    BY Zenon
  <2>5. \A o \in Seq([cmd : RawCommands, to : Nat]), w \in Seq(Reply),
          p \in BOOLEAN, q \in BOOLEAN :
           [net EXCEPT !.outbox = o, !.wire = w, !.port = p, !.quit = q] \in Connections
    BY DEF TypeOK, Connections
  <2> DEFINE p0 == net.port \/ code \in {227, 229}
             q0 == net.quit \/ code = 221
  <2>6. /\ net' = [net EXCEPT !.outbox = Tail(net.outbox),
                              !.wire = Append(net.wire, Reply1(code)),
                              !.port = p0, !.quit = q0]
        /\ p0 \in BOOLEAN /\ q0 \in BOOLEAN
    BY <2>1, <2>4
  <2> HIDE DEF p0, q0
  <2>7. net' \in Connections
    BY <1>1, <2>3, <2>5, <2>6
  <2>8. QED  BY <1>4, <2>7 DEF ServerReplies, TypeOK
<1>5. CASE ServerRefuses
  <2>1. net' = [net EXCEPT !.outbox = Tail(net.outbox), !.wire = Append(net.wire, Reply1(425))]
    BY <1>5 DEF ServerRefuses
  <2>2. Append(net.wire, Reply1(425)) \in Seq(Reply)
    BY <1>2, <1>3 DEF Codes
  <2>3. \A o \in Seq([cmd : RawCommands, to : Nat]), w \in Seq(Reply) :
           [net EXCEPT !.outbox = o, !.wire = w] \in Connections
    BY DEF TypeOK, Connections
  <2>4. net' \in Connections
    BY <1>1, <2>1, <2>2, <2>3
  <2>5. QED  BY <1>5, <2>4 DEF ServerRefuses, TypeOK
<1>6. CASE ServerTransfers
  <2>1. PICK lines \in Listings, code \in {226, 250, 426} :
           /\ IsListing(lines)
           /\ code = 250 => Served.cmd = "RETR"
           /\ lines = <<"missing">> => code # 426
           /\ net' = [net EXCEPT !.outbox = Tail(net.outbox),
                                 !.wire = net.wire \o <<Reply1(150), Reply1(code)>>,
                                 !.data = lines, !.fin = TRUE, !.port = FALSE]
           /\ hist' = [hist EXCEPT !.done = code # 426,
                          !.owed = IF Served.cmd = "LIST" THEN Entries(lines) ELSE hist.owed,
                          !.files = IF Served.cmd = "LIST" THEN RegularFiles(lines) ELSE hist.files,
                          !.dataError = hist.dataError
                              \/ (lines = <<"missing">> /\ Served.cmd = "LIST")]
    BY Zenon, <1>6 DEF ServerTransfers
  <2>2. lines \in Seq(Lines)
    BY QFtpAssumption DEF Listings
  <2>3. net.wire \o <<Reply1(150), Reply1(code)>> \in Seq(Reply)
    <3>1. Reply1(150) \in Reply /\ Reply1(code) \in Reply
      BY <1>2 DEF Codes
    <3>2. QED  BY <1>3, <3>1
  <2>4. net' \in Connections
    BY <1>1, <2>1, <2>2, <2>3 DEF TypeOK, Connections
  <2>5. PICK d \in BOOLEAN, o \in Int, f \in Int, e \in BOOLEAN :
           hist' = [hist EXCEPT !.done = d, !.owed = o, !.files = f, !.dataError = e]
    <3>1. /\ (IF Served.cmd = "LIST" THEN Entries(lines) ELSE hist.owed) \in Int
          /\ (IF Served.cmd = "LIST" THEN RegularFiles(lines) ELSE hist.files) \in Int
      BY <2>2, Counted DEF TypeOK, History
    <3>2. /\ (code # 426) \in BOOLEAN
          /\ (hist.dataError \/ (lines = <<"missing">> /\ Served.cmd = "LIST")) \in BOOLEAN
      BY Zenon
    <3> DEFINE d0 == code # 426
               e0 == hist.dataError \/ (lines = <<"missing">> /\ Served.cmd = "LIST")
               o0 == IF Served.cmd = "LIST" THEN Entries(lines) ELSE hist.owed
               f0 == IF Served.cmd = "LIST" THEN RegularFiles(lines) ELSE hist.files
    <3>3. /\ hist' = [hist EXCEPT !.done = d0, !.owed = o0, !.files = f0, !.dataError = e0]
          /\ d0 \in BOOLEAN /\ o0 \in Int /\ f0 \in Int /\ e0 \in BOOLEAN
      BY <2>1, <3>1, <3>2
    <3> HIDE DEF d0, o0, f0, e0
    <3>4. QED  BY <3>3
  <2>6. hist' \in History
    <3>1. ASSUME NEW h \in History
          PROVE  /\ [h EXCEPT !.done = d] \in History
                 /\ [h EXCEPT !.owed = o] \in History
                 /\ [h EXCEPT !.files = f] \in History
                 /\ [h EXCEPT !.dataError = e] \in History
      <4>1. [h EXCEPT !.done = d] \in History
        BY DEF History
      <4>2. [h EXCEPT !.owed = o] \in History
        BY DEF History
      <4>3. [h EXCEPT !.files = f] \in History
        BY DEF History
      <4>4. [h EXCEPT !.dataError = e] \in History
        BY DEF History
      <4>5. QED  BY <4>1, <4>2, <4>3, <4>4
    <3>2. QED  BY <2>5, <3>1 DEF TypeOK
  <2>7. QED  BY <2>4, <2>6
<1>7. QED  BY <1>4, <1>5, <1>6 DEF Serve

-----------------------------------------------------------------------------
(***************************************************************************)
(* Types: the stack. Each call leaves a stack of frames, on which          *)
(* processReply() returns to the one who looks at what it returned.        *)
(***************************************************************************)

\* The raw commands of a command.
LEMMA RawTyped == \A c \in AllCommands : Raw(c) \in Seq(RawCommands)
<1>1. ASSUME NEW a \in RawCommands, NEW b \in RawCommands, NEW c \in RawCommands,
             NEW d \in RawCommands
      PROVE  /\ <<>> \in Seq(RawCommands) /\ <<a>> \in Seq(RawCommands)
             /\ <<a, b>> \in Seq(RawCommands) /\ <<a, b, c>> \in Seq(RawCommands)
             /\ <<a, b, c, d>> \in Seq(RawCommands)
  OBVIOUS
<1>2. /\ {"USER", "PASS", "TYPE", "PASV", "LIST", "SIZE", "RETR"} \subseteq RawCommands
      /\ {"CWD", "RNFR", "RNTO", "QUIT"} \subseteq RawCommands
  BY DEF RawCommands
<1>3. /\ Raw("Connect") \in Seq(RawCommands) /\ Raw("Login") \in Seq(RawCommands)
      /\ Raw("List") \in Seq(RawCommands) /\ Raw("Get") \in Seq(RawCommands)
      /\ Raw("Cd") \in Seq(RawCommands) /\ Raw("Rename") \in Seq(RawCommands)
      /\ Raw("Close") \in Seq(RawCommands)
  BY <1>1, <1>2 DEF Raw
<1>4. QED  BY <1>3 DEF AllCommands

\* What a line of a listing is parsed to.
LEMMA InfoTyped == \A line : ParseDir(line) \in UrlInfo
<1> SUFFICES ASSUME NEW line PROVE ParseDir(line) \in UrlInfo  OBVIOUS
<1>1. /\ (line = "unixFile") \in BOOLEAN /\ (line = "unixLink") \in BOOLEAN
      /\ (line # "dosDirectory") \in BOOLEAN /\ (line = "dosDirectory") \in BOOLEAN
      /\ (line = "dosShortcut") \in BOOLEAN
  BY Zenon
<1>0. (line \in {"unixDirectory", "unixLink"}) \in BOOLEAN
  OBVIOUS
<1>2. \A f \in BOOLEAN, d \in BOOLEAN, s \in BOOLEAN :
         [file |-> f, dir |-> d, symLink |-> s] \in UrlInfo
  BY DEF UrlInfo
<1>3. UnixDir(line) \in UrlInfo /\ DosDir(line) \in UrlInfo
  BY Zenon, <1>0, <1>1, <1>2 DEF UnixDir, DosDir
<1>4. QED  BY <1>3 DEF ParseDir

\* Calls one after the other.
LEMMA JoinTwo ==
    ASSUME NEW a \in Frame, NEW b \in Frame
    PROVE  <<a>> \o <<b>> = <<a, b>>
<1>1. /\ <<a>> \o <<b>> \in Seq(Frame) /\ Len(<<a>> \o <<b>>) = 2
      /\ (<<a>> \o <<b>>)[1] = a /\ (<<a>> \o <<b>>)[2] = b
  OBVIOUS
<1>2. <<a, b>> \in Seq(Frame) /\ Len(<<a, b>>) = 2 /\ <<a, b>>[1] = a /\ <<a, b>>[2] = b
  OBVIOUS
<1>3. \A i : i \in 1 .. 2 <=> i = 1 \/ i = 2
  OBVIOUS
<1>4. QED  BY <1>1, <1>2, <1>3, SeqEqual

\* And three.
LEMMA JoinThree ==
    ASSUME NEW a \in Frame, NEW b \in Frame, NEW c \in Frame
    PROVE  <<a, b>> \o <<c>> = <<a, b, c>>
<1> DEFINE l == <<a, b>> \o <<c>>
           r == <<a, b, c>>
<1>1. l \in Seq(Frame) /\ Len(l) = 3 /\ l[1] = a /\ l[2] = b /\ l[3] = c
  OBVIOUS
<1>2. r \in Seq(Frame) /\ Len(r) = 3 /\ r[1] = a /\ r[2] = b /\ r[3] = c
  OBVIOUS
<1> HIDE DEF l, r
<1>3. \A i \in 1 .. 3 : l[i] = r[i]
  BY <1>1, <1>2
<1>4. l = r
  BY <1>1, <1>2, <1>3, SeqEqual
<1>5. QED  BY <1>4 DEF l, r

\* And none before them.
LEMMA JoinNone ==
    ASSUME NEW S, NEW a \in S, NEW s \in Seq(S)
    PROVE  <<>> \o <<a>> = <<a>> /\ <<>> \o s = s
  OBVIOUS

\* _q_startNextCommand(): the stack.
LEMMA StartNextCommandStack ==
    ASSUME TypeOK, Replied, StartNextCommand
    PROVE  calls' \in Seq(Frame) /\ Replied'
<1>1. CASE ftp.pending = <<>>
  <2>1. Then(<<>>)
    BY <1>1 DEF StartNextCommand, Return
  <2>2. ~Quiet /\ calls \in Seq(Frame)
    BY DEF Runs, TypeOK, StartNextCommand
  <2>3. QED
    BY <2>1, <2>2, Returns, ReturnsFit
<1>2. CASE ftp.pending # <<>> /\ Current.cmd = "Connect"
  <2>1. Then(<< <<"connectState", "HostLookup">> >>)
    BY <1>2 DEF StartNextCommand, Return
  <2>2. <<"connectState", "HostLookup">> \in Frame
    BY Frames DEF FtpStates, FtpErrors
  <2>3. ~Quiet /\ calls \in Seq(Frame)
    BY DEF Runs, TypeOK, StartNextCommand
  <2>4. QED
    BY <2>1, <2>2, <2>3, CallsOne, CallsOneFit
<1>3. CASE ftp.pending # <<>> /\ Current.cmd # "Connect"
  <2>1. Then(<< <<"sendCommands", Raw(Current.cmd)>> >>)
    BY <1>3 DEF StartNextCommand, Return
  <2>2. <<"sendCommands", Raw(Current.cmd)>> \in Frame
    BY <1>3, Frames, CurrentTyped, RawTyped DEF TypeOK
  <2>3. ~Quiet /\ calls \in Seq(Frame)
    BY DEF Runs, TypeOK, StartNextCommand
  <2>4. QED
    BY <2>1, <2>2, <2>3, CallsOne, CallsOneFit
<1>4. QED
  BY <1>1, <1>2, <1>3

\* _q_piFinished(): the stack.
LEMMA PiFinishedStack ==
    ASSUME TypeOK, Replied, PiFinished
    PROVE  calls' \in Seq(Frame) /\ Replied'
<1>1. CASE ftp.pending = <<>> \/ (Current.cmd = "Close" /\ ftp.state # "Unconnected")
  <2>1. Then(<<>>)
    BY <1>1 DEF PiFinished, Return
  <2>2. ~Quiet /\ calls \in Seq(Frame)
    BY DEF Runs, TypeOK, PiFinished
  <2>3. QED
    BY <2>1, <2>2, Returns, ReturnsFit
<1>2. CASE ~(ftp.pending = <<>> \/ (Current.cmd = "Close" /\ ftp.state # "Unconnected"))
  <2>1. Then(<< <<"commandFinished", Current.id>>, <<"removeFirst", Current.id>> >>)
    BY <1>2 DEF PiFinished, Return
  <2>2. <<"commandFinished", Current.id>> \in Frame /\ <<"removeFirst", Current.id>> \in Frame
    BY <1>2, Frames, CurrentTyped, RawTyped DEF TypeOK
  <2>3. ~Quiet /\ calls \in Seq(Frame)
    BY DEF Runs, TypeOK, PiFinished
  <2>4. calls' \in Seq(Frame)
    BY <2>1, <2>2, <2>3, CallsTwo
  <2>5. Replied'
    BY <2>1, <2>2, <2>3, CallsTwoFit
  <2>6. QED  BY <2>4, <2>5
<1>3. QED
  BY <1>1, <1>2

\* _q_piError(): the stack.
LEMMA PiErrorStack ==
    ASSUME TypeOK, Replied, PiError
    PROVE  calls' \in Seq(Frame) /\ Replied'
<1>1. CASE ftp.pending = <<>> \/ (Current.cmd = "Get" /\ pi.cmd = "SIZE")
  <2>1. Then(<<>>)
    BY <1>1 DEF PiError, Return
  <2>2. ~Quiet /\ calls \in Seq(Frame)
    BY DEF Runs, TypeOK, PiError
  <2>3. QED
    BY <2>1, <2>2, Returns, ReturnsFit
<1>2. CASE ~(ftp.pending = <<>> \/ (Current.cmd = "Get" /\ pi.cmd = "SIZE"))
  <2>1. Then(<< <<"clearPendingCommands">>, <<"commandFailed", Current.id>>,
            <<"removeFirst", Current.id>> >>)
    BY <1>2 DEF PiError, Return
  <2>2. <<"clearPendingCommands">> \in Frame /\ <<"commandFailed", Current.id>> \in Frame
            /\ <<"removeFirst", Current.id>> \in Frame
    BY <1>2, Frames, CurrentTyped, RawTyped DEF TypeOK
  <2>3. ~Quiet /\ calls \in Seq(Frame)
    BY DEF Runs, TypeOK, PiError
  <2>4. calls' \in Seq(Frame)
    BY <2>1, <2>2, <2>3, CallsThree
  <2>5. Replied'
    BY <2>1, <2>2, <2>3, CallsThreeFit
  <2>6. QED  BY <2>4, <2>5
<1>3. QED
  BY <1>1, <1>2

\* _q_piFinished() or _q_piError() goes on and removes its command: the stack.
LEMMA RemoveFirstStack ==
    ASSUME TypeOK, Replied, RemoveFirst
    PROVE  calls' \in Seq(Frame) /\ Replied'
<1>1. CASE Tail(ftp.pending) = <<>>
  <2>1. Then(<<>>)
    BY <1>1 DEF RemoveFirst, Return
  <2>2. ~Quiet /\ calls \in Seq(Frame)
    BY DEF Runs, TypeOK, RemoveFirst
  <2>3. QED
    BY <2>1, <2>2, Returns, ReturnsFit
<1>2. CASE Tail(ftp.pending) # <<>>
  <2>1. Then(<< <<"startNextCommand">> >>)
    BY <1>2 DEF RemoveFirst, Return
  <2>2. <<"startNextCommand">> \in Frame
    BY Frames DEF FtpStates, FtpErrors
  <2>3. ~Quiet /\ calls \in Seq(Frame)
    BY DEF Runs, TypeOK, RemoveFirst
  <2>4. QED
    BY <2>1, <2>2, <2>3, CallsOne, CallsOneFit
<1>3. QED
  BY <1>1, <1>2

\* _q_piConnectState(): the stack.
LEMMA PiConnectStateStack ==
    ASSUME TypeOK, Replied, PiConnectState
    PROVE  calls' \in Seq(Frame) /\ Replied'
<1>1. CASE ftp.closeWait
  <2>1. Then(<< <<"piFinished">> >>)
    BY <1>1 DEF PiConnectState, Return
  <2>2. <<"piFinished">> \in Frame
    BY Frames DEF FtpStates, FtpErrors
  <2>3. ~Quiet /\ calls \in Seq(Frame)
    BY DEF Runs, TypeOK, PiConnectState
  <2>4. QED
    BY <2>1, <2>2, <2>3, CallsOne, CallsOneFit
<1>2. CASE ~ftp.closeWait
  <2>1. Then(<<>>)
    BY <1>2 DEF PiConnectState, Return
  <2>2. ~Quiet /\ calls \in Seq(Frame)
    BY DEF Runs, TypeOK, PiConnectState
  <2>3. QED
    BY <2>1, <2>2, Returns, ReturnsFit
<1>3. QED
  BY <1>1, <1>2

\* QFtpPI::sendCommands(): the stack.
LEMMA SendCommandsStack ==
    ASSUME TypeOK, Replied, SendCommands
    PROVE  calls' \in Seq(Frame) /\ Replied'
<1>1. CASE pi.todo # <<>>
  <2>1. Then(<<>>)
    BY <1>1 DEF SendCommands, Return
  <2>2. ~Quiet /\ calls \in Seq(Frame)
    BY DEF Runs, TypeOK, SendCommands
  <2>3. QED
    BY <2>1, <2>2, Returns, ReturnsFit
<1>2. CASE pi.todo = <<>> /\ (net.link # "open" \/ pi.state # "Idle")
  <2>1. Then(<< <<"piError", "NotConnected">> >>)
    BY <1>2 DEF SendCommands, Return
  <2>2. <<"piError", "NotConnected">> \in Frame
    BY Frames DEF FtpStates, FtpErrors
  <2>3. ~Quiet /\ calls \in Seq(Frame)
    BY DEF Runs, TypeOK, SendCommands
  <2>4. QED
    BY <2>1, <2>2, <2>3, CallsOne, CallsOneFit
<1>3. CASE pi.todo = <<>> /\ ~(net.link # "open" \/ pi.state # "Idle")
  <2>1. Then(<< <<"startNextCmd">> >>)
    BY <1>3 DEF SendCommands, Return
  <2>2. <<"startNextCmd">> \in Frame
    BY Frames DEF FtpStates, FtpErrors
  <2>3. ~Quiet /\ calls \in Seq(Frame)
    BY DEF Runs, TypeOK, SendCommands
  <2>4. QED
    BY <2>1, <2>2, <2>3, CallsOne, CallsOneFit
<1>4. QED
  BY <1>1, <1>2, <1>3

\* QFtpPI::startNextCmd(): the stack.
LEMMA StartNextCmdStack ==
    ASSUME TypeOK, Replied, StartNextCmd
    PROVE  calls' \in Seq(Frame) /\ Replied'
<1>1. CASE ~pi.toConnect /\ pi.todo = <<>>
  <2>1. Then(<< <<"piFinished">> >>)
    BY <1>1 DEF StartNextCmd, Return
  <2>2. <<"piFinished">> \in Frame
    BY Frames DEF FtpStates, FtpErrors
  <2>3. ~Quiet /\ calls \in Seq(Frame)
    BY DEF Runs, TypeOK, StartNextCmd
  <2>4. QED
    BY <2>1, <2>2, <2>3, CallsOne, CallsOneFit
<1>2. CASE pi.toConnect \/ pi.todo # <<>>
  <2>1. Then(<<>>)
    BY <1>2 DEF StartNextCmd, Return
  <2>2. ~Quiet /\ calls \in Seq(Frame)
    BY DEF Runs, TypeOK, StartNextCmd
  <2>3. QED
    BY <2>1, <2>2, Returns, ReturnsFit
<1>3. QED
  BY <1>1, <1>2

\* QFtpPI::clearPendingCommands(): the stack.
LEMMA ClearPendingCommandsStack ==
    ASSUME TypeOK, Replied, ClearPendingCommands
    PROVE  calls' \in Seq(Frame) /\ Replied'
<1>1. CASE dtp.state = "connected"
  <2>0. << <<"dtpClosed">> >> \o << <<"pendingCleared">> >> = << <<"dtpClosed">>,
            <<"pendingCleared">> >>
    <3>1. <<"dtpClosed">> \in Frame /\ <<"pendingCleared">> \in Frame
      BY Frames
    <3>2. QED  BY Zenon, <3>1, JoinTwo
  <2>1. Then(<< <<"dtpClosed">>, <<"pendingCleared">> >>)
    BY <1>1, <2>0 DEF ClearPendingCommands, Return
  <2>2. <<"dtpClosed">> \in Frame /\ <<"pendingCleared">> \in Frame
    BY Frames DEF FtpStates, FtpErrors
  <2>3. ~Quiet /\ calls \in Seq(Frame)
    BY DEF Runs, TypeOK, ClearPendingCommands
  <2>4. calls' \in Seq(Frame)
    BY <2>1, <2>2, <2>3, CallsTwo
  <2>5. Replied'
    BY <2>1, <2>2, <2>3, CallsTwoFit
  <2>6. QED  BY <2>4, <2>5
<1>2. CASE dtp.state # "connected"
  <2>1. Then(<< <<"pendingCleared">> >>)
    BY <1>2 DEF ClearPendingCommands, Return
  <2>2. <<"pendingCleared">> \in Frame
    BY Frames DEF FtpStates, FtpErrors
  <2>3. ~Quiet /\ calls \in Seq(Frame)
    BY DEF Runs, TypeOK, ClearPendingCommands
  <2>4. QED
    BY <2>1, <2>2, <2>3, CallsOne, CallsOneFit
<1>3. QED
  BY <1>1, <1>2

\* The end of clearPendingCommands(): the stack.
LEMMA PendingClearedStack ==
    ASSUME TypeOK, Replied, PendingCleared
    PROVE  calls' \in Seq(Frame) /\ Replied'
<1>1. Then(<<>>)
  BY DEF PendingCleared, Return
<1>2. ~Quiet /\ calls \in Seq(Frame)
  BY DEF Runs, TypeOK, PendingCleared
<1>3. QED
  BY <1>1, <1>2, Returns, ReturnsFit

\* QFtpPI::readyRead(): the stack.
LEMMA ReadyReadStack ==
    ASSUME TypeOK, Replied, ReadyRead
    PROVE  calls' \in Seq(Frame) /\ Replied'
<1>1. CASE pi.toClose
  <2>1. Then(<<>>)
    BY <1>1 DEF ReadyRead, Return
  <2>2. ~Quiet /\ calls \in Seq(Frame)
    BY DEF Runs, TypeOK, ReadyRead
  <2>3. QED
    BY <2>1, <2>2, Returns, ReturnsFit
<1>2. CASE ~pi.toClose
  <2>1. Then(<< <<"readLines">> >>)
    BY <1>2 DEF ReadyRead, Return
  <2>2. <<"readLines">> \in Frame
    BY Frames DEF FtpStates, FtpErrors
  <2>3. ~Quiet /\ calls \in Seq(Frame)
    BY DEF Runs, TypeOK, ReadyRead
  <2>4. QED
    BY <2>1, <2>2, <2>3, CallsOne, CallsOneFit
<1>3. QED
  BY <1>1, <1>2

\* A line of a reply is read: the stack.
LEMMA ReadLinesStack ==
    ASSUME TypeOK, Replied, ReadLines
    PROVE  calls' \in Seq(Frame) /\ Replied'
<1>1. CASE net.buffer = <<>>
  <2>1. Then(<<>>)
    BY <1>1 DEF ReadLines, Return
  <2>2. ~Quiet /\ calls \in Seq(Frame)
    BY DEF Runs, TypeOK, ReadLines
  <2>3. QED
    BY <2>1, <2>2, Returns, ReturnsFit
<1>2. CASE net.buffer # <<>> /\ (pi.text => Head(net.buffer).code = pi.reply.code)
  <2>1. calls' = << <<"processReply">>, <<"replyDone">> >> \o calls
    BY <1>2 DEF ReadLines, Return
  <2>2. <<"processReply">> \in Frame /\ <<"replyDone">> \in Frame
    BY Frames DEF FtpStates, FtpErrors
  <2>3. ~Quiet /\ calls \in Seq(Frame)
    BY DEF Runs, TypeOK, ReadLines
  <2>4. calls' \in Seq(Frame)
    BY <2>1, <2>2, <2>3, PushTwo
  <2>5. Replied'
    BY <2>1, <2>2, <2>3, PushTwoFit
  <2>6. QED  BY <2>4, <2>5
<1>3. CASE net.buffer # <<>> /\ ~(pi.text => Head(net.buffer).code = pi.reply.code)
  <2>1. UNCHANGED calls
    BY JoinNone, <1>3 DEF TypeOK, ReadLines, Return
  <2>2. QED  BY <2>1 DEF TypeOK, Replied, Fn, Under
<1>4. QED
  BY <1>1, <1>2, <1>3

\* What follows processReply(): the stack.
LEMMA ReplyDoneStack ==
    ASSUME TypeOK, Replied, ReplyDone
    PROVE  calls' \in Seq(Frame) /\ Replied'
<1>1. Then(<<>>)
  BY DEF ReplyDone, Return
<1>2. ~Quiet /\ calls \in Seq(Frame)
  BY DEF Runs, TypeOK, ReplyDone
<1>3. QED
  BY <1>1, <1>2, Returns, ReturnsFit

\* processReply() of the greeting: the stack.
LEMMA ProcessGreetingStack ==
    ASSUME TypeOK, Replied, ProcessGreeting
    PROVE  calls' \in Seq(Frame) /\ Replied'
<1>1. CASE Code \div 100 = 2
  <2>1. Then(<< <<"piFinished">>, <<"react">> >>)
    BY <1>1 DEF ProcessGreeting, Return
  <2>2. <<"piFinished">> \in Frame /\ <<"react">> \in Frame
    BY Frames DEF FtpStates, FtpErrors
  <2>3. ~Quiet /\ calls \in Seq(Frame)
    BY DEF Runs, TypeOK, ProcessGreeting
  <2>4. calls' \in Seq(Frame)
    BY <2>1, <2>2, <2>3, CallsTwo
  <2>5. Replied'
    BY <2>1, <2>2, <2>3, CallsTwoFit
  <2>6. QED  BY <2>4, <2>5
<1>2. CASE Code \div 100 # 2
  <2>1. Then(<<>>)
    BY <1>2 DEF ProcessGreeting, Return
  <2>2. ~Quiet /\ calls \in Seq(Frame)
    BY DEF Runs, TypeOK, ProcessGreeting
  <2>3. QED
    BY <2>1, <2>2, Returns, ReturnsFit
<1>3. QED
  BY <1>1, <1>2

\* processReply() sets the state: the stack.
LEMMA ProcessReplyStack ==
    ASSUME TypeOK, Replied, ProcessReply
    PROVE  calls' \in Seq(Frame) /\ Replied'
<1>1. CASE Code = 230
  <2>1. Then(<< <<"connectState", "LoggedIn">>, <<"react">> >>)
    BY <1>1 DEF ProcessReply, Return
  <2>2. <<"connectState", "LoggedIn">> \in Frame /\ <<"react">> \in Frame
    BY Frames DEF FtpStates, FtpErrors
  <2>3. ~Quiet /\ calls \in Seq(Frame)
    BY DEF Runs, TypeOK, ProcessReply
  <2>4. calls' \in Seq(Frame)
    BY <2>1, <2>2, <2>3, CallsTwo
  <2>5. Replied'
    BY <2>1, <2>2, <2>3, CallsTwoFit
  <2>6. QED  BY <2>4, <2>5
<1>2. CASE Code # 230
  <2>1. Then(<< <<"react">> >>)
    BY <1>2 DEF ProcessReply, Return
  <2>2. <<"react">> \in Frame
    BY Frames DEF FtpStates, FtpErrors
  <2>3. ~Quiet /\ calls \in Seq(Frame)
    BY DEF Runs, TypeOK, ProcessReply
  <2>4. QED
    BY <2>1, <2>2, <2>3, CallsOne, CallsOneFit
<1>3. QED
  BY <1>1, <1>2

\* processReply() of a reply nobody waits for: the stack.
LEMMA IgnoreReplyStack ==
    ASSUME TypeOK, Replied, IgnoreReply
    PROVE  calls' \in Seq(Frame) /\ Replied'
<1>1. Then(<<>>)
  BY DEF IgnoreReply, Return
<1>2. ~Quiet /\ calls \in Seq(Frame)
  BY DEF Runs, TypeOK, IgnoreReply
<1>3. QED
  BY <1>1, <1>2, Returns, ReturnsFit

\* processReply() after a success: the stack.
LEMMA ReactSuccessStack ==
    ASSUME TypeOK, Replied, ReactSuccess
    PROVE  calls' \in Seq(Frame) /\ Replied'
<1>1. CASE dtp.err
  <2>1. Then(<< <<"piError", "UnknownError">>, <<"clearError">> >>)
    BY <1>1 DEF ReactSuccess, Return
  <2>2. <<"piError", "UnknownError">> \in Frame /\ <<"clearError">> \in Frame
    BY Frames DEF FtpStates, FtpErrors
  <2>3. ~Quiet /\ calls \in Seq(Frame)
    BY DEF Runs, TypeOK, ReactSuccess
  <2>4. calls' \in Seq(Frame)
    BY <2>1, <2>2, <2>3, CallsTwo
  <2>5. Replied'
    BY <2>1, <2>2, <2>3, CallsTwoFit
  <2>6. QED  BY <2>4, <2>5
<1>2. CASE ~dtp.err
  <2>1. Then(<< <<"startNextCmd">> >>)
    BY <1>2 DEF ReactSuccess, Return
  <2>2. <<"startNextCmd">> \in Frame
    BY Frames DEF FtpStates, FtpErrors
  <2>3. ~Quiet /\ calls \in Seq(Frame)
    BY DEF Runs, TypeOK, ReactSuccess
  <2>4. QED
    BY <2>1, <2>2, <2>3, CallsOne, CallsOneFit
<1>3. QED
  BY <1>1, <1>2

\* processReply() after a failure: the stack.
LEMMA ReactFailureStack ==
    ASSUME TypeOK, Replied, ReactFailure
    PROVE  calls' \in Seq(Frame) /\ Replied'
<1>1. CASE pi.cmd = "EPSV"
  <2>1. Then(<< <<"afterFailure">> >>)
    BY <1>1 DEF ReactFailure, Return
  <2>2. <<"afterFailure">> \in Frame
    BY Frames DEF FtpStates, FtpErrors
  <2>3. ~Quiet /\ calls \in Seq(Frame)
    BY DEF Runs, TypeOK, ReactFailure
  <2>4. QED
    BY <2>1, <2>2, <2>3, CallsOne, CallsOneFit
<1>2. CASE pi.cmd # "EPSV"
  <2>1. Then(<< <<"piError", "UnknownError">>, <<"afterFailure">> >>)
    BY <1>2 DEF ReactFailure, Return
  <2>2. <<"piError", "UnknownError">> \in Frame /\ <<"afterFailure">> \in Frame
    BY Frames DEF FtpStates, FtpErrors
  <2>3. ~Quiet /\ calls \in Seq(Frame)
    BY DEF Runs, TypeOK, ReactFailure
  <2>4. calls' \in Seq(Frame)
    BY <2>1, <2>2, <2>3, CallsTwo
  <2>5. Replied'
    BY <2>1, <2>2, <2>3, CallsTwoFit
  <2>6. QED  BY <2>4, <2>5
<1>3. QED
  BY <1>1, <1>2

\* processReply() before the last reply: the stack.
LEMMA ReactWaitingStack ==
    ASSUME TypeOK, Replied, ReactWaiting
    PROVE  calls' \in Seq(Frame) /\ Replied'
<1>1. Then(<<>>)
  BY DEF ReactWaiting, Return
<1>2. ~Quiet /\ calls \in Seq(Frame)
  BY DEF Runs, TypeOK, ReactWaiting
<1>3. QED
  BY <1>1, <1>2, Returns, ReturnsFit

\* processReply() once the error was told: the stack.
LEMMA AfterFailureStack ==
    ASSUME TypeOK, Replied, AfterFailure
    PROVE  calls' \in Seq(Frame) /\ Replied'
<1>1. CASE pi.state = "Waiting"
  <2>1. Then(<<>>)
    BY <1>1 DEF AfterFailure, Return
  <2>2. ~Quiet /\ calls \in Seq(Frame)
    BY DEF Runs, TypeOK, AfterFailure
  <2>3. QED
    BY <2>1, <2>2, Returns, ReturnsFit
<1>2. CASE pi.state # "Waiting"
  <2>1. Then(<< <<"startNextCmd">> >>)
    BY <1>2 DEF AfterFailure, Return
  <2>2. <<"startNextCmd">> \in Frame
    BY Frames DEF FtpStates, FtpErrors
  <2>3. ~Quiet /\ calls \in Seq(Frame)
    BY DEF Runs, TypeOK, AfterFailure
  <2>4. QED
    BY <2>1, <2>2, <2>3, CallsOne, CallsOneFit
<1>3. QED
  BY <1>1, <1>2

\* processReply() forgets the error of the data connection: the stack.
LEMMA ClearErrorStack ==
    ASSUME TypeOK, Replied, ClearError
    PROVE  calls' \in Seq(Frame) /\ Replied'
<1>1. Then(<< <<"startNextCmd">> >>)
  BY DEF ClearError, Return
<1>2. <<"startNextCmd">> \in Frame
  BY Frames DEF FtpStates, FtpErrors
<1>3. ~Quiet /\ calls \in Seq(Frame)
  BY DEF Runs, TypeOK, ClearError
<1>4. QED
  BY <1>1, <1>2, <1>3, CallsOne, CallsOneFit

\* The data connection stands: the stack.
LEMMA DtpConnectedStack ==
    ASSUME TypeOK, Replied, DtpConnected
    PROVE  calls' \in Seq(Frame) /\ Replied'
<1>1. Then(<< <<"startNextCmd">> >>)
  BY DEF DtpConnected, Return
<1>2. <<"startNextCmd">> \in Frame
  BY Frames DEF FtpStates, FtpErrors
<1>3. ~Quiet /\ calls \in Seq(Frame)
  BY DEF Runs, TypeOK, DtpConnected
<1>4. QED
  BY <1>1, <1>2, <1>3, CallsOne, CallsOneFit

\* The data connection is refused: the stack.
LEMMA DtpRefusedStack ==
    ASSUME TypeOK, Replied, DtpRefused
    PROVE  calls' \in Seq(Frame) /\ Replied'
<1>1. Then(<< <<"piError", "ConnectionRefused">>, <<"afterRefusal">> >>)
  BY DEF DtpRefused, Return
<1>2. <<"piError", "ConnectionRefused">> \in Frame /\ <<"afterRefusal">> \in Frame
  BY Frames DEF FtpStates, FtpErrors
<1>3. ~Quiet /\ calls \in Seq(Frame)
  BY DEF Runs, TypeOK, DtpRefused
<1>4. calls' \in Seq(Frame)
  BY <1>1, <1>2, <1>3, CallsTwo
<1>5. Replied'
  BY <1>1, <1>2, <1>3, CallsTwoFit
<1>6. QED  BY <1>4, <1>5

\* What follows the refusal: the stack.
LEMMA AfterRefusalStack ==
    ASSUME TypeOK, Replied, AfterRefusal
    PROVE  calls' \in Seq(Frame) /\ Replied'
<1>1. Then(<< <<"startNextCmd">> >>)
  BY DEF AfterRefusal, Return
<1>2. <<"startNextCmd">> \in Frame
  BY Frames DEF FtpStates, FtpErrors
<1>3. ~Quiet /\ calls \in Seq(Frame)
  BY DEF Runs, TypeOK, AfterRefusal
<1>4. QED
  BY <1>1, <1>2, <1>3, CallsOne, CallsOneFit

\* The data connection has ended: the stack.
LEMMA DtpClosedStack ==
    ASSUME TypeOK, Replied, DtpClosed
    PROVE  calls' \in Seq(Frame) /\ Replied'
<1>1. CASE pi.toClose
  <2>0. << <<"processReply">>,
            <<"replyDone">> >> \o << <<"dtpSettled">> >> = << <<"processReply">>,
            <<"replyDone">>, <<"dtpSettled">> >>
    <3>1. <<"processReply">> \in Frame /\ <<"replyDone">> \in Frame /\ <<"dtpSettled">> \in Frame
      BY Frames
    <3>2. QED  BY Zenon, <3>1, JoinThree
  <2>1. Then(<< <<"processReply">>, <<"replyDone">>, <<"dtpSettled">> >>)
    BY <1>1, <2>0 DEF DtpClosed, Return
  <2>2. <<"processReply">> \in Frame /\ <<"replyDone">> \in Frame /\ <<"dtpSettled">> \in Frame
    BY Frames DEF FtpStates, FtpErrors
  <2>3. ~Quiet /\ calls \in Seq(Frame)
    BY DEF Runs, TypeOK, DtpClosed
  <2>4. calls' \in Seq(Frame)
    BY <2>1, <2>2, <2>3, CallsThree
  <2>5. Replied'
    BY <2>1, <2>2, <2>3, CallsThreeFit
  <2>6. QED  BY <2>4, <2>5
<1>2. CASE ~pi.toClose
  <2>1. Then(<< <<"dtpSettled">> >>)
    BY <1>2 DEF DtpClosed, Return
  <2>2. <<"dtpSettled">> \in Frame
    BY Frames DEF FtpStates, FtpErrors
  <2>3. ~Quiet /\ calls \in Seq(Frame)
    BY DEF Runs, TypeOK, DtpClosed
  <2>4. QED
    BY <2>1, <2>2, <2>3, CallsOne, CallsOneFit
<1>3. QED
  BY <1>1, <1>2

\* The end of the data connection is dealt with: the stack.
LEMMA DtpSettledStack ==
    ASSUME TypeOK, Replied, DtpSettled
    PROVE  calls' \in Seq(Frame) /\ Replied'
<1>1. Then(<< <<"readyRead">> >>)
  BY DEF DtpSettled, Return
<1>2. <<"readyRead">> \in Frame
  BY Frames DEF FtpStates, FtpErrors
<1>3. ~Quiet /\ calls \in Seq(Frame)
  BY DEF Runs, TypeOK, DtpSettled
<1>4. QED
  BY <1>1, <1>2, <1>3, CallsOne, CallsOneFit

\* QFtpDTP::socketReadyRead(): the stack.
LEMMA DataReadyReadStack ==
    ASSUME TypeOK, Replied, DataReadyRead
    PROVE  calls' \in Seq(Frame) /\ Replied'
<1>1. CASE pi.cmd = "none"
  <2>1. Then(<< <<"dtpClosed">>, <<"dtpClosed">> >>)
    BY <1>1 DEF DataReadyRead, Return
  <2>2. <<"dtpClosed">> \in Frame /\ <<"dtpClosed">> \in Frame
    BY Frames DEF FtpStates, FtpErrors
  <2>3. ~Quiet /\ calls \in Seq(Frame)
    BY DEF Runs, TypeOK, DataReadyRead
  <2>4. calls' \in Seq(Frame)
    BY <2>1, <2>2, <2>3, CallsTwo
  <2>5. Replied'
    BY <2>1, <2>2, <2>3, CallsTwoFit
  <2>6. QED  BY <2>4, <2>5
<1>2. CASE pi.cmd = "LIST"
  <2>1. Then(<< <<"listLines">> >>)
    BY <1>2 DEF DataReadyRead, Return
  <2>2. <<"listLines">> \in Frame
    BY Frames DEF FtpStates, FtpErrors
  <2>3. ~Quiet /\ calls \in Seq(Frame)
    BY DEF Runs, TypeOK, DataReadyRead
  <2>4. QED
    BY <2>1, <2>2, <2>3, CallsOne, CallsOneFit
<1>3. CASE pi.cmd \notin {"none", "LIST"}
  <2>1. Then(<<>>)
    BY <1>3 DEF DataReadyRead, Return
  <2>2. ~Quiet /\ calls \in Seq(Frame)
    BY DEF Runs, TypeOK, DataReadyRead
  <2>3. QED
    BY <2>1, <2>2, Returns, ReturnsFit
<1>4. QED
  BY <1>1, <1>2, <1>3

\* A line of the listing is read: the stack.
LEMMA ListLinesStack ==
    ASSUME TypeOK, Replied, ListLines
    PROVE  calls' \in Seq(Frame) /\ Replied'
<1>1. CASE dtp.lines = <<>>
  <2>1. Then(<<>>)
    BY <1>1 DEF ListLines, Return
  <2>2. ~Quiet /\ calls \in Seq(Frame)
    BY DEF Runs, TypeOK, ListLines
  <2>3. QED
    BY <2>1, <2>2, Returns, ReturnsFit
<1>2. CASE dtp.lines # <<>> /\ Parsed(Head(dtp.lines))
  <2>1. calls' = << <<"listInfo", ParseDir(Head(dtp.lines))>> >> \o calls
    BY <1>2 DEF ListLines, Return
  <2>2. <<"listInfo", ParseDir(Head(dtp.lines))>> \in Frame
    BY Frames, InfoTyped
  <2>3. ~Quiet /\ calls \in Seq(Frame)
    BY DEF Runs, TypeOK, ListLines
  <2>4. QED
    BY <2>1, <2>2, <2>3, PushOne, PushOneFit
<1>3. CASE dtp.lines # <<>> /\ ~Parsed(Head(dtp.lines))
  <2>1. UNCHANGED calls
    BY <1>3 DEF ListLines, Return
  <2>2. QED  BY <2>1 DEF TypeOK, Replied, Fn, Under
<1>4. QED
  BY <1>1, <1>2, <1>3

\* The slot of commandFinished(.., false): the stack.
LEMMA CommandFinishedSlotStack ==
    ASSUME TypeOK, Replied, CommandFinishedSlot
    PROVE  calls' \in Seq(Frame) /\ Replied'
<1>1. Then(<<>>)
  BY DEF CommandFinishedSlot, Return
<1>2. ~Quiet /\ calls \in Seq(Frame)
  BY DEF Runs, TypeOK, CommandFinishedSlot
<1>3. QED
  BY <1>1, <1>2, Returns, ReturnsFit

\* The slot of commandFinished(.., true): the stack.
LEMMA CommandFailedSlotStack ==
    ASSUME TypeOK, Replied, CommandFailedSlot
    PROVE  calls' \in Seq(Frame) /\ Replied'
<1>1. Then(<<>>)
  BY DEF CommandFailedSlot, Return
<1>2. ~Quiet /\ calls \in Seq(Frame)
  BY DEF Runs, TypeOK, CommandFailedSlot
<1>3. QED
  BY <1>1, <1>2, Returns, ReturnsFit

\* The slot of listInfo(): the stack.
LEMMA ListInfoSlotStack ==
    ASSUME TypeOK, Replied, ListInfoSlot
    PROVE  calls' \in Seq(Frame) /\ Replied'
<1>1. Then(<<>>)
  BY DEF ListInfoSlot, Return
<1>2. ~Quiet /\ calls \in Seq(Frame)
  BY DEF Runs, TypeOK, ListInfoSlot
<1>3. QED
  BY <1>1, <1>2, Returns, ReturnsFit

\* The client closes from outside: the stack.
LEMMA ClientClosesStack ==
    ASSUME TypeOK, Replied, ClientCloses
    PROVE  calls' \in Seq(Frame) /\ Replied'
<1>1. UNCHANGED calls
  BY DEF ClientCloses, Return
<1>2. QED  BY <1>1 DEF TypeOK, Replied, Fn, Under

\* The posted _q_startNextCommand(): the stack.
LEMMA PostedStartStack ==
    ASSUME TypeOK, Replied, PostedStart
    PROVE  calls' \in Seq(Frame) /\ Replied'
<1>1. Begin(<< <<"startNextCommand">> >>)
  BY DEF PostedStart, Return
<1>2. <<"startNextCommand">> \in Frame
  BY Frames DEF FtpStates, FtpErrors
<1>3. QED
  BY <1>1, <1>2, BeginsOne

\* The name of the host is resolved: the stack.
LEMMA HostFoundStack ==
    ASSUME TypeOK, Replied, HostFound
    PROVE  calls' \in Seq(Frame) /\ Replied'
<1>1. Begin(<< <<"connectState", "Connecting">> >>)
  BY DEF HostFound, Return
<1>2. <<"connectState", "Connecting">> \in Frame
  BY Frames DEF FtpStates, FtpErrors
<1>3. QED
  BY <1>1, <1>2, BeginsOne

\* The host is not reached: the stack.
LEMMA SocketErrorStack ==
    ASSUME TypeOK, Replied, SocketError
    PROVE  calls' \in Seq(Frame) /\ Replied'
<1>1. Begin(<< <<"connectState", "Unconnected">>,
          <<"piError", IF net.link = "lookup" THEN "HostNotFound" ELSE "ConnectionRefused">> >>)
  BY DEF SocketError, Return
<1>2. <<"connectState", "Unconnected">> \in Frame
          /\ <<"piError", IF net.link = "lookup" THEN "HostNotFound" ELSE "ConnectionRefused">>
          \in Frame
  BY Frames DEF FtpStates, FtpErrors
<1>3. QED
  BY <1>1, <1>2, BeginsTwo

\* The host is reached: the stack.
LEMMA ConnectedStack ==
    ASSUME TypeOK, Replied, Connected
    PROVE  calls' \in Seq(Frame) /\ Replied'
<1>1. Begin(<< <<"connectState", "Connected">> >>)
  BY DEF Connected, Return
<1>2. <<"connectState", "Connected">> \in Frame
  BY Frames DEF FtpStates, FtpErrors
<1>3. QED
  BY <1>1, <1>2, BeginsOne

\* Bytes of replies arrive: the stack.
LEMMA ArrivesStack ==
    ASSUME TypeOK, Replied, Arrives
    PROVE  calls' \in Seq(Frame) /\ Replied'
<1>1. Begin(<< <<"readyRead">> >>)
  BY DEF Arrives, Return
<1>2. <<"readyRead">> \in Frame
  BY Frames DEF FtpStates, FtpErrors
<1>3. QED
  BY <1>1, <1>2, BeginsOne

\* The server closes: the stack.
LEMMA ConnectionClosedStack ==
    ASSUME TypeOK, Replied, ConnectionClosed
    PROVE  calls' \in Seq(Frame) /\ Replied'
<1>1. Begin(<< <<"connectState", "Unconnected">> >>)
  BY DEF ConnectionClosed, Return
<1>2. <<"connectState", "Unconnected">> \in Frame
  BY Frames DEF FtpStates, FtpErrors
<1>3. QED
  BY <1>1, <1>2, BeginsOne

\* The connection breaks: the stack.
LEMMA ConnectionLostStack ==
    ASSUME TypeOK, Replied, ConnectionLost
    PROVE  calls' \in Seq(Frame) /\ Replied'
<1>1. Begin(<< <<"connectState", "Unconnected">> >>)
  BY DEF ConnectionLost, Return
<1>2. <<"connectState", "Unconnected">> \in Frame
  BY Frames DEF FtpStates, FtpErrors
<1>3. QED
  BY <1>1, <1>2, BeginsOne

\* The socket of the data connection is connected: the stack.
LEMMA SocketConnectedStack ==
    ASSUME TypeOK, Replied, SocketConnected
    PROVE  calls' \in Seq(Frame) /\ Replied'
<1>1. Begin(<< <<"dtpConnected">> >>)
  BY DEF SocketConnected, Return
<1>2. <<"dtpConnected">> \in Frame
  BY Frames DEF FtpStates, FtpErrors
<1>3. QED
  BY <1>1, <1>2, BeginsOne

\* The socket of the data connection is refused: the stack.
LEMMA SocketRefusedStack ==
    ASSUME TypeOK, Replied, SocketRefused
    PROVE  calls' \in Seq(Frame) /\ Replied'
<1>1. CASE Begin(<< <<"dtpRefused">> >>)
  <2>1. Begin(<< <<"dtpRefused">> >>)
    BY <1>1 DEF SocketRefused, Return
  <2>2. <<"dtpRefused">> \in Frame
    BY Frames DEF FtpStates, FtpErrors
  <2>3. QED
    BY <2>1, <2>2, BeginsOne
<1>2. CASE Begin(<<>>)
  <2>1. Begin(<<>>)
    BY <1>2 DEF SocketRefused, Return
  <2>2. QED
    BY <2>1, BeginsNone
<1>3. QED
  BY <1>1, <1>2 DEF SocketRefused

\* Bytes of the listing arrive: the stack.
LEMMA SocketReadyReadStack ==
    ASSUME TypeOK, Replied, SocketReadyRead
    PROVE  calls' \in Seq(Frame) /\ Replied'
<1>1. Begin(<< <<"dataReadyRead">> >>)
  BY DEF SocketReadyRead, Return
<1>2. <<"dataReadyRead">> \in Frame
  BY Frames DEF FtpStates, FtpErrors
<1>3. QED
  BY <1>1, <1>2, BeginsOne

\* The server closes the data connection: the stack.
LEMMA SocketConnectionClosedStack ==
    ASSUME TypeOK, Replied, SocketConnectionClosed
    PROVE  calls' \in Seq(Frame) /\ Replied'
<1>1. Begin(<< <<"dtpClosed">> >>)
  BY DEF SocketConnectionClosed, Return
<1>2. <<"dtpClosed">> \in Frame
  BY Frames DEF FtpStates, FtpErrors
<1>3. QED
  BY <1>1, <1>2, BeginsOne

\* The server answers: the stack.
LEMMA ServeStack ==
    ASSUME TypeOK, Replied, Serve
    PROVE  calls' \in Seq(Frame) /\ Replied'
<1>1. UNCHANGED calls
  BY DEF Serve, Return
<1>2. QED  BY <1>1 DEF TypeOK, Replied, Fn, Under

-----------------------------------------------------------------------------
(***************************************************************************)
(* Types: every variable, action by action.                                *)
(***************************************************************************)

\* What is left when processReply() returns false.
LEMMA Dropped ==
    ASSUME calls \in Seq(Frame), Len(calls) >= 2, calls' = Unprocessed
    PROVE  /\ calls' \in Seq(Frame) /\ Len(calls') <= Len(calls) - 2
           /\ \A i \in 1 .. Len(calls') : calls'[i] = calls[i + Len(calls) - Len(calls')]
<1> DEFINE t == Tail(calls)
           rest == Tail(t)
<1>1. t \in Seq(Frame) /\ Len(t) = Len(calls) - 1 /\ t # <<>>
      /\ \A i \in 1 .. Len(t) : t[i] = calls[i + 1]
  OBVIOUS
<1>2. rest \in Seq(Frame) /\ Len(rest) = Len(calls) - 2
      /\ \A i \in 1 .. Len(rest) : rest[i] = calls[i + 2]
  BY <1>1
<1>3. calls' = rest \/ (rest # <<>> /\ calls' = Tail(rest))
  BY DEF Unprocessed
<1> HIDE DEF rest
<1>4. CASE calls' = rest
  BY <1>2, <1>4
<1>5. CASE rest # <<>> /\ calls' = Tail(rest)
  <2>1. calls' \in Seq(Frame) /\ Len(calls') = Len(rest) - 1
        /\ \A i \in 1 .. Len(calls') : calls'[i] = rest[i + 1]
    BY <1>2, <1>5
  <2>2. QED  BY <1>2, <2>1
<1>6. QED  BY <1>3, <1>4, <1>5

\* processReply() holds a reply back: the stack.
LEMMA HoldReplyStack ==
    ASSUME TypeOK, Replied, HoldReply
    PROVE  calls' \in Seq(Frame) /\ Replied'
<1>1. calls \in Seq(Frame) /\ ~Quiet /\ calls' = Unprocessed
  BY DEF TypeOK, HoldReply, Runs
<1>2. Len(calls) >= 2
  <2>1. Fn(1) = "processReply" /\ Len(calls) \in Nat /\ Len(calls) >= 1
    BY <1>1, Args DEF HoldReply
  <2>2. Under(1) = "replyDone"
    BY <2>1 DEF Replied
  <2>3. QED  BY <2>1, <2>2 DEF Under
<1>3. /\ calls' \in Seq(Frame) /\ Len(calls') <= Len(calls) - 2
      /\ \A i \in 1 .. Len(calls') : calls'[i] = calls[i + Len(calls) - Len(calls')]
  BY <1>1, <1>2, Dropped
<1>4. ASSUME NEW i \in 1 .. Len(calls'), Fn(i)' = "processReply" PROVE Under(i)' = "replyDone"
  <2> DEFINE k == i + Len(calls) - Len(calls')
  <2>1. k \in 1 .. Len(calls) /\ calls'[i] = calls[k]
    BY <1>1, <1>2, <1>3
  <2>2. Fn(k) = "processReply"
    BY <1>4, <2>1 DEF Fn
  <2>3. Under(k) = "replyDone"
    BY <2>1, <2>2 DEF Replied
  <2>4. k < Len(calls) /\ calls[k + 1][1] = "replyDone"
    BY <2>3 DEF Under
  <2>5. i < Len(calls') /\ calls'[i + 1] = calls[k + 1]
    BY <1>1, <1>3, <2>1, <2>4
  <2>6. QED  BY <2>4, <2>5 DEF Under
<1>5. QED  BY <1>3, <1>4 DEF Replied

\* _q_startNextCommand(): the types.
LEMMA StartNextCommandTyped ==
    ASSUME TypeOK, Replied, StartNextCommand
    PROVE  TypeOK' /\ Replied'
<1>1. ftp' \in Private
  BY DEF TypeOK, Private, FtpStates, FtpErrors, AllCommands, StartNextCommand, Current
<1>2. pi' \in Interpreter
  BY DEF TypeOK, StartNextCommand, Current
<1>3. dtp' \in DataConnection
  BY NoElements DEF TypeOK, DataConnection, StartNextCommand
<1>4. net' \in Connections
  BY ZenonT(30) DEF TypeOK, Connections, StartNextCommand, Current
<1>5. hist' \in History
  BY StartNextCommandHistory
<1>6. calls' \in Seq(Frame) /\ Replied'
  BY StartNextCommandStack
<1>7. QED  BY <1>1, <1>2, <1>3, <1>4, <1>5, <1>6 DEF TypeOK

\* _q_piFinished(): the types.
LEMMA PiFinishedTyped ==
    ASSUME TypeOK, Replied, PiFinished
    PROVE  TypeOK' /\ Replied'
<1>1. ftp' \in Private
  BY DEF TypeOK, Private, PiFinished, Current
<1>2. pi' \in Interpreter
  BY DEF TypeOK, PiFinished, Current
<1>3. dtp' \in DataConnection
  BY DEF TypeOK, PiFinished, Current
<1>4. net' \in Connections
  BY DEF TypeOK, PiFinished, Current
<1>5. hist' \in History
  BY DEF TypeOK, PiFinished, Current
<1>6. calls' \in Seq(Frame) /\ Replied'
  BY PiFinishedStack
<1>7. QED  BY <1>1, <1>2, <1>3, <1>4, <1>5, <1>6 DEF TypeOK

\* _q_piError(): the types.
LEMMA PiErrorTyped ==
    ASSUME TypeOK, Replied, PiError
    PROVE  TypeOK' /\ Replied'
<1>1. ftp' \in Private
  BY Args DEF TypeOK, Runs, Private, PiError, Current
<1>2. pi' \in Interpreter
  BY DEF TypeOK, PiError, Current
<1>3. dtp' \in DataConnection
  BY DEF TypeOK, PiError, Current
<1>4. net' \in Connections
  BY DEF TypeOK, PiError, Current
<1>5. hist' \in History
  BY DEF TypeOK, PiError, Current
<1>6. calls' \in Seq(Frame) /\ Replied'
  BY PiErrorStack
<1>7. QED  BY <1>1, <1>2, <1>3, <1>4, <1>5, <1>6 DEF TypeOK

\* _q_piFinished() or _q_piError() goes on and removes its command: the types.
LEMMA RemoveFirstTyped ==
    ASSUME TypeOK, Replied, RemoveFirst
    PROVE  TypeOK' /\ Replied'
<1>1. ftp' \in Private
  BY CurrentTyped DEF TypeOK, Private, RemoveFirst, Holds
<1>2. pi' \in Interpreter
  BY DEF TypeOK, RemoveFirst
<1>3. dtp' \in DataConnection
  BY DEF TypeOK, RemoveFirst
<1>4. net' \in Connections
  BY DEF TypeOK, RemoveFirst
<1>5. hist' \in History
  BY RemoveFirstHistory
<1>6. calls' \in Seq(Frame) /\ Replied'
  BY RemoveFirstStack
<1>7. QED  BY <1>1, <1>2, <1>3, <1>4, <1>5, <1>6 DEF TypeOK

\* _q_piConnectState(): the types.
LEMMA PiConnectStateTyped ==
    ASSUME TypeOK, Replied, PiConnectState
    PROVE  TypeOK' /\ Replied'
<1>1. ftp' \in Private
  BY Args DEF TypeOK, Runs, Private, PiConnectState
<1>2. pi' \in Interpreter
  BY DEF TypeOK, PiConnectState
<1>3. dtp' \in DataConnection
  BY DEF TypeOK, PiConnectState
<1>4. net' \in Connections
  BY DEF TypeOK, PiConnectState
<1>5. hist' \in History
  BY DEF TypeOK, PiConnectState
<1>6. calls' \in Seq(Frame) /\ Replied'
  BY PiConnectStateStack
<1>7. QED  BY <1>1, <1>2, <1>3, <1>4, <1>5, <1>6 DEF TypeOK

\* QFtpPI::sendCommands(): the types.
LEMMA SendCommandsTyped ==
    ASSUME TypeOK, Replied, SendCommands
    PROVE  TypeOK' /\ Replied'
<1>1. ftp' \in Private
  BY DEF TypeOK, SendCommands
<1>2. pi' \in Interpreter
  BY Args DEF TypeOK, Runs, Interpreter, SendCommands
<1>3. dtp' \in DataConnection
  BY DEF TypeOK, SendCommands
<1>4. net' \in Connections
  BY DEF TypeOK, SendCommands
<1>5. hist' \in History
  BY DEF TypeOK, SendCommands
<1>6. calls' \in Seq(Frame) /\ Replied'
  BY SendCommandsStack
<1>7. QED  BY <1>1, <1>2, <1>3, <1>4, <1>5, <1>6 DEF TypeOK

\* QFtpPI::startNextCmd(): the types.
LEMMA StartNextCmdTyped ==
    ASSUME TypeOK, Replied, StartNextCmd
    PROVE  TypeOK' /\ Replied'
<1>1. ftp' \in Private
  BY DEF TypeOK, StartNextCmd, NextCmd
<1>2. pi' \in Interpreter
  BY StartNextCmdSends
<1>3. dtp' \in DataConnection
  BY DEF TypeOK, StartNextCmd, NextCmd
<1>4. net' \in Connections
  BY StartNextCmdSends
<1>5. hist' \in History
  BY StartNextCmdHistory
<1>6. calls' \in Seq(Frame) /\ Replied'
  BY StartNextCmdStack
<1>7. QED  BY <1>1, <1>2, <1>3, <1>4, <1>5, <1>6 DEF TypeOK

\* QFtpPI::clearPendingCommands(): the types.
LEMMA ClearPendingCommandsTyped ==
    ASSUME TypeOK, Replied, ClearPendingCommands
    PROVE  TypeOK' /\ Replied'
<1>1. ftp' \in Private
  BY DEF TypeOK, ClearPendingCommands
<1>2. pi' \in Interpreter
  BY NoElements DEF TypeOK, Interpreter, ClearPendingCommands
<1>3. dtp' \in DataConnection
  BY NoElements DEF TypeOK, DataConnection, ClearPendingCommands
<1>4. net' \in Connections
  BY NoElements DEF TypeOK, Connections, ClearPendingCommands
<1>5. hist' \in History
  BY DEF TypeOK, ClearPendingCommands
<1>6. calls' \in Seq(Frame) /\ Replied'
  BY ClearPendingCommandsStack
<1>7. QED  BY <1>1, <1>2, <1>3, <1>4, <1>5, <1>6 DEF TypeOK

\* The end of clearPendingCommands(): the types.
LEMMA PendingClearedTyped ==
    ASSUME TypeOK, Replied, PendingCleared
    PROVE  TypeOK' /\ Replied'
<1>1. ftp' \in Private
  BY CurrentTyped DEF TypeOK, Private, PendingCleared
<1>2. pi' \in Interpreter
  BY DEF TypeOK, Interpreter, PendingCleared
<1>3. dtp' \in DataConnection
  BY DEF TypeOK, PendingCleared
<1>4. net' \in Connections
  BY DEF TypeOK, PendingCleared
<1>5. hist' \in History
  BY DEF TypeOK, PendingCleared
<1>6. calls' \in Seq(Frame) /\ Replied'
  BY PendingClearedStack
<1>7. QED  BY <1>1, <1>2, <1>3, <1>4, <1>5, <1>6 DEF TypeOK

\* QFtpPI::readyRead(): the types.
LEMMA ReadyReadTyped ==
    ASSUME TypeOK, Replied, ReadyRead
    PROVE  TypeOK' /\ Replied'
<1>1. ftp' \in Private
  BY DEF TypeOK, ReadyRead
<1>2. pi' \in Interpreter
  BY DEF TypeOK, ReadyRead
<1>3. dtp' \in DataConnection
  BY DEF TypeOK, ReadyRead
<1>4. net' \in Connections
  BY DEF TypeOK, ReadyRead
<1>5. hist' \in History
  BY DEF TypeOK, ReadyRead
<1>6. calls' \in Seq(Frame) /\ Replied'
  BY ReadyReadStack
<1>7. QED  BY <1>1, <1>2, <1>3, <1>4, <1>5, <1>6 DEF TypeOK

\* A line of a reply is read: the types.
LEMMA ReadLinesTyped ==
    ASSUME TypeOK, Replied, ReadLines
    PROVE  TypeOK' /\ Replied'
<1>1. ftp' \in Private
  BY DEF TypeOK, ReadLines
<1>2. pi' \in Interpreter
  BY ReadLinesReplies
<1>3. dtp' \in DataConnection
  BY DEF TypeOK, ReadLines
<1>4. net' \in Connections
  BY ReadLinesReplies
<1>5. hist' \in History
  BY DEF TypeOK, ReadLines
<1>6. calls' \in Seq(Frame) /\ Replied'
  BY ReadLinesStack
<1>7. QED  BY <1>1, <1>2, <1>3, <1>4, <1>5, <1>6 DEF TypeOK

\* What follows processReply(): the types.
LEMMA ReplyDoneTyped ==
    ASSUME TypeOK, Replied, ReplyDone
    PROVE  TypeOK' /\ Replied'
<1>1. ftp' \in Private
  BY DEF TypeOK, ReplyDone
<1>2. pi' \in Interpreter
  BY DEF TypeOK, Interpreter, ReplyDone
<1>3. dtp' \in DataConnection
  BY DEF TypeOK, ReplyDone
<1>4. net' \in Connections
  BY DEF TypeOK, ReplyDone
<1>5. hist' \in History
  BY DEF TypeOK, ReplyDone
<1>6. calls' \in Seq(Frame) /\ Replied'
  BY ReplyDoneStack
<1>7. QED  BY <1>1, <1>2, <1>3, <1>4, <1>5, <1>6 DEF TypeOK

\* processReply() holds a reply back: the types.
LEMMA HoldReplyTyped ==
    ASSUME TypeOK, Replied, HoldReply
    PROVE  TypeOK' /\ Replied'
<1>1. ftp' \in Private
  BY DEF TypeOK, HoldReply
<1>2. pi' \in Interpreter
  BY DEF TypeOK, Interpreter, HoldReply
<1>3. dtp' \in DataConnection
  BY DEF TypeOK, HoldReply
<1>4. net' \in Connections
  BY DEF TypeOK, HoldReply
<1>5. hist' \in History
  BY DEF TypeOK, HoldReply
<1>6. calls' \in Seq(Frame) /\ Replied'
  BY HoldReplyStack
<1>7. QED  BY <1>1, <1>2, <1>3, <1>4, <1>5, <1>6 DEF TypeOK

\* processReply() of the greeting: the types.
LEMMA ProcessGreetingTyped ==
    ASSUME TypeOK, Replied, ProcessGreeting
    PROVE  TypeOK' /\ Replied'
<1>1. ftp' \in Private
  BY DEF TypeOK, ProcessGreeting
<1>2. pi' \in Interpreter
  BY DEF TypeOK, Interpreter, ProcessGreeting
<1>3. dtp' \in DataConnection
  BY DEF TypeOK, ProcessGreeting
<1>4. net' \in Connections
  BY DEF TypeOK, ProcessGreeting
<1>5. hist' \in History
  BY DEF TypeOK, ProcessGreeting
<1>6. calls' \in Seq(Frame) /\ Replied'
  BY ProcessGreetingStack
<1>7. QED  BY <1>1, <1>2, <1>3, <1>4, <1>5, <1>6 DEF TypeOK

\* processReply() sets the state: the types.
LEMMA ProcessReplyTyped ==
    ASSUME TypeOK, Replied, ProcessReply
    PROVE  TypeOK' /\ Replied'
<1>1. ftp' \in Private
  BY DEF TypeOK, ProcessReply
<1>2. pi' \in Interpreter
  BY ProcessReplyInterpreter
<1>3. dtp' \in DataConnection
  BY ProcessReplyData
<1>4. net' \in Connections
  BY ProcessReplyData
<1>5. hist' \in History
  BY DEF TypeOK, ProcessReply
<1>6. calls' \in Seq(Frame) /\ Replied'
  BY ProcessReplyStack
<1>7. QED  BY <1>1, <1>2, <1>3, <1>4, <1>5, <1>6 DEF TypeOK

\* processReply() of a reply nobody waits for: the types.
LEMMA IgnoreReplyTyped ==
    ASSUME TypeOK, Replied, IgnoreReply
    PROVE  TypeOK' /\ Replied'
<1>1. ftp' \in Private
  BY DEF TypeOK, IgnoreReply
<1>2. pi' \in Interpreter
  BY DEF TypeOK, IgnoreReply
<1>3. dtp' \in DataConnection
  BY DEF TypeOK, IgnoreReply
<1>4. net' \in Connections
  BY DEF TypeOK, IgnoreReply
<1>5. hist' \in History
  BY DEF TypeOK, IgnoreReply
<1>6. calls' \in Seq(Frame) /\ Replied'
  BY IgnoreReplyStack
<1>7. QED  BY <1>1, <1>2, <1>3, <1>4, <1>5, <1>6 DEF TypeOK

\* processReply() after a success: the types.
LEMMA ReactSuccessTyped ==
    ASSUME TypeOK, Replied, ReactSuccess
    PROVE  TypeOK' /\ Replied'
<1>1. ftp' \in Private
  BY DEF TypeOK, ReactSuccess
<1>2. pi' \in Interpreter
  BY DEF TypeOK, Interpreter, ReactSuccess
<1>3. dtp' \in DataConnection
  BY DEF TypeOK, ReactSuccess
<1>4. net' \in Connections
  BY DEF TypeOK, ReactSuccess
<1>5. hist' \in History
  BY DEF TypeOK, ReactSuccess
<1>6. calls' \in Seq(Frame) /\ Replied'
  BY ReactSuccessStack
<1>7. QED  BY <1>1, <1>2, <1>3, <1>4, <1>5, <1>6 DEF TypeOK

\* processReply() after a failure: the types.
LEMMA ReactFailureTyped ==
    ASSUME TypeOK, Replied, ReactFailure
    PROVE  TypeOK' /\ Replied'
<1>1. ftp' \in Private
  BY DEF TypeOK, ReactFailure
<1>2. pi' \in Interpreter
  BY ReactFailureInterpreter
<1>3. dtp' \in DataConnection
  BY DEF TypeOK, ReactFailure
<1>4. net' \in Connections
  BY DEF TypeOK, ReactFailure
<1>5. hist' \in History
  BY DEF TypeOK, ReactFailure
<1>6. calls' \in Seq(Frame) /\ Replied'
  BY ReactFailureStack
<1>7. QED  BY <1>1, <1>2, <1>3, <1>4, <1>5, <1>6 DEF TypeOK

\* processReply() before the last reply: the types.
LEMMA ReactWaitingTyped ==
    ASSUME TypeOK, Replied, ReactWaiting
    PROVE  TypeOK' /\ Replied'
<1>1. ftp' \in Private
  BY DEF TypeOK, ReactWaiting
<1>2. pi' \in Interpreter
  BY DEF TypeOK, ReactWaiting
<1>3. dtp' \in DataConnection
  BY DEF TypeOK, ReactWaiting
<1>4. net' \in Connections
  BY DEF TypeOK, ReactWaiting
<1>5. hist' \in History
  BY DEF TypeOK, ReactWaiting
<1>6. calls' \in Seq(Frame) /\ Replied'
  BY ReactWaitingStack
<1>7. QED  BY <1>1, <1>2, <1>3, <1>4, <1>5, <1>6 DEF TypeOK

\* processReply() once the error was told: the types.
LEMMA AfterFailureTyped ==
    ASSUME TypeOK, Replied, AfterFailure
    PROVE  TypeOK' /\ Replied'
<1>1. ftp' \in Private
  BY DEF TypeOK, AfterFailure
<1>2. pi' \in Interpreter
  BY DEF TypeOK, Interpreter, AfterFailure
<1>3. dtp' \in DataConnection
  BY DEF TypeOK, AfterFailure
<1>4. net' \in Connections
  BY DEF TypeOK, AfterFailure
<1>5. hist' \in History
  BY DEF TypeOK, AfterFailure
<1>6. calls' \in Seq(Frame) /\ Replied'
  BY AfterFailureStack
<1>7. QED  BY <1>1, <1>2, <1>3, <1>4, <1>5, <1>6 DEF TypeOK

\* processReply() forgets the error of the data connection: the types.
LEMMA ClearErrorTyped ==
    ASSUME TypeOK, Replied, ClearError
    PROVE  TypeOK' /\ Replied'
<1>1. ftp' \in Private
  BY DEF TypeOK, ClearError
<1>2. pi' \in Interpreter
  BY DEF TypeOK, ClearError
<1>3. dtp' \in DataConnection
  BY DEF TypeOK, DataConnection, ClearError
<1>4. net' \in Connections
  BY DEF TypeOK, ClearError
<1>5. hist' \in History
  BY DEF TypeOK, ClearError
<1>6. calls' \in Seq(Frame) /\ Replied'
  BY ClearErrorStack
<1>7. QED  BY <1>1, <1>2, <1>3, <1>4, <1>5, <1>6 DEF TypeOK

\* The data connection stands: the types.
LEMMA DtpConnectedTyped ==
    ASSUME TypeOK, Replied, DtpConnected
    PROVE  TypeOK' /\ Replied'
<1>1. ftp' \in Private
  BY DEF TypeOK, DtpConnected
<1>2. pi' \in Interpreter
  BY DEF TypeOK, Interpreter, DtpConnected
<1>3. dtp' \in DataConnection
  BY DEF TypeOK, DtpConnected
<1>4. net' \in Connections
  BY DEF TypeOK, DtpConnected
<1>5. hist' \in History
  BY DEF TypeOK, DtpConnected
<1>6. calls' \in Seq(Frame) /\ Replied'
  BY DtpConnectedStack
<1>7. QED  BY <1>1, <1>2, <1>3, <1>4, <1>5, <1>6 DEF TypeOK

\* The data connection is refused: the types.
LEMMA DtpRefusedTyped ==
    ASSUME TypeOK, Replied, DtpRefused
    PROVE  TypeOK' /\ Replied'
<1>1. ftp' \in Private
  BY DEF TypeOK, DtpRefused
<1>2. pi' \in Interpreter
  BY DEF TypeOK, DtpRefused
<1>3. dtp' \in DataConnection
  BY DEF TypeOK, DtpRefused
<1>4. net' \in Connections
  BY DEF TypeOK, DtpRefused
<1>5. hist' \in History
  BY DEF TypeOK, DtpRefused
<1>6. calls' \in Seq(Frame) /\ Replied'
  BY DtpRefusedStack
<1>7. QED  BY <1>1, <1>2, <1>3, <1>4, <1>5, <1>6 DEF TypeOK

\* What follows the refusal: the types.
LEMMA AfterRefusalTyped ==
    ASSUME TypeOK, Replied, AfterRefusal
    PROVE  TypeOK' /\ Replied'
<1>1. ftp' \in Private
  BY DEF TypeOK, AfterRefusal
<1>2. pi' \in Interpreter
  BY DEF TypeOK, AfterRefusal
<1>3. dtp' \in DataConnection
  BY DEF TypeOK, AfterRefusal
<1>4. net' \in Connections
  BY DEF TypeOK, AfterRefusal
<1>5. hist' \in History
  BY DEF TypeOK, AfterRefusal
<1>6. calls' \in Seq(Frame) /\ Replied'
  BY AfterRefusalStack
<1>7. QED  BY <1>1, <1>2, <1>3, <1>4, <1>5, <1>6 DEF TypeOK

\* The data connection has ended: the types.
LEMMA DtpClosedTyped ==
    ASSUME TypeOK, Replied, DtpClosed
    PROVE  TypeOK' /\ Replied'
<1>1. ftp' \in Private
  BY DEF TypeOK, DtpClosed
<1>2. pi' \in Interpreter
  BY DEF TypeOK, DtpClosed
<1>3. dtp' \in DataConnection
  BY DEF TypeOK, DtpClosed
<1>4. net' \in Connections
  BY DEF TypeOK, DtpClosed
<1>5. hist' \in History
  BY DEF TypeOK, DtpClosed
<1>6. calls' \in Seq(Frame) /\ Replied'
  BY DtpClosedStack
<1>7. QED  BY <1>1, <1>2, <1>3, <1>4, <1>5, <1>6 DEF TypeOK

\* The end of the data connection is dealt with: the types.
LEMMA DtpSettledTyped ==
    ASSUME TypeOK, Replied, DtpSettled
    PROVE  TypeOK' /\ Replied'
<1>1. ftp' \in Private
  BY DEF TypeOK, DtpSettled
<1>2. pi' \in Interpreter
  BY DEF TypeOK, Interpreter, DtpSettled
<1>3. dtp' \in DataConnection
  BY DEF TypeOK, DtpSettled
<1>4. net' \in Connections
  BY DEF TypeOK, DtpSettled
<1>5. hist' \in History
  BY DEF TypeOK, DtpSettled
<1>6. calls' \in Seq(Frame) /\ Replied'
  BY DtpSettledStack
<1>7. QED  BY <1>1, <1>2, <1>3, <1>4, <1>5, <1>6 DEF TypeOK

\* QFtpDTP::socketReadyRead(): the types.
LEMMA DataReadyReadTyped ==
    ASSUME TypeOK, Replied, DataReadyRead
    PROVE  TypeOK' /\ Replied'
<1>1. ftp' \in Private
  BY DEF TypeOK, DataReadyRead
<1>2. pi' \in Interpreter
  BY DEF TypeOK, DataReadyRead
<1>3. dtp' \in DataConnection
  BY NoElements DEF TypeOK, DataConnection, DataReadyRead
<1>4. net' \in Connections
  BY NoElements DEF TypeOK, Connections, DataReadyRead
<1>5. hist' \in History
  BY DEF TypeOK, DataReadyRead
<1>6. calls' \in Seq(Frame) /\ Replied'
  BY DataReadyReadStack
<1>7. QED  BY <1>1, <1>2, <1>3, <1>4, <1>5, <1>6 DEF TypeOK

\* A line of the listing is read: the types.
LEMMA ListLinesTyped ==
    ASSUME TypeOK, Replied, ListLines
    PROVE  TypeOK' /\ Replied'
<1>1. ftp' \in Private
  BY DEF TypeOK, ListLines
<1>2. pi' \in Interpreter
  BY DEF TypeOK, ListLines
<1>3. dtp' \in DataConnection
  BY ListLinesData
<1>4. net' \in Connections
  BY DEF TypeOK, ListLines
<1>5. hist' \in History
  <2>1. hist' = hist \/ hist' = [hist EXCEPT !.owed = hist.owed - 1]
    BY DEF ListLines
  <2>2. hist \in History
    BY DEF TypeOK
  <2>3. [hist EXCEPT !.owed = hist.owed - 1] \in History
    BY <2>2 DEF History
  <2>4. QED  BY <2>1, <2>2, <2>3
<1>6. calls' \in Seq(Frame) /\ Replied'
  BY ListLinesStack
<1>7. QED  BY <1>1, <1>2, <1>3, <1>4, <1>5, <1>6 DEF TypeOK

\* The slot of commandFinished(.., false): the types.
LEMMA CommandFinishedSlotTyped ==
    ASSUME TypeOK, Replied, CommandFinishedSlot
    PROVE  TypeOK' /\ Replied'
<1>1. ftp' \in Private
  BY SlotsSchedule
<1>2. pi' \in Interpreter
  BY DEF TypeOK, CommandFinishedSlot, Schedules, AddCommand, AddCommandTo
<1>3. dtp' \in DataConnection
  BY DEF TypeOK, CommandFinishedSlot, Schedules, AddCommand, AddCommandTo
<1>4. net' \in Connections
  BY DEF TypeOK, CommandFinishedSlot, Schedules, AddCommand, AddCommandTo
<1>5. hist' \in History
  BY SlotsSchedule
<1>6. calls' \in Seq(Frame) /\ Replied'
  BY CommandFinishedSlotStack
<1>7. QED  BY <1>1, <1>2, <1>3, <1>4, <1>5, <1>6 DEF TypeOK

\* The slot of commandFinished(.., true): the types.
LEMMA CommandFailedSlotTyped ==
    ASSUME TypeOK, Replied, CommandFailedSlot
    PROVE  TypeOK' /\ Replied'
<1>1. ftp' \in Private
  BY SlotsSchedule
<1>2. pi' \in Interpreter
  BY DEF TypeOK, CommandFailedSlot, Schedules, AddCommand, AddCommandTo
<1>3. dtp' \in DataConnection
  BY DEF TypeOK, CommandFailedSlot, Schedules, AddCommand, AddCommandTo
<1>4. net' \in Connections
  BY DEF TypeOK, CommandFailedSlot, Schedules, AddCommand, AddCommandTo
<1>5. hist' \in History
  BY SlotsSchedule
<1>6. calls' \in Seq(Frame) /\ Replied'
  BY CommandFailedSlotStack
<1>7. QED  BY <1>1, <1>2, <1>3, <1>4, <1>5, <1>6 DEF TypeOK

\* The slot of listInfo(): the types.
LEMMA ListInfoSlotTyped ==
    ASSUME TypeOK, Replied, ListInfoSlot
    PROVE  TypeOK' /\ Replied'
<1>1. ftp' \in Private
  BY SlotsSchedule
<1>2. pi' \in Interpreter
  BY DEF TypeOK, ListInfoSlot, AddCommandTo
<1>3. dtp' \in DataConnection
  BY DEF TypeOK, ListInfoSlot, AddCommandTo
<1>4. net' \in Connections
  BY DEF TypeOK, ListInfoSlot, AddCommandTo
<1>5. hist' \in History
  BY SlotsSchedule
<1>6. calls' \in Seq(Frame) /\ Replied'
  BY ListInfoSlotStack
<1>7. QED  BY <1>1, <1>2, <1>3, <1>4, <1>5, <1>6 DEF TypeOK

\* The client closes from outside: the types.
LEMMA ClientClosesTyped ==
    ASSUME TypeOK, Replied, ClientCloses
    PROVE  TypeOK' /\ Replied'
<1>1. ftp' \in Private
  BY SlotsSchedule
<1>2. pi' \in Interpreter
  BY DEF TypeOK, ClientCloses, AddCommand, AddCommandTo
<1>3. dtp' \in DataConnection
  BY DEF TypeOK, ClientCloses, AddCommand, AddCommandTo
<1>4. net' \in Connections
  BY DEF TypeOK, ClientCloses, AddCommand, AddCommandTo
<1>5. hist' \in History
  BY SlotsSchedule
<1>6. calls' \in Seq(Frame) /\ Replied'
  BY ClientClosesStack
<1>7. QED  BY <1>1, <1>2, <1>3, <1>4, <1>5, <1>6 DEF TypeOK

\* The posted _q_startNextCommand(): the types.
LEMMA PostedStartTyped ==
    ASSUME TypeOK, Replied, PostedStart
    PROVE  TypeOK' /\ Replied'
<1>1. ftp' \in Private
  BY DEF TypeOK, Private, PostedStart
<1>2. pi' \in Interpreter
  BY DEF TypeOK, PostedStart
<1>3. dtp' \in DataConnection
  BY DEF TypeOK, PostedStart
<1>4. net' \in Connections
  BY DEF TypeOK, PostedStart
<1>5. hist' \in History
  BY DEF TypeOK, PostedStart
<1>6. calls' \in Seq(Frame) /\ Replied'
  BY PostedStartStack
<1>7. QED  BY <1>1, <1>2, <1>3, <1>4, <1>5, <1>6 DEF TypeOK

\* The name of the host is resolved: the types.
LEMMA HostFoundTyped ==
    ASSUME TypeOK, Replied, HostFound
    PROVE  TypeOK' /\ Replied'
<1>1. ftp' \in Private
  BY DEF TypeOK, HostFound
<1>2. pi' \in Interpreter
  BY DEF TypeOK, HostFound
<1>3. dtp' \in DataConnection
  BY DEF TypeOK, HostFound
<1>4. net' \in Connections
  BY DEF TypeOK, Connections, HostFound
<1>5. hist' \in History
  BY DEF TypeOK, HostFound
<1>6. calls' \in Seq(Frame) /\ Replied'
  BY HostFoundStack
<1>7. QED  BY <1>1, <1>2, <1>3, <1>4, <1>5, <1>6 DEF TypeOK

\* The host is not reached: the types.
LEMMA SocketErrorTyped ==
    ASSUME TypeOK, Replied, SocketError
    PROVE  TypeOK' /\ Replied'
<1>1. ftp' \in Private
  BY DEF TypeOK, SocketError
<1>2. pi' \in Interpreter
  BY DEF TypeOK, SocketError
<1>3. dtp' \in DataConnection
  BY DEF TypeOK, SocketError
<1>4. net' \in Connections
  BY DEF TypeOK, Connections, SocketError
<1>5. hist' \in History
  BY DEF TypeOK, SocketError
<1>6. calls' \in Seq(Frame) /\ Replied'
  BY SocketErrorStack
<1>7. QED  BY <1>1, <1>2, <1>3, <1>4, <1>5, <1>6 DEF TypeOK

\* The host is reached: the types.
LEMMA ConnectedTyped ==
    ASSUME TypeOK, Replied, Connected
    PROVE  TypeOK' /\ Replied'
<1>1. ftp' \in Private
  BY DEF TypeOK, Connected
<1>2. pi' \in Interpreter
  BY DEF TypeOK, Interpreter, Connected
<1>3. dtp' \in DataConnection
  BY DEF TypeOK, Connected
<1>4. net' \in Connections
  BY ConnectedConnections
<1>5. hist' \in History
  BY DEF TypeOK, Connected
<1>6. calls' \in Seq(Frame) /\ Replied'
  BY ConnectedStack
<1>7. QED  BY <1>1, <1>2, <1>3, <1>4, <1>5, <1>6 DEF TypeOK

\* Bytes of replies arrive: the types.
LEMMA ArrivesTyped ==
    ASSUME TypeOK, Replied, Arrives
    PROVE  TypeOK' /\ Replied'
<1>1. ftp' \in Private
  BY DEF TypeOK, Arrives
<1>2. pi' \in Interpreter
  BY DEF TypeOK, Arrives
<1>3. dtp' \in DataConnection
  BY DEF TypeOK, Arrives
<1>4. net' \in Connections
  BY ArrivesConnections
<1>5. hist' \in History
  BY DEF TypeOK, Arrives
<1>6. calls' \in Seq(Frame) /\ Replied'
  BY ArrivesStack
<1>7. QED  BY <1>1, <1>2, <1>3, <1>4, <1>5, <1>6 DEF TypeOK

\* The server closes: the types.
LEMMA ConnectionClosedTyped ==
    ASSUME TypeOK, Replied, ConnectionClosed
    PROVE  TypeOK' /\ Replied'
<1>1. ftp' \in Private
  BY DEF TypeOK, ConnectionClosed, Closed
<1>2. pi' \in Interpreter
  BY DEF TypeOK, ConnectionClosed, Closed
<1>3. dtp' \in DataConnection
  BY DEF TypeOK, ConnectionClosed, Closed
<1>4. net' \in Connections
  BY NoElements DEF TypeOK, Connections, ConnectionClosed, Closed
<1>5. hist' \in History
  BY DEF TypeOK, ConnectionClosed, Closed
<1>6. calls' \in Seq(Frame) /\ Replied'
  BY ConnectionClosedStack
<1>7. QED  BY <1>1, <1>2, <1>3, <1>4, <1>5, <1>6 DEF TypeOK

\* The connection breaks: the types.
LEMMA ConnectionLostTyped ==
    ASSUME TypeOK, Replied, ConnectionLost
    PROVE  TypeOK' /\ Replied'
<1>1. ftp' \in Private
  BY DEF TypeOK, ConnectionLost, Closed
<1>2. pi' \in Interpreter
  BY DEF TypeOK, ConnectionLost, Closed
<1>3. dtp' \in DataConnection
  BY DEF TypeOK, ConnectionLost, Closed
<1>4. net' \in Connections
  BY NoElements DEF TypeOK, Connections, ConnectionLost, Closed
<1>5. hist' \in History
  BY DEF TypeOK, History, ConnectionLost, Closed
<1>6. calls' \in Seq(Frame) /\ Replied'
  BY ConnectionLostStack
<1>7. QED  BY <1>1, <1>2, <1>3, <1>4, <1>5, <1>6 DEF TypeOK

\* The socket of the data connection is connected: the types.
LEMMA SocketConnectedTyped ==
    ASSUME TypeOK, Replied, SocketConnected
    PROVE  TypeOK' /\ Replied'
<1>1. ftp' \in Private
  BY DEF TypeOK, SocketConnected
<1>2. pi' \in Interpreter
  BY DEF TypeOK, SocketConnected
<1>3. dtp' \in DataConnection
  BY DEF TypeOK, DataConnection, SocketConnected
<1>4. net' \in Connections
  BY DEF TypeOK, SocketConnected
<1>5. hist' \in History
  BY DEF TypeOK, SocketConnected
<1>6. calls' \in Seq(Frame) /\ Replied'
  BY SocketConnectedStack
<1>7. QED  BY <1>1, <1>2, <1>3, <1>4, <1>5, <1>6 DEF TypeOK

\* The socket of the data connection is refused: the types.
LEMMA SocketRefusedTyped ==
    ASSUME TypeOK, Replied, SocketRefused
    PROVE  TypeOK' /\ Replied'
<1>1. ftp' \in Private
  BY DEF TypeOK, SocketRefused
<1>2. pi' \in Interpreter
  BY DEF TypeOK, SocketRefused
<1>3. dtp' \in DataConnection
  BY DEF TypeOK, DataConnection, SocketRefused
<1>4. net' \in Connections
  BY DEF TypeOK, Connections, SocketRefused
<1>5. hist' \in History
  BY DEF TypeOK, SocketRefused
<1>6. calls' \in Seq(Frame) /\ Replied'
  BY SocketRefusedStack
<1>7. QED  BY <1>1, <1>2, <1>3, <1>4, <1>5, <1>6 DEF TypeOK

\* Bytes of the listing arrive: the types.
LEMMA SocketReadyReadTyped ==
    ASSUME TypeOK, Replied, SocketReadyRead
    PROVE  TypeOK' /\ Replied'
<1>1. ftp' \in Private
  BY DEF TypeOK, SocketReadyRead
<1>2. pi' \in Interpreter
  BY DEF TypeOK, SocketReadyRead
<1>3. dtp' \in DataConnection
  BY SocketReadyReadData
<1>4. net' \in Connections
  BY NoElements DEF TypeOK, Connections, SocketReadyRead
<1>5. hist' \in History
  BY DEF TypeOK, SocketReadyRead
<1>6. calls' \in Seq(Frame) /\ Replied'
  BY SocketReadyReadStack
<1>7. QED  BY <1>1, <1>2, <1>3, <1>4, <1>5, <1>6 DEF TypeOK

\* The server closes the data connection: the types.
LEMMA SocketConnectionClosedTyped ==
    ASSUME TypeOK, Replied, SocketConnectionClosed
    PROVE  TypeOK' /\ Replied'
<1>1. ftp' \in Private
  BY DEF TypeOK, SocketConnectionClosed
<1>2. pi' \in Interpreter
  BY DEF TypeOK, SocketConnectionClosed
<1>3. dtp' \in DataConnection
  BY NoElements DEF TypeOK, DataConnection, SocketConnectionClosed
<1>4. net' \in Connections
  BY DEF TypeOK, Connections, SocketConnectionClosed
<1>5. hist' \in History
  BY DEF TypeOK, SocketConnectionClosed
<1>6. calls' \in Seq(Frame) /\ Replied'
  BY SocketConnectionClosedStack
<1>7. QED  BY <1>1, <1>2, <1>3, <1>4, <1>5, <1>6 DEF TypeOK

\* The server answers: the types.
LEMMA ServeTyped ==
    ASSUME TypeOK, Replied, Serve
    PROVE  TypeOK' /\ Replied'
<1>1. ftp' \in Private
  BY DEF TypeOK, Serve, ServerReplies, ServerRefuses, ServerTransfers, Reply1, Served
<1>2. pi' \in Interpreter
  BY DEF TypeOK, Serve, ServerReplies, ServerRefuses, ServerTransfers, Reply1, Served
<1>3. dtp' \in DataConnection
  BY DEF TypeOK, Serve, ServerReplies, ServerRefuses, ServerTransfers, Reply1, Served
<1>4. net' \in Connections
  BY ServeConnections
<1>5. hist' \in History
  BY ServeConnections
<1>6. calls' \in Seq(Frame) /\ Replied'
  BY ServeStack
<1>7. QED  BY <1>1, <1>2, <1>3, <1>4, <1>5, <1>6 DEF TypeOK

\* Every step keeps the types.
LEMMA Typed ==
    ASSUME TypeOK, Replied, [Next]_vars
    PROVE  TypeOK' /\ Replied'
<1>1. CASE Call
  BY <1>1,
     StartNextCommandTyped, PiFinishedTyped, PiErrorTyped, RemoveFirstTyped,
     PiConnectStateTyped, SendCommandsTyped, StartNextCmdTyped, ClearPendingCommandsTyped,
     PendingClearedTyped, ReadyReadTyped, ReadLinesTyped, ReplyDoneTyped, HoldReplyTyped,
     ProcessGreetingTyped, ProcessReplyTyped, IgnoreReplyTyped, ReactSuccessTyped,
     ReactFailureTyped, ReactWaitingTyped, AfterFailureTyped, ClearErrorTyped,
     DtpConnectedTyped, DtpRefusedTyped, AfterRefusalTyped, DtpClosedTyped,
     DtpSettledTyped, DataReadyReadTyped, ListLinesTyped, CommandFinishedSlotTyped,
     CommandFailedSlotTyped, ListInfoSlotTyped
     DEF Call
<1>2. CASE Network
  BY <1>2,
     PostedStartTyped, HostFoundTyped, SocketErrorTyped, ConnectedTyped, ArrivesTyped,
     ConnectionClosedTyped, SocketConnectedTyped, SocketRefusedTyped,
     SocketReadyReadTyped, SocketConnectionClosedTyped, ServeTyped
     DEF Network
<1>3. CASE ConnectionLost \/ ClientCloses
  BY <1>3, ConnectionLostTyped, ClientClosesTyped
<1>4. CASE UNCHANGED vars
  BY <1>4 DEF vars, TypeOK, Replied, Fn, Under
<1>5. QED  BY <1>1, <1>2, <1>3, <1>4 DEF Next

\* The initial state has them.
LEMMA InitTyped == ASSUME Init PROVE TypeOK /\ Replied
<1>1. ftp \in Private
  <2>1. /\ [id |-> 1, cmd |-> "Connect"] \in [id : 1 .. MaxCommands, cmd : AllCommands]
        /\ [id |-> 2, cmd |-> "Login"] \in [id : 1 .. MaxCommands, cmd : AllCommands]
    BY CommandsKnown DEF AllCommands
  <2>2. ftp.pending \in Seq([id : 1 .. MaxCommands, cmd : AllCommands])
    <3>1. ftp.pending = << [id |-> 1, cmd |-> "Connect"], [id |-> 2, cmd |-> "Login"] >>
      BY DEF Init
    <3>2. \A S : \A a \in S, b \in S : <<a, b>> \in Seq(S)
      OBVIOUS
    <3>3. QED  BY Zenon, <2>1, <3>1, <3>2
  <2>3. \A p \in Seq([id : 1 .. MaxCommands, cmd : AllCommands]) :
           [pending |-> p, state |-> "Unconnected", error |-> "NoError",
            closeWait |-> FALSE, posted |-> 1] \in Private
    BY DEF Private, FtpStates, FtpErrors
  <2>4. ftp = [pending |-> ftp.pending, state |-> "Unconnected", error |-> "NoError",
               closeWait |-> FALSE, posted |-> 1]
    BY DEF Init
  <2>5. QED  BY <2>2, <2>3, <2>4
<1>2. pi \in Interpreter
  BY NoElements DEF Init, Interpreter, Greeting, Reply, Codes
<1>3. dtp \in DataConnection /\ net \in Connections
  BY NoElements DEF Init, DataConnection, Connections
<1>4. calls \in Seq(Frame) /\ Replied
  <2>1. calls = <<>>
    BY DEF Init
  <2>2. QED  BY <2>1, NoElements DEF Replied
<1>5. hist \in History
  <2>1. 2 \in 2 .. MaxCommands /\ 0 \in 0 .. MaxCommands
    BY CommandsKnown
  <2>2. \A i \in 2 .. MaxCommands, c \in 0 .. MaxCommands :
           [id |-> i, current |-> c, sent |-> 0, overrun |-> FALSE, dataError |-> FALSE,
            lost |-> FALSE, done |-> FALSE, owed |-> 0, files |-> 0] \in History
    BY DEF History
  <2>3. QED  BY <2>1, <2>2 DEF Init
<1>6. QED  BY <1>1, <1>2, <1>3, <1>4, <1>5 DEF TypeOK

\* The variables of QFtp stay within their types: above all, no function is called with
\* an argument that is not one, and processReply() returns to the one who looks at what it
\* returned.
THEOREM CommandsTyped == Spec => []TypeOK
<1> DEFINE Inv == TypeOK /\ Replied
<1>1. Init => Inv
  BY InitTyped
<1>2. Inv /\ [Next]_vars => Inv'
  BY Typed
<1>3. QED  BY <1>1, <1>2, PTL DEF Spec

-----------------------------------------------------------------------------
(***************************************************************************)
(* The order, and what it says of the call that runs.                      *)
(***************************************************************************)

Ordered ==
    /\ Framed /\ OneHolder /\ OneCont /\ Holding
    /\ Clearing /\ Started /\ Greeted /\ Talk /\ Answered /\ Replying /\ Progress
    /\ Sending /\ ClosesLast /\ WaitsForEnd /\ Connection /\ FirstConnects /\ Errors

\* The stack when a runs.
LEMMA Before ==
    ASSUME TypeOK, Framed, OneHolder, OneCont, NEW a, Runs(a)
    PROVE  /\ ~Quiet /\ calls \in Seq(Frame) /\ Len(calls) \in Nat
           /\ Fn(1) = a /\ Fits(a, Under(1))
           /\ \A x : Runs(x) <=> x = a
           /\ \A x : OnStack(x) <=> x = a \/ Below(x)
           /\ Under(1) # "none" => Below(Under(1))
           /\ Under(1) = "none" <=> Len(calls) = 1
           /\ Len(calls) = 1 => \A x : ~Below(x)
           /\ Below("removeFirst") => a \in AboveRemove
           /\ (\E c \in Conts : Below(c)) => a \in AboveCont
<1>1. ~Quiet /\ calls \in Seq(Frame)
  BY DEF TypeOK, Runs
<1>2. Fn(1) = a /\ Len(calls) \in Nat /\ Len(calls) >= 1 /\ \A x : Runs(x) <=> x = a
  BY <1>1, Args
<1>3. Fits(a, Under(1))
  BY <1>2 DEF Framed
<1>4. \A x : OnStack(x) <=> x = a \/ Below(x)
  BY <1>2 DEF OnStack, Below
<1>5. Len(calls) > 1 => Under(1) = Fn(2) /\ 2 \in 2 .. Len(calls) /\ Fn(2) # "none"
  <2> SUFFICES ASSUME Len(calls) > 1 PROVE Under(1) = Fn(2) /\ 2 \in 2 .. Len(calls)
      /\ Fn(2) # "none"
    OBVIOUS
  <2>1. calls[2] \in Frame
    BY <1>1
  <2>2. \A f \in Frame : f[1] # "none"
    BY DEF Frame
  <2>3. QED  BY <1>2, <2>1, <2>2 DEF Under, Fn
<1>6. Len(calls) = 1 => Under(1) = "none" /\ \A x : ~Below(x)
  BY DEF Under, Below
<1>7. (Under(1) # "none" => Below(Under(1))) /\ (Under(1) = "none" <=> Len(calls) = 1)
  <2>1. CASE Len(calls) = 1
    BY <1>6, <2>1
  <2>2. CASE Len(calls) > 1
    <3>2. Under(1) = Fn(2) /\ Fn(2) # "none" /\ \E i \in 2 .. Len(calls) : Fn(i) = Fn(2)
      BY <1>5, <2>2
    <3>3. Below(Fn(2))
      BY <3>2 DEF Below
    <3>4. Len(calls) # 1
      <4>1. \A n \in Nat : n > 1 => n # 1
        OBVIOUS
      <4>2. QED  BY Zenon, <1>2, <2>2, <4>1
    <3>5. QED  BY <3>2, <3>3, <3>4
  <2>3. Len(calls) = 1 \/ Len(calls) > 1
    <3>1. Len(calls) \in Nat /\ Len(calls) >= 1
      BY <1>2
    <3>2. \A n \in Nat : n >= 1 => n = 1 \/ n > 1
      OBVIOUS
    <3>3. QED  BY Zenon, <3>1, <3>2
  <2>4. QED  BY <2>1, <2>2, <2>3
<1>8. ASSUME NEW fs, NEW above, Nested(fs, above), \E c \in fs : Below(c)
      PROVE  a \in above
  BY <1>1, <1>2, <1>8 DEF Nested, Below
<1>9. Below("removeFirst") => a \in AboveRemove
  BY <1>8 DEF OneHolder
<1>10. (\E c \in Conts : Below(c)) => a \in AboveCont
  BY <1>8 DEF OneCont
<1>11. QED  BY <1>1, <1>2, <1>3, <1>4, <1>6, <1>7, <1>9, <1>10

\* What may be below the call that runs.
LEMMA Belows ==
    ASSUME TypeOK, Framed, OneHolder, OneCont
    PROVE  /\ \A x : Below(x) => x \in {"replyDone", "readLines", "dtpSettled", "listLines",
                                       "piError", "removeFirst", "commandFailed",
                                       "pendingCleared"} \cup Conts
           /\ Below("listLines") => Runs("listInfo")
           /\ Below("commandFailed") => Below("removeFirst")
           /\ Below("pendingCleared") => Below("removeFirst")
           /\ Below("readLines") => OnStack("replyDone")
           /\ Below("dtpSettled") => OnStack("replyDone")
<1>1. calls \in Seq(Frame)
  BY DEF TypeOK
<1>2. ASSUME NEW i \in 2 .. Len(calls)
      PROVE  i - 1 \in 1 .. Len(calls) /\ Under(i - 1) = Fn(i) /\ Fits(Fn(i - 1), Fn(i))
             /\ calls[i - 1] \in Frame
  <2>1. i - 1 \in 1 .. Len(calls) /\ i - 1 < Len(calls) /\ (i - 1) + 1 = i
    BY <1>1
  <2>2. Under(i - 1) = Fn(i)
    BY <2>1 DEF Under, Fn
  <2>3. Fits(Fn(i - 1), Under(i - 1)) /\ calls[i - 1] \in Frame
    BY <1>1, <2>1 DEF Framed
  <2>4. QED  BY <2>1, <2>2, <2>3
<1>3. ASSUME NEW f \in Frame, NEW u, Fits(f[1], u), u # "none"
      PROVE  /\ u \in {"replyDone", "readLines", "dtpSettled", "listLines", "piError",
                       "removeFirst", "commandFailed", "pendingCleared"} \cup Conts
             /\ u = "listLines" => f[1] = "listInfo"
             /\ u \in {"readLines", "dtpSettled"} => f[1] = "replyDone"
  <2>1. f[1] \in {"startNextCommand", "piFinished", "startNextCmd",
                  "clearPendingCommands", "pendingCleared", "readyRead",
                  "readLines", "processReply", "replyDone", "react",
                  "afterFailure", "clearError", "dtpConnected", "dtpRefused",
                  "afterRefusal", "dtpClosed", "dtpSettled", "dataReadyRead",
                  "listLines", "connectState", "sendCommands", "piError", "listInfo",
                  "commandFinished", "commandFailed", "removeFirst"}
    BY DEF Frame
  <2>2. QED  BY <1>3, <2>1 DEF Fits, Resumes, Reading, Conts
<1>4. ASSUME NEW i \in 2 .. Len(calls)
      PROVE  /\ Fn(i) \in {"replyDone", "readLines", "dtpSettled", "listLines", "piError",
                           "removeFirst", "commandFailed", "pendingCleared"} \cup Conts
             /\ Fn(i) = "listLines" => Fn(i - 1) = "listInfo"
             /\ Fn(i) \in {"readLines", "dtpSettled"} => Fn(i - 1) = "replyDone"
  <2>1. calls[i] \in Frame /\ Fn(i) # "none"
    BY <1>1 DEF Frame, Fn
  <2>2. QED  BY <1>2, <1>3, <2>1 DEF Fn
<1>5. \A x : Below(x) => x \in {"replyDone", "readLines", "dtpSettled", "listLines",
                                "piError", "removeFirst", "commandFailed",
                                "pendingCleared"} \cup Conts
  BY <1>4 DEF Below
<1>6. ASSUME NEW i \in 1 .. Len(calls), Fn(i)
                 \in {"commandFailed", "clearPendingCommands", "pendingCleared"}
      PROVE  Below("removeFirst")
  <2>1. ASSUME NEW j \in 1 .. Len(calls), Fn(j) = "commandFailed"
        PROVE  Below("removeFirst")
    <3>1. Under(j) = "removeFirst"
      BY <2>1 DEF Framed, Fits
    <3>2. j < Len(calls) /\ Fn(j + 1) = "removeFirst"
      BY <3>1 DEF Under, Fn
    <3>3. j + 1 \in 2 .. Len(calls)
      BY <1>1, <3>2
    <3>4. QED  BY <3>2, <3>3 DEF Below
  <2>2. CASE Fn(i) \in {"clearPendingCommands", "pendingCleared"}
    <3>1. Under(i) = "commandFailed"
      BY <2>2 DEF Framed, Fits
    <3>2. i < Len(calls) /\ Fn(i + 1) = "commandFailed"
      BY <3>1 DEF Under, Fn
    <3>3. i + 1 \in 1 .. Len(calls)
      BY <1>1, <3>2
    <3>4. QED  BY <2>1, <3>2, <3>3
  <2>3. QED  BY <1>6, <2>1, <2>2
<1>7. (Below("commandFailed") => Below("removeFirst"))
      /\ (Below("pendingCleared") => Below("removeFirst"))
  <2>1. 2 .. Len(calls) \subseteq 1 .. Len(calls)
    BY <1>1
  <2>2. QED  BY <1>6, <2>1 DEF Below
<1>8. Below("listLines") => Runs("listInfo")
  <2> SUFFICES ASSUME NEW i \in 2 .. Len(calls), Fn(i) = "listLines" PROVE Runs("listInfo")
    BY DEF Below
  <2>1. Fn(i - 1) = "listInfo" /\ i - 1 \in 1 .. Len(calls)
    BY <1>2, <1>4
  <2>2. CASE i = 2
    <3>1. ~Quiet /\ Fn(1) = "listInfo"
      BY <1>1, <2>1, <2>2 DEF Quiet
    <3>2. QED  BY <1>1, <3>1, Args
  <2>3. CASE i # 2
    <3>1. i - 1 \in 2 .. Len(calls)
      BY <2>1, <2>3
    <3>2. QED  BY <1>4, <2>1, <3>1 DEF Conts
  <2>4. QED  BY <2>2, <2>3
<1>9. ASSUME NEW i \in 2 .. Len(calls), Fn(i) \in {"readLines", "dtpSettled"}
      PROVE  OnStack("replyDone")
  BY <1>2, <1>4, <1>9 DEF OnStack
<1>10. QED  BY <1>5, <1>7, <1>8, <1>9 DEF Below

\* processReply() runs for the socket, or for the end of the data connection.
LEMMA ReplyStack ==
    ASSUME TypeOK, Framed, Runs("processReply"), Len(calls) = 3
    PROVE  \E f \in {"readLines", "dtpSettled"} :
              /\ calls[3] = <<f>> \/ calls[3][1] = f
              /\ \A x : Below(x) <=> x \in {"replyDone", f}
              /\ \A x : Deep(x) <=> x = f
<1>1. calls \in Seq(Frame) /\ ~Quiet /\ Fn(1) = "processReply"
  <2>1. calls \in Seq(Frame) /\ ~Quiet
    BY DEF TypeOK, Runs
  <2>2. QED  BY <2>1, Args
<1>2. Under(1) = Fn(2) /\ Under(2) = Fn(3)
  BY <1>1 DEF Under, Fn
<1>3. Fits(Fn(1), Fn(2)) /\ Fits(Fn(2), Fn(3))
  BY <1>1, <1>2 DEF Framed
<1>4. Fn(2) = "replyDone" /\ Fn(3) \in {"readLines", "dtpSettled"}
  BY <1>1, <1>3 DEF Fits
<1>5. (\A i : i \in 2 .. 3 <=> i = 2 \/ i = 3) /\ (\A i : i \in 3 .. 3 <=> i = 3)
  OBVIOUS
<1>6. (\A x : Below(x) <=> x \in {"replyDone", Fn(3)}) /\ (\A x : Deep(x) <=> x = Fn(3))
  BY <1>4, <1>5 DEF Below, Deep
<1>7. QED  BY <1>4, <1>6 DEF Fn

\* A step that makes no call and returns from none keeps the stack.
LEMMA Stays ==
    ASSUME calls' = calls
    PROVE  /\ \A x : (OnStack(x)' <=> OnStack(x)) /\ (Below(x)' <=> Below(x))
               /\ (Deep(x)' <=> Deep(x))
           /\ \A x : Runs(x)' <=> Runs(x)
           /\ Len(calls') = Len(calls) /\ Quiet' = Quiet /\ Arg' = Arg
           /\ Framed => Framed'
           /\ OneHolder => OneHolder'
           /\ OneCont => OneCont'
           /\ Holding /\ hist'.current = hist.current => Holding'
  BY DEF OnStack, Below, Deep, Runs, Quiet, Framed, OneHolder, OneCont, Nested, Holding, Fn,
         Under, Arg

\* Between the events of the loop nothing is called.
LEMMA WhenQuiet ==
    ASSUME Quiet
    PROVE  /\ \A x : ~OnStack(x) /\ ~Below(x) /\ ~Deep(x) /\ ~Runs(x)
           /\ Len(calls) = 0
  BY DEF OnStack, Below, Deep, Runs, Quiet

\* No call is in progress exactly when the stack is empty.
LEMMA NotQuiet ==
    ASSUME calls' \in Seq(Frame)
    PROVE  Quiet' <=> Len(calls') = 0
  BY DEF Quiet

\* A slot may schedule a command; the first of the queue stays.
LEMMA Adding ==
    ASSUME TypeOK, NEW h \in History, NEW c, AddCommandTo(h, c)
    PROVE  /\ ftp'.pending = Append(ftp.pending, [id |-> h.id + 1, cmd |-> c])
           /\ ftp'.state = ftp.state /\ ftp'.closeWait = ftp.closeWait /\ ftp'.pending # <<>>
           /\ hist'.current = h.current /\ hist'.sent = h.sent /\ hist'.dataError = h.dataError
           /\ ftp.pending # <<>> => Current' = Current /\ ftp'.posted = ftp.posted
           /\ ftp.pending = <<>> => ftp'.posted = ftp.posted + 1
<1> DEFINE e == [id |-> h.id + 1, cmd |-> c]
<1>1. /\ ftp'.state = ftp.state /\ ftp'.closeWait = ftp.closeWait
      /\ ftp'.pending = Append(ftp.pending, e)
      /\ ftp'.posted = IF ftp.pending = <<>> THEN ftp.posted + 1 ELSE ftp.posted
  BY DEF AddCommandTo, TypeOK, Private
<1>2. hist'.current = h.current /\ hist'.sent = h.sent /\ hist'.dataError = h.dataError
  BY DEF AddCommandTo, History
<1>3. \A S, T : \A s \in Seq(S), x \in T :
         Append(s, x) # <<>> /\ (s # <<>> => Head(Append(s, x)) = Head(s))
  <2> SUFFICES ASSUME NEW S, NEW T, NEW s \in Seq(S), NEW x \in T
               PROVE  Append(s, x) # <<>> /\ (s # <<>> => Head(Append(s, x)) = Head(s))
    OBVIOUS
  <2>1. s \in Seq(S \cup T) /\ x \in S \cup T
    OBVIOUS
  <2>2. Len(Append(s, x)) = Len(s) + 1 /\ Append(s, x) \in Seq(S \cup T)
        /\ \A i \in 1 .. Len(s) : Append(s, x)[i] = s[i]
    BY <2>1
  <2>3. QED  BY <2>1, <2>2
<1>4. ftp.pending \in Seq([id : 1 .. MaxCommands, cmd : AllCommands]) /\ e \in {e}
  BY DEF TypeOK, Private
<1> HIDE DEF e
<1>5. ftp'.pending # <<>> /\ (ftp.pending # <<>> => Head(ftp'.pending) = Head(ftp.pending))
  BY SMTT(30), <1>1, <1>3, <1>4
<1>6. QED  BY <1>1, <1>2, <1>5 DEF Current, e

\* So does each of the slots, and the client.
LEMMA Scheduling ==
    ASSUME TypeOK, CommandFinishedSlot \/ CommandFailedSlot \/ ListInfoSlot \/ ClientCloses
    PROVE  /\ ftp'.state = ftp.state /\ ftp'.closeWait = ftp.closeWait
           /\ hist'.current = hist.current /\ hist'.sent = hist.sent
                  /\ hist'.dataError = hist.dataError
           /\ ftp.pending # <<>>
                  => ftp'.pending # <<>> /\ Current' = Current /\ ftp'.posted = ftp.posted
           /\ ClientCloses => ftp'.pending # <<>>
           /\ ClientCloses /\ ftp.pending = <<>> => ftp'.posted = ftp.posted + 1
<1> DEFINE P == /\ ftp'.state = ftp.state /\ ftp'.closeWait = ftp.closeWait
                /\ hist'.current = hist.current /\ hist'.sent = hist.sent
                       /\ hist'.dataError = hist.dataError
                /\ ftp.pending # <<>>
                       => ftp'.pending # <<>> /\ Current' = Current /\ ftp'.posted = ftp.posted
           counted == [hist EXCEPT !.files = IF Arg.file THEN hist.files - 1 ELSE hist.files]
<1>1. counted \in History /\ counted.current = hist.current /\ counted.sent = hist.sent
      /\ counted.dataError = hist.dataError
  BY DEF TypeOK, History
<1>2. ASSUME UNCHANGED ftp, hist' \in {hist, counted} PROVE P
  BY <1>1, <1>2 DEF Current
<1>3. ASSUME NEW h \in {hist, counted}, NEW c, AddCommandTo(h, c)
      PROVE  P /\ ftp'.pending # <<>> /\ (ftp.pending = <<>> => ftp'.posted = ftp.posted + 1)
  <2>1. h \in History /\ h.current = hist.current /\ h.sent = hist.sent
            /\ h.dataError = hist.dataError
    BY <1>1 DEF TypeOK
  <2>2. QED  BY <1>3, <2>1, Adding
<1>4. CASE ClientCloses
  BY <1>3, <1>4 DEF ClientCloses, AddCommand
<1>5. ASSUME ListInfoSlot PROVE P
  <2>1. (\E c \in Commands : AddCommandTo(counted, c)) \/ (hist' = counted /\ UNCHANGED ftp)
    BY <1>5 DEF ListInfoSlot
  <2> HIDE DEF counted, P
  <2>2. QED  BY <1>2, <1>3, <2>1
<1>6. ASSUME CommandFinishedSlot \/ CommandFailedSlot PROVE P
  <2>1. (\E c \in Commands : AddCommandTo(hist, c)) \/ UNCHANGED <<ftp, hist>>
    BY <1>6 DEF CommandFinishedSlot, CommandFailedSlot, Schedules, AddCommand
  <2> HIDE DEF counted, P
  <2>2. QED  BY <1>2, <1>3, <2>1
<1>7. ASSUME ClientCloses, ~Quiet PROVE FALSE
  BY <1>7 DEF ClientCloses
<1>8. (CommandFinishedSlot \/ CommandFailedSlot \/ ListInfoSlot) => ~ClientCloses
  BY <1>7 DEF CommandFinishedSlot, CommandFailedSlot, ListInfoSlot, Runs
<1>9. QED  BY <1>4, <1>5, <1>6, <1>8

-----------------------------------------------------------------------------
(***************************************************************************)
(* The tables of raw commands and replies, and the commands that are       *)
(* scheduled.                                                              *)
(***************************************************************************)

\* The table of replies.
LEMMA StateTable ==
    /\ \A c \in {120, 150} : StateFor(c) = "Waiting"
    /\ \A c \in {200, 213, 220, 221, 226, 227, 229, 230, 250} : StateFor(c) = "Success"
    /\ \A c \in {331, 350} : StateFor(c) = "Idle"
    /\ \A c \in {202, 421, 425, 426, 500, 530, 550} : StateFor(c) = "Failure"
    /\ 120 \div 100 # 2 /\ 220 \div 100 = 2 /\ 421 \div 100 # 2
<1>1. ASSUME NEW c \in Nat PROVE c \div 100 \in Nat /\ 100 * (c \div 100) <= c
                 /\ c < 100 * (c \div 100) + 100
  OBVIOUS
<1>2. \A c \in Nat : /\ 100 <= c /\ c < 200 => c \div 100 = 1
                     /\ 200 <= c /\ c < 300 => c \div 100 = 2
                     /\ 300 <= c /\ c < 400 => c \div 100 = 3
                     /\ 400 <= c /\ c < 500 => c \div 100 = 4
                     /\ 500 <= c /\ c < 600 => c \div 100 = 5
  BY <1>1
<1>3. /\ 120 \div 100 = 1 /\ 150 \div 100 = 1
      /\ \A c \in {200, 202, 213, 220, 221, 226, 227, 229, 230, 250} : c \div 100 = 2
      /\ 331 \div 100 = 3 /\ 350 \div 100 = 3
      /\ \A c \in {421, 425, 426} : c \div 100 = 4
      /\ \A c \in {500, 530, 550} : c \div 100 = 5
  BY <1>2
<1>4. QED  BY <1>3 DEF StateFor

\* What a reply tells of the command it answers.
LEMMA CodeTells ==
    ASSUME NEW cmd \in RawCommands, NEW c \in CodesFor(cmd)
    PROVE  /\ c \in {150, 200, 202, 213, 221, 226, 227, 229, 230, 250, 331, 350, 425, 426, 500,
                     530, 550}
           /\ c = 227 => cmd = "PASV"
           /\ c = 229 => cmd = "EPSV"
           /\ c = 230 => cmd \in {"USER", "PASS"}
           /\ c = 150 => cmd \in {"LIST", "RETR"}
           /\ c = 226 => cmd \in {"LIST", "RETR"}
           /\ cmd \in {"LIST", "RETR"} => c \in {150, 226, 250, 425, 426, 550}
           /\ cmd = "LIST" => c # 250
           /\ cmd \in {"PASV", "EPSV"} => c \in {227, 229, 500}
<1>1. CASE cmd \in {"LIST", "RETR"}
  BY <1>1 DEF CodesFor
<1>2. CASE cmd \notin {"LIST", "RETR"}
  <2>1. c \in Answers(cmd)
    BY <1>2 DEF CodesFor
  <2>2. cmd \in {"USER", "PASS", "TYPE", "PASV", "EPSV", "SIZE", "CWD", "RNFR", "RNTO", "QUIT"}
    BY <1>2 DEF RawCommands
  <2>3. QED  BY <1>2, <2>1, <2>2 DEF Answers
<1>3. QED  BY <1>1, <1>2

\* A pair, a triple and four are known by their elements.
LEMMA Firsts ==
    \A a, b, c, d :
        /\ Head(<<a>>) = a /\ Tail(<<a>>) = <<>>
        /\ Head(<<a, b>>) = a /\ Tail(<<a, b>>) = <<b>>
        /\ Head(<<a, b, c>>) = a /\ Tail(<<a, b, c>>) = <<b, c>>
        /\ Head(<<a, b, c, d>>) = a /\ Tail(<<a, b, c, d>>) = <<b, c, d>>
        /\ <<a>> # <<>> /\ <<a, b>> # <<>> /\ <<a, b, c>> # <<>> /\ <<a, b, c, d>> # <<>>
  OBVIOUS

\* The next raw command of what is left, and what is left then.
LEMMA RestNext ==
    ASSUME NEW cmd \in RawCommands \cup {"none"}, pi.todo \in Rest(cmd), pi.todo # <<>>
    PROVE  /\ NextCmd \in RawCommands
           /\ Tail(pi.todo) \in Rest(NextCmd)
           /\ NextCmd = "EPSV" => Tail(pi.todo) \in ToTransfer
           /\ NextCmd \in {"LIST", "RETR"} =>
                 Tail(pi.todo) = <<>> /\ pi.todo \in ToTransfer /\ cmd \in {"PASV", "EPSV"}
           /\ pi.todo \in ToTransfer => NextCmd \in {"LIST", "RETR"}
<1> DEFINE t == pi.todo
           Goal == /\ NextCmd \in RawCommands
                   /\ Tail(t) \in Rest(NextCmd)
                   /\ NextCmd = "EPSV" => Tail(t) \in ToTransfer
                   /\ NextCmd \in {"LIST", "RETR"} =>
                         Tail(t) = <<>> /\ t \in ToTransfer /\ cmd \in {"PASV", "EPSV"}
                   /\ t \in ToTransfer => NextCmd \in {"LIST", "RETR"}
<1>1. ASSUME NEW x \in RawCommands, x # "PASV", Head(t) = x PROVE NextCmd = x
  BY <1>1 DEF NextCmd
<1>2. ASSUME Head(t) = "PASV" PROVE NextCmd \in {"PASV", "EPSV"}
  BY <1>2 DEF NextCmd
<1>3. \/ t = <<"PASS">> \/ t = <<"PASV", "LIST">> \/ t = <<"SIZE", "PASV", "RETR">>
      \/ t = <<"PASV", "RETR">> \/ (t \in {<<"LIST">>, <<"RETR">>} /\ cmd \in {"PASV", "EPSV"})
      \/ t = <<"RNTO">> \/ t = <<"USER", "PASS">> \/ t = <<"TYPE", "PASV", "LIST">>
      \/ t = <<"TYPE", "SIZE", "PASV", "RETR">> \/ t = <<"CWD">> \/ t = <<"RNFR", "RNTO">>
      \/ t = <<"QUIT">>
  <2>1. CASE cmd = "none"
    BY <2>1 DEF Rest, AllCommands, Raw
  <2>2. CASE cmd \in {"USER", "TYPE", "SIZE", "PASV", "EPSV", "RNFR"}
    BY <2>2 DEF Rest
  <2>3. CASE cmd \notin {"none", "USER", "TYPE", "SIZE", "PASV", "EPSV", "RNFR"}
    BY <2>3 DEF Rest
  <2>4. QED  BY <2>1, <2>2, <2>3
<1>4. {"USER", "PASS", "TYPE", "PASV", "EPSV", "LIST", "SIZE", "RETR"} \subseteq RawCommands
      /\ {"CWD", "RNFR", "RNTO", "QUIT"} \subseteq RawCommands
  BY DEF RawCommands
<1>5. /\ Rest("USER") = {<<"PASS">>, <<>>}
      /\ Rest("TYPE") = {<<"PASV", "LIST">>, <<"SIZE", "PASV", "RETR">>}
      /\ Rest("SIZE") = {<<"PASV", "RETR">>}
      /\ Rest("PASV") = {<<"LIST">>, <<"RETR">>}
      /\ {<<"LIST">>, <<"RETR">>} \subseteq Rest("EPSV")
      /\ Rest("RNFR") = {<<"RNTO">>}
      /\ \A x \in {"PASS", "LIST", "RETR", "CWD", "RNTO", "QUIT"} : Rest(x) = {<<>>}
  BY DEF Rest
<1>6. CASE t = <<"PASS">>
  <2>1. Head(t) = "PASS" /\ Tail(t) = <<>> /\ t \notin ToTransfer
    BY <1>6, Firsts DEF ToTransfer
  <2>2. NextCmd = "PASS"
    BY <1>1, <1>4, <2>1
  <2>3. QED  BY <1>4, <1>5, <2>1, <2>2
<1>7. CASE t = <<"PASV", "LIST">>
  <2>1. Head(t) = "PASV" /\ Tail(t) = <<"LIST">> /\ t \notin ToTransfer
    BY <1>7, Firsts DEF ToTransfer
  <2>2. NextCmd \in {"PASV", "EPSV"}
    BY <1>2, <2>1
  <2>3. QED  BY <1>4, <1>5, <2>1, <2>2 DEF ToTransfer
<1>8. CASE t = <<"PASV", "RETR">>
  <2>1. Head(t) = "PASV" /\ Tail(t) = <<"RETR">> /\ t \notin ToTransfer
    BY <1>8, Firsts DEF ToTransfer
  <2>2. NextCmd \in {"PASV", "EPSV"}
    BY <1>2, <2>1
  <2>3. QED  BY <1>4, <1>5, <2>1, <2>2 DEF ToTransfer
<1>9. CASE t = <<"SIZE", "PASV", "RETR">>
  <2>1. Head(t) = "SIZE" /\ Tail(t) = <<"PASV", "RETR">> /\ t \notin ToTransfer
    BY <1>9, Firsts DEF ToTransfer
  <2>2. NextCmd = "SIZE"
    BY <1>1, <1>4, <2>1
  <2>3. QED  BY <1>4, <1>5, <2>1, <2>2
<1>10. CASE t = <<"LIST">> /\ cmd \in {"PASV", "EPSV"}
  <2>1. Head(t) = "LIST" /\ Tail(t) = <<>> /\ t \in ToTransfer
    BY <1>10, Firsts DEF ToTransfer
  <2>2. NextCmd = "LIST"
    BY <1>1, <1>4, <2>1
  <2>3. QED  BY <1>4, <1>5, <1>10, <2>1, <2>2
<1>11. CASE t = <<"RETR">> /\ cmd \in {"PASV", "EPSV"}
  <2>1. Head(t) = "RETR" /\ Tail(t) = <<>> /\ t \in ToTransfer
    BY <1>11, Firsts DEF ToTransfer
  <2>2. NextCmd = "RETR"
    BY <1>1, <1>4, <2>1
  <2>3. QED  BY <1>4, <1>5, <1>11, <2>1, <2>2
<1>12. CASE t = <<"USER", "PASS">>
  <2>1. Head(t) = "USER" /\ Tail(t) = <<"PASS">> /\ t \notin ToTransfer
    BY <1>12, Firsts DEF ToTransfer
  <2>2. NextCmd = "USER"
    BY <1>1, <1>4, <2>1
  <2>3. QED  BY <1>4, <1>5, <2>1, <2>2
<1>13. CASE t = <<"TYPE", "PASV", "LIST">>
  <2>1. Head(t) = "TYPE" /\ Tail(t) = <<"PASV", "LIST">> /\ t \notin ToTransfer
    BY <1>13, Firsts DEF ToTransfer
  <2>2. NextCmd = "TYPE"
    BY <1>1, <1>4, <2>1
  <2>3. QED  BY <1>4, <1>5, <2>1, <2>2
<1>14. CASE t = <<"TYPE", "SIZE", "PASV", "RETR">>
  <2>1. Head(t) = "TYPE" /\ Tail(t) = <<"SIZE", "PASV", "RETR">> /\ t \notin ToTransfer
    BY <1>14, Firsts DEF ToTransfer
  <2>2. NextCmd = "TYPE"
    BY <1>1, <1>4, <2>1
  <2>3. QED  BY <1>4, <1>5, <2>1, <2>2
<1>15. CASE t = <<"RNFR", "RNTO">>
  <2>1. Head(t) = "RNFR" /\ Tail(t) = <<"RNTO">> /\ t \notin ToTransfer
    BY <1>15, Firsts DEF ToTransfer
  <2>2. NextCmd = "RNFR"
    BY <1>1, <1>4, <2>1
  <2>3. QED  BY <1>4, <1>5, <2>1, <2>2
<1>16. CASE t = <<"RNTO">>
  <2>1. Head(t) = "RNTO" /\ Tail(t) = <<>> /\ t \notin ToTransfer
    BY <1>16, Firsts DEF ToTransfer
  <2>2. NextCmd = "RNTO"
    BY <1>1, <1>4, <2>1
  <2>3. QED  BY <1>4, <1>5, <2>1, <2>2
<1>17. CASE t = <<"CWD">>
  <2>1. Head(t) = "CWD" /\ Tail(t) = <<>> /\ t \notin ToTransfer
    BY <1>17, Firsts DEF ToTransfer
  <2>2. NextCmd = "CWD"
    BY <1>1, <1>4, <2>1
  <2>3. QED  BY <1>4, <1>5, <2>1, <2>2
<1>18. CASE t = <<"QUIT">>
  <2>1. Head(t) = "QUIT" /\ Tail(t) = <<>> /\ t \notin ToTransfer
    BY <1>18, Firsts DEF ToTransfer
  <2>2. NextCmd = "QUIT"
    BY <1>1, <1>4, <2>1
  <2>3. QED  BY <1>4, <1>5, <2>1, <2>2
<1>19. QED  BY <1>3, <1>6, <1>7, <1>8, <1>9, <1>10, <1>11, <1>12, <1>13, <1>14, <1>15, <1>16,
           <1>17, <1>18

\* What is left of the queue once its first command is removed.
LEMMA Removed ==
    ASSUME TypeOK, ftp.pending # <<>>, FirstConnects
    PROVE  /\ Tail(ftp.pending) # <<>> => Head(Tail(ftp.pending)).cmd # "Connect"
           /\ \A i \in 2 .. Len(Tail(ftp.pending)) : Tail(ftp.pending)[i].cmd # "Connect"
<1> DEFINE C == [id : 1 .. MaxCommands, cmd : AllCommands]
           s == ftp.pending
<1>1. s \in Seq(C)
  BY DEF TypeOK, Private
<1>2. Tail(s) \in Seq(C) /\ Len(Tail(s)) = Len(s) - 1
      /\ \A i \in 1 .. Len(s) - 1 : Tail(s)[i] = s[i + 1]
  BY <1>1
<1>3. \A i \in 1 .. Len(Tail(s)) : i + 1 \in 2 .. Len(s) /\ Tail(s)[i] = s[i + 1]
  BY <1>1, <1>2
<1>4. \A i \in 1 .. Len(Tail(s)) : Tail(s)[i].cmd # "Connect"
  BY <1>3 DEF FirstConnects
<1>5. Tail(s) # <<>> => 1 \in 1 .. Len(Tail(s)) /\ Head(Tail(s)) = Tail(s)[1]
  BY <1>2
<1>6. \A i \in 2 .. Len(Tail(s)) : i \in 1 .. Len(Tail(s))
  BY <1>2
<1> HIDE DEF s
<1>7. QED  BY <1>4, <1>5, <1>6 DEF s

\* Only connectToFtp() connects.
LEMMA AddedConnects ==
    ASSUME TypeOK, FirstConnects, NEW h \in History, NEW c \in Commands, AddCommandTo(h, c)
    PROVE  /\ \A i \in 2 .. Len(ftp'.pending) : ftp'.pending[i].cmd # "Connect"
           /\ ftp.pending = <<>> => Current'.cmd # "Connect"
<1> DEFINE C == [id : 1 .. MaxCommands, cmd : AllCommands]
           e == [id |-> h.id + 1, cmd |-> c]
           s == ftp.pending
<1>1. s \in Seq(C) /\ ftp'.pending = Append(s, e)
  BY Adding DEF TypeOK, Private
<1>2. e.cmd # "Connect"
  BY QFtpAssumption
<1> HIDE DEF e
<1>3. \A S : \A q \in Seq(S) : \A x :
         /\ Len(Append(q, x)) = Len(q) + 1
         /\ \A i \in 1 .. Len(q) + 1 : Append(q, x)[i] = IF i = Len(q) + 1 THEN x ELSE q[i]
         /\ Head(Append(q, x)) = Append(q, x)[1]
         /\ q = <<>> => Len(q) = 0
  <2> SUFFICES ASSUME NEW S, NEW q \in Seq(S), NEW x
               PROVE  /\ Len(Append(q, x)) = Len(q) + 1
                      /\ \A i \in 1 .. Len(q) + 1 : Append(q, x)[i] = IF i = Len(q) + 1 THEN x
                             ELSE q[i]
                      /\ Head(Append(q, x)) = Append(q, x)[1]
                      /\ q = <<>> => Len(q) = 0
    OBVIOUS
  <2>1. q \in Seq(S \cup {x}) /\ x \in S \cup {x}
    OBVIOUS
  <2>2. QED  BY <2>1
<1>4. \A i \in 2 .. Len(ftp'.pending) : ftp'.pending[i] = IF i = Len(s) + 1 THEN e ELSE s[i]
  BY <1>1, <1>3
<1>5. \A i \in 2 .. Len(ftp'.pending) : i # Len(s) + 1 => i \in 2 .. Len(s)
  <2>1. Len(s) \in Nat /\ Len(ftp'.pending) = Len(s) + 1
    BY <1>1, <1>3
  <2>2. QED  BY <2>1
<1>6. \A i \in 2 .. Len(ftp'.pending) : ftp'.pending[i].cmd # "Connect"
  BY <1>2, <1>4, <1>5 DEF FirstConnects
<1>7. s = <<>> => Head(ftp'.pending) = e
  <2>1. s = <<>> => Len(s) = 0 /\ 1 \in 1 .. Len(s) + 1 /\ 1 = Len(s) + 1
    BY <1>1, <1>3
  <2>2. QED  BY <1>1, <1>3, <2>1
<1>8. QED  BY <1>2, <1>6, <1>7 DEF Current

\* Nor is one that a slot schedules.
LEMMA ScheduledConnects ==
    ASSUME TypeOK, FirstConnects,
           CommandFinishedSlot \/ CommandFailedSlot \/ ListInfoSlot \/ ClientCloses
    PROVE  \/ UNCHANGED ftp
           \/ /\ \A i \in 2 .. Len(ftp'.pending) : ftp'.pending[i].cmd # "Connect"
              /\ ftp.pending = <<>> => Current'.cmd # "Connect"
<1> DEFINE counted == [hist EXCEPT !.files = IF Arg.file THEN hist.files - 1 ELSE hist.files]
<1>1. hist \in History /\ counted \in History
  BY DEF TypeOK, History
<1>2. \/ \E c \in Commands : AddCommandTo(hist, c) \/ AddCommandTo(counted, c)
      \/ UNCHANGED ftp
  BY DEF CommandFinishedSlot, CommandFailedSlot, ListInfoSlot, ClientCloses, Schedules, AddCommand
<1> HIDE DEF counted
<1>3. QED  BY <1>1, <1>2, AddedConnects

-----------------------------------------------------------------------------
(***************************************************************************)
(* Replies: what is read, and in what order.                               *)
(***************************************************************************)

\* The rest of a sequence, element by element.
LEMMA Shorter ==
    ASSUME NEW S, NEW s \in Seq(S), s # <<>>
    PROVE  /\ Tail(s) \in Seq(S) /\ Len(Tail(s)) = Len(s) - 1
           /\ Head(s) = s[1] /\ s[1] \in S /\ Len(s) \in Nat
           /\ \A i \in 1 .. Len(s) - 1 : Tail(s)[i] = s[i + 1]
  OBVIOUS

\* A sequence is empty when it has no length.
LEMMA NoneLeft ==
    ASSUME NEW S, NEW s \in Seq(S)
    PROVE  (s = <<>> <=> Len(s) = 0) /\ Len(s) \in Nat
  OBVIOUS

\* A single element.
LEMMA Single ==
    ASSUME NEW S, NEW s \in Seq(S), Len(s) = 1
    PROVE  s # <<>> /\ Tail(s) = <<>> /\ Head(s) = s[1] /\ s[1] \in S
<1>1. s # <<>>
  BY NoneLeft
<1>2. Tail(s) \in Seq(S) /\ Len(Tail(s)) = 0 /\ Head(s) = s[1] /\ s[1] \in S
  BY <1>1, Shorter
<1>3. QED  BY <1>1, <1>2, NoneLeft

\* What is read from the wire.
LEMMA Taken ==
    ASSUME NEW S, NEW b \in Seq(S), NEW w \in Seq(S), NEW n \in 1 .. Len(w)
    PROVE  LET r == b \o SubSeq(w, 1, n)
               q == SubSeq(w, n + 1, Len(w))
           IN  /\ r \in Seq(S) /\ q \in Seq(S)
               /\ Len(r) = Len(b) + n /\ Len(q) = Len(w) - n
               /\ \A i \in 1 .. Len(b) : r[i] = b[i]
               /\ \A i \in 1 .. n : r[Len(b) + i] = w[i]
               /\ \A i \in 1 .. Len(w) - n : q[i] = w[n + i]
               /\ q = <<>> <=> n = Len(w)
<1> DEFINE h == SubSeq(w, 1, n)
           q == SubSeq(w, n + 1, Len(w))
<1>1. h \in Seq(S) /\ Len(h) = n /\ \A i \in 1 .. n : h[i] = w[i]
  OBVIOUS
<1>2. q \in Seq(S) /\ Len(q) = Len(w) - n /\ \A i \in 1 .. Len(w) - n : q[i] = w[n + i]
  OBVIOUS
<1>3. q = <<>> <=> n = Len(w)
  <2>1. \A t \in Seq(S) : t = <<>> <=> Len(t) = 0
    OBVIOUS
  <2>2. \A m \in Nat : \A k \in 1 .. m : m - k = 0 <=> k = m
    OBVIOUS
  <2>3. Len(w) \in Nat
    OBVIOUS
  <2> HIDE DEF q
  <2>4. Len(w) - n = 0 <=> n = Len(w)
    BY <2>2, <2>3
  <2>5. QED  BY <1>2, <2>1, <2>4
<1> HIDE DEF h, q
<1>4. b \o h \in Seq(S) /\ Len(b \o h) = Len(b) + n
      /\ (\A i \in 1 .. Len(b) : (b \o h)[i] = b[i])
      /\ \A i \in 1 .. n : (b \o h)[Len(b) + i] = h[i]
  BY <1>1
<1>5. QED  BY <1>1, <1>2, <1>3, <1>4 DEF h, q

\* What arrives stays in its order.
LEMMA ArrivesAnswered ==
    ASSUME TypeOK, Answered, Arrives
    PROVE  /\ Answered'
           /\ UNCHANGED <<net.link, net.outbox, net.data, net.fin>>
           /\ net.wire # <<>>
<1> DEFINE b == net.buffer
           w == net.wire
<1>1. b \in Seq(Reply) /\ w \in Seq(Reply) /\ w # <<>>
  BY DEF TypeOK, Connections, Arrives
<1>2. PICK n \in {1, Len(w)} :
         net' = [net EXCEPT !.buffer = net.buffer \o SubSeq(net.wire, 1, n),
                            !.wire = SubSeq(net.wire, n + 1, Len(net.wire))]
  BY DEF Arrives
<1>3. n \in 1 .. Len(w)
  BY <1>1
<1>4. net'.buffer = b \o SubSeq(w, 1, n) /\ net'.wire = SubSeq(w, n + 1, Len(w))
      /\ UNCHANGED <<net.link, net.outbox, net.data, net.fin>>
  BY <1>2 DEF TypeOK, Connections
<1>5. UNCHANGED pi /\ UNCHANGED hist
  BY DEF Arrives
<1> HIDE DEF b, w
<1>6. /\ Len(net'.buffer) = Len(b) + n /\ Len(net'.wire) = Len(w) - n
      /\ \A i \in 1 .. Len(b) : net'.buffer[i] = b[i]
      /\ \A i \in 1 .. n : net'.buffer[Len(b) + i] = w[i]
      /\ \A i \in 1 .. Len(w) - n : net'.wire[i] = w[n + i]
      /\ net'.wire = <<>> <=> n = Len(w)
  BY <1>1, <1>3, <1>4, Taken
<1>7. Len(b) \in Nat /\ Len(w) \in Nat
  BY <1>1
<1>8. /\ \A i \in 1 .. Len(b) :
            /\ b[i].to = hist.sent
            /\ pi.state = "Waiting" => b[i].code \in CodesFor(pi.cmd)
            /\ b[i].code \in Interim
      /\ \A i \in 1 .. Len(w) :
            /\ w[i].to = hist.sent
            /\ pi.state = "Waiting" => w[i].code \in CodesFor(pi.cmd)
            /\ i < Len(w) => w[i].code \in Interim
  BY <1>1 DEF Answered, b, w
<1>9. ASSUME NEW i \in 1 .. Len(net'.buffer)
      PROVE  /\ net'.buffer[i].to = hist.sent
             /\ pi.state = "Waiting" => net'.buffer[i].code \in CodesFor(pi.cmd)
             /\ i < Len(net'.buffer) \/ net'.wire # <<>> => net'.buffer[i].code \in Interim
  <2>1. CASE i <= Len(b)
    <3>1. i \in 1 .. Len(b)
      BY <1>7, <2>1
    <3>2. QED  BY <1>6, <1>8, <3>1
  <2>2. CASE i > Len(b)
    <3> DEFINE k == i - Len(b)
    <3>1. k \in 1 .. n /\ i = Len(b) + k
      BY <1>3, <1>6, <1>7, <2>2
    <3>2. k \in 1 .. Len(w) /\ (i < Len(net'.buffer) => k < Len(w)) /\ (n # Len(w) => k < Len(w))
      BY <1>3, <1>6, <1>7, <3>1
    <3> HIDE DEF k
    <3>3. net'.buffer[i] = w[k]
      BY <1>6, <3>1
    <3>4. QED  BY <1>6, <1>8, <3>2, <3>3
  <2>3. QED  BY <1>7, <2>1, <2>2
<1>10. ASSUME NEW i \in 1 .. Len(net'.wire)
       PROVE  /\ net'.wire[i].to = hist.sent
              /\ pi.state = "Waiting" => net'.wire[i].code \in CodesFor(pi.cmd)
              /\ i < Len(net'.wire) => net'.wire[i].code \in Interim
  <2>1. i \in 1 .. Len(w) - n /\ n + i \in 1 .. Len(w) /\ (i < Len(net'.wire) => n + i < Len(w))
    BY <1>3, <1>6, <1>7
  <2>2. net'.wire[i] = w[n + i]
    BY <1>6, <2>1
  <2>3. QED  BY <1>8, <2>1, <2>2
<1>11. QED  BY <1>1, <1>4, <1>5, <1>9, <1>10 DEF Answered, b, w

\* The server greets once the connection is made.
LEMMA ConnectedAnswered ==
    ASSUME TypeOK, Greeted, Connected
    PROVE  /\ Answered'
           /\ UNCHANGED <<net.outbox, net.buffer, net.data, net.fin>>
           /\ net'.link = "open" /\ pi' = pi /\ pi.state = "Begin"
<1>1. pi.state = "Begin" /\ hist.sent = 0 /\ net.buffer = <<>>
  BY DEF Greeted, Connected, Silent
<1>2. PICK codes \in { <<220>>, <<120, 220>>, <<421>> } :
         net' = [net EXCEPT !.link = "open",
                            !.wire = [i \in DOMAIN codes |-> [code |-> codes[i], to |-> 0]],
                            !.quit = codes = <<421>>]
  BY DEF Connected
<1>3. pi' = [pi EXCEPT !.state = "Begin"] /\ UNCHANGED hist
  BY DEF Connected
<1>4. pi' = pi
  BY <1>1, <1>3 DEF TypeOK, Interpreter
<1> DEFINE w == [i \in DOMAIN codes |-> [code |-> codes[i], to |-> 0]]
<1>5. net'.wire = w /\ net'.link = "open"
      /\ UNCHANGED <<net.outbox, net.buffer, net.data, net.fin>>
  BY <1>2 DEF TypeOK, Connections
<1>6. codes \in Seq(Nat) /\ Len(codes) \in {1, 2} /\ (Len(codes) = 2 => codes[1] = 120)
  <2>1. CASE codes = <<220>>
    BY <2>1
  <2>2. CASE codes = <<120, 220>>
    BY <2>2
  <2>3. CASE codes = <<421>>
    BY <2>3
  <2>4. QED  BY <2>1, <2>2, <2>3
<1>7. Len(w) = Len(codes) /\ \A i \in 1 .. Len(codes) : w[i].code = codes[i] /\ w[i].to = 0
  BY <1>6
<1> HIDE DEF w
<1>8. /\ \A i \in 1 .. Len(w) : w[i].to = 0 /\ (i < Len(w) => w[i].code \in Interim)
  <2> SUFFICES ASSUME NEW i \in 1 .. Len(w)
               PROVE  w[i].to = 0 /\ (i < Len(w) => w[i].code \in Interim)
    OBVIOUS
  <2>1. w[i].to = 0 /\ w[i].code = codes[i]
    BY <1>7
  <2>2. i < Len(w) => i = 1 /\ Len(codes) = 2
    BY SMTT(30), <1>6, <1>7
  <2>3. QED  BY <1>6, <2>1, <2>2 DEF Interim
<1>9. Answered'
  BY <1>1, <1>3, <1>4, <1>5, <1>8 DEF Answered
<1>10. QED  BY <1>1, <1>4, <1>5, <1>9

\* The server answers the one raw command it was sent.
LEMMA ServeAnswered ==
    ASSUME TypeOK, Greeted, Talk, Progress, Serve
    PROVE  /\ Answered' /\ UNCHANGED <<ftp, pi, dtp, calls>>
           /\ pi.state = "Waiting" /\ net'.outbox = <<>> /\ net'.buffer = <<>>
           /\ net'.link = net.link /\ net.link = "open"
           /\ hist'.current = hist.current /\ hist'.sent = hist.sent
           /\ hist.dataError => hist'.dataError
           /\ \/ UNCHANGED <<net.data, net.fin>>
              \/ /\ pi.cmd \in {"LIST", "RETR"} /\ dtp.state = "connected"
                 /\ pi.cmd = "LIST" /\ Missing(net'.data) => hist'.dataError
<1> DEFINE O == [cmd : RawCommands, to : Nat]
<1>1. net.outbox # <<>> /\ net.outbox \in Seq(O) /\ net.link = "open"
  BY DEF Serve, TypeOK, Connections
<1>2. /\ Len(net.outbox) = 1 /\ net.wire = <<>> /\ net.buffer = <<>>
      /\ net.outbox[1].to = hist.sent /\ net.outbox[1].cmd = pi.cmd
  BY <1>1 DEF Talk
<1>3. Tail(net.outbox) = <<>> /\ Served = net.outbox[1] /\ Served \in O
  BY <1>1, <1>2, Single DEF Served
<1>4. Served.to = hist.sent /\ Served.cmd = pi.cmd /\ pi.cmd \in RawCommands
  BY <1>2, <1>3
<1>5. pi.state = "Waiting"
  BY <1>1 DEF Talk, Greeted, Silent, TypeOK, Interpreter
<1>6. ASSUME NEW code, code \in CodesFor(pi.cmd), net'.wire = Append(<<>>, Reply1(code)),
             net'.buffer = <<>>, UNCHANGED pi, hist'.sent = hist.sent
      PROVE  Answered'
  <2>1. Reply1(code).to = hist.sent /\ Reply1(code).code = code
    BY <1>4 DEF Reply1
  <2>2. Len(net'.wire) = 1 /\ net'.wire[1] = Reply1(code)
    BY <1>6
  <2>3. \A i : i \in 1 .. 1 <=> i = 1
    OBVIOUS
  <2>4. QED  BY <1>6, <2>1, <2>2, <2>3 DEF Answered
<1>7. UNCHANGED <<ftp, pi, dtp, calls>> /\ (ServerReplies \/ ServerRefuses \/ ServerTransfers)
  BY DEF Serve
<1>8. CASE ServerReplies
  <2>1. PICK code \in Answers(Served.cmd) :
           net' = [net EXCEPT !.outbox = Tail(net.outbox),
                              !.wire = Append(net.wire, Reply1(code)),
                              !.port = net.port \/ code \in {227, 229},
                              !.quit = net.quit \/ code = 221]
    BY <1>8 DEF ServerReplies
  <2>2. net'.outbox = <<>> /\ net'.wire = Append(<<>>, Reply1(code)) /\ net'.buffer = <<>>
        /\ net'.link = net.link /\ UNCHANGED <<net.data, net.fin>>
    BY <1>2, <1>3, <2>1 DEF TypeOK, Connections
  <2>3. UNCHANGED hist
    BY <1>8 DEF ServerReplies
  <2>4. code \in CodesFor(pi.cmd)
    BY <1>4, <2>1 DEF CodesFor, Answers
  <2>5. QED  BY <1>1, <1>5, <1>6, <1>7, <2>2, <2>3, <2>4
<1>9. CASE ServerRefuses
  <2>1. net' = [net EXCEPT !.outbox = Tail(net.outbox), !.wire = Append(net.wire, Reply1(425))]
        /\ UNCHANGED hist /\ Served.cmd \in {"LIST", "RETR"}
    BY <1>9 DEF ServerRefuses, Transfers
  <2>2. net'.outbox = <<>> /\ net'.wire = Append(<<>>, Reply1(425)) /\ net'.buffer = <<>>
        /\ net'.link = net.link /\ UNCHANGED <<net.data, net.fin>>
    BY <1>2, <1>3, <2>1 DEF TypeOK, Connections
  <2>3. 425 \in CodesFor(pi.cmd)
    BY <1>4, <2>1 DEF CodesFor
  <2>4. QED  BY <1>1, <1>5, <1>6, <1>7, <2>1, <2>2, <2>3
<1>10. CASE ServerTransfers
  <2>1. PICK lines \in Listings, code \in {226, 250, 426} :
          /\ IsListing(lines)
          /\ code = 250 => Served.cmd = "RETR"
          /\ lines = <<"missing">> => code # 426
          /\ net' = [net EXCEPT !.outbox = Tail(net.outbox),
                                !.wire = net.wire \o <<Reply1(150), Reply1(code)>>,
                                !.data = lines, !.fin = TRUE, !.port = FALSE]
          /\ hist' = [hist EXCEPT !.done = code # 426,
                                  !.owed = IF Served.cmd = "LIST" THEN Entries(lines)
                                      ELSE hist.owed,
                                  !.files = IF Served.cmd = "LIST" THEN RegularFiles(lines)
                                      ELSE hist.files,
                                  !.dataError = hist.dataError
                                      \/ (lines = <<"missing">> /\ Served.cmd = "LIST")]
    BY <1>10 DEF ServerTransfers
  <2>2. pi.cmd \in {"LIST", "RETR"} /\ dtp.state = "connected"
    BY <1>4, <1>10 DEF ServerTransfers, Transfers
  <2>3. net'.outbox = <<>> /\ net'.wire = <<>> \o <<Reply1(150), Reply1(code)>>
            /\ net'.buffer = <<>>
        /\ net'.link = net.link /\ net'.data = lines
    BY <1>2, <1>3, <2>1 DEF TypeOK, Connections
  <2>4. hist'.current = hist.current /\ hist'.sent = hist.sent
        /\ (hist'.dataError <=> hist.dataError \/ (lines = <<"missing">> /\ pi.cmd = "LIST"))
    <3> DEFINE d == code # 426
               o == IF Served.cmd = "LIST" THEN Entries(lines) ELSE hist.owed
               f == IF Served.cmd = "LIST" THEN RegularFiles(lines) ELSE hist.files
               e == hist.dataError \/ (lines = <<"missing">> /\ Served.cmd = "LIST")
    <3>1. hist' = [hist EXCEPT !.done = d, !.owed = o, !.files = f, !.dataError = e]
      BY <2>1
    <3> HIDE DEF d, o, f, e
    <3>2. hist'.current = hist.current /\ hist'.sent = hist.sent /\ hist'.dataError = e
      BY <3>1 DEF TypeOK, History
    <3>3. QED  BY Zenon, <1>4, <3>2 DEF e
  <2>5. Missing(lines) => lines = <<"missing">>
    <3> SUFFICES ASSUME NEW i \in 1 .. Len(lines), lines[i] = "missing" PROVE lines = <<"missing">>
      BY DEF Missing
    <3>1. lines \in Seq(Lines) /\ DOMAIN lines = 1 .. Len(lines)
      BY <2>1 DEF Listings
    <3>2. Len(lines) = 1
      BY <2>1, <3>1 DEF IsListing
    <3>3. i = 1
      BY <3>2
    <3>4. QED  BY <3>1, <3>2, <3>3
  <2>6. Answered'
    <3>1. Reply1(150).to = hist.sent /\ Reply1(150).code = 150
          /\ Reply1(code).to = hist.sent /\ Reply1(code).code = code
      BY <1>4 DEF Reply1
    <3>2. \A x, y : Len(<<>> \o <<x, y>>) = 2 /\ (<<>> \o <<x, y>>)[1] = x
              /\ (<<>> \o <<x, y>>)[2] = y
      OBVIOUS
    <3>3. Len(net'.wire) = 2 /\ net'.wire[1] = Reply1(150) /\ net'.wire[2] = Reply1(code)
      BY <2>3, <3>2
    <3>4. 150 \in CodesFor(pi.cmd) /\ code \in CodesFor(pi.cmd) /\ 150 \in Interim
      BY <1>4, <2>1, <2>2 DEF CodesFor, Interim
    <3>5. \A i : i \in 1 .. 2 <=> i = 1 \/ i = 2
      OBVIOUS
    <3>6. QED  BY <1>7, <2>3, <2>4, <3>1, <3>3, <3>4, <3>5 DEF Answered
  <2>7. QED  BY <1>1, <1>5, <1>7, <2>2, <2>3, <2>4, <2>5, <2>6
<1>11. QED  BY <1>7, <1>8, <1>9, <1>10

\* The third of three.
LEMMA TailTail ==
    ASSUME NEW S, NEW s \in Seq(S), Len(s) = 3
    PROVE  LET r == Tail(Tail(s))
           IN  r \in Seq(S) /\ Len(r) = 1 /\ r # <<>> /\ r[1] = s[3] /\ Head(r) = s[3]
<1> DEFINE t == Tail(s)
<1>1. s # <<>>
  <2>1. 3 # 0
    OBVIOUS
  <2>2. QED  BY Zenon, <2>1, NoneLeft
<1>2. t \in Seq(S) /\ Len(t) = 2 /\ t[2] = s[3]
  BY <1>1, Shorter
<1> HIDE DEF t
<1>3. t # <<>>
  BY <1>2, NoneLeft
<1>4. Tail(t) \in Seq(S) /\ Len(Tail(t)) = 1 /\ Tail(t)[1] = t[2]
  <2>1. Tail(t) \in Seq(S) /\ Len(Tail(t)) = Len(t) - 1
        /\ \A i \in 1 .. Len(t) - 1 : Tail(t)[i] = t[i + 1]
    BY <1>2, <1>3, Shorter
  <2>2. Len(t) - 1 = 1 /\ 1 \in 1 .. 1 /\ 1 + 1 = 2
    BY <1>2
  <2>3. QED  BY <2>1, <2>2
<1>5. Tail(t) # <<>> /\ Head(Tail(t)) = Tail(t)[1]
  BY <1>4, Single
<1>6. QED  BY <1>2, <1>4, <1>5 DEF t

\* A reply is held only where the socket is read.
LEMMA HeldStack ==
    ASSUME TypeOK, Framed, Replying, WaitsForEnd, HoldReply
    PROVE  /\ calls' \in Seq(Frame) /\ Len(calls') = 1 /\ calls'[1] = calls[3]
           /\ Fn(3) = "readLines"
           /\ \A x : OnStack(x)' <=> x = "readLines"
           /\ \A x : ~Below(x)' /\ ~Deep(x)'
           /\ \A x : Runs(x)' <=> x = "readLines"
           /\ Framed' /\ OneHolder' /\ OneCont' /\ Holding'
           /\ ~pi.toClose /\ ~OnStack("dtpSettled")
<1>1. Runs("processReply") /\ MustWait /\ calls' = Unprocessed
  BY DEF HoldReply
<1>2. calls \in Seq(Frame) /\ Len(calls) = 3
  BY <1>1 DEF TypeOK, Replying
<1>3. PICK f \in {"readLines", "dtpSettled"} : calls[3][1] = f /\ \A x : Below(x)
          <=> x \in {"replyDone", f}
  BY <1>1, <1>2, ReplyStack
<1>4. ~Quiet /\ Fn(1) = "processReply"
  <2>1. ~Quiet
    BY <1>1 DEF Runs
  <2>2. QED  BY <1>1, <1>2, <2>1, Args
<1>5. f = "readLines"
  <2>1. SUFFICES ASSUME f = "dtpSettled" PROVE FALSE
    OBVIOUS
  <2>2. 3 \in 1 .. Len(calls) /\ Fn(3) = "dtpSettled"
    BY <1>2, <1>3, <2>1 DEF Fn
  <2>3. OnStack("dtpSettled")
    BY <2>2 DEF OnStack
  <2>4. QED  BY <1>1, <2>3 DEF WaitsForEnd, Open, MustWait
<1>6. \A x : OnStack(x) <=> x \in {"processReply", "replyDone", "readLines"}
  <2>1. \A i : i \in 1 .. 3 <=> i = 1 \/ i \in 2 .. 3
    OBVIOUS
  <2>2. QED  BY <1>2, <1>3, <1>4, <1>5, <2>1 DEF OnStack, Below
<1>7. ~pi.toClose /\ ~OnStack("dtpSettled")
  BY <1>1, <1>6 DEF Replying
<1> DEFINE rest == Tail(Tail(calls))
<1>9. rest \in Seq(Frame) /\ Len(rest) = 1 /\ rest # <<>> /\ rest[1] = calls[3]
          /\ Head(rest) = calls[3]
  BY <1>2, TailTail
<1>10. calls' = rest
  <2> HIDE DEF rest
  <2>1. Head(rest)[1] # "dtpSettled"
    BY <1>3, <1>5, <1>9
  <2>2. QED  BY <1>1, <2>1 DEF Unprocessed, rest
<1> HIDE DEF rest
<1>11. calls' \in Seq(Frame) /\ Len(calls') = 1 /\ calls'[1] = calls[3]
           /\ calls'[1][1] = "readLines"
       /\ calls' # <<>> /\ Head(calls') = calls'[1]
  <2> HIDE DEF rest
  <2>1. QED  BY <1>3, <1>5, <1>9, <1>10
<1>12. /\ \A x : OnStack(x)' <=> x = "readLines"
       /\ \A x : ~Below(x)' /\ ~Deep(x)'
       /\ \A x : Runs(x)' <=> x = "readLines"
  BY <1>11 DEF OnStack, Below, Deep, Runs, Quiet, Fn
<1>13. Framed' /\ OneHolder' /\ OneCont' /\ Holding'
  BY <1>11 DEF Framed, OneHolder, OneCont, Nested, Holding, Holders, Conts, Fn, Under, Fits, Reading
<1>14. QED  BY <1>3, <1>5, <1>7, <1>11, <1>12, <1>13 DEF Fn

-----------------------------------------------------------------------------
(***************************************************************************)
(* Listings, and what is left to send.                                     *)
(***************************************************************************)

\* An empty listing says nothing of an error.
LEMMA NoneMissing ==
    ASSUME NEW s, s = <<>>
    PROVE  ~Missing(s)
  BY DEF Missing

\* Neither does a part of one that does not,
LEMMA TailMissing ==
    ASSUME NEW S, NEW s \in Seq(S), s # <<>>
    PROVE  /\ Missing(Tail(s)) => Missing(s)
           /\ Head(s) = "missing" => Missing(s)
<1>1. Head(s) = s[1] /\ Len(s) \in Nat /\ Len(s) >= 1 /\ Len(Tail(s)) = Len(s) - 1
      /\ \A i \in 1 .. Len(s) - 1 : Tail(s)[i] = s[i + 1]
  OBVIOUS
<1>2. ASSUME NEW i \in 1 .. Len(Tail(s)), Tail(s)[i] = "missing"
      PROVE  \E j \in 1 .. Len(s) : s[j] = "missing"
  <2>1. i + 1 \in 1 .. Len(s) /\ s[i + 1] = "missing"
    BY <1>1, <1>2
  <2>2. QED  BY <2>1
<1>3. 1 \in 1 .. Len(s)
  BY <1>1
<1>4. QED  BY <1>1, <1>2, <1>3 DEF Missing

\* nor two of them together.
LEMMA JoinMissing ==
    ASSUME NEW S, NEW s \in Seq(S), NEW t \in Seq(S), Missing(s \o t)
    PROVE  Missing(s) \/ Missing(t)
<1>1. /\ Len(s) \in Nat /\ Len(t) \in Nat /\ Len(s \o t) = Len(s) + Len(t)
      /\ \A i \in 1 .. Len(s) : (s \o t)[i] = s[i]
      /\ \A i \in Len(s) + 1 .. Len(s) + Len(t) : (s \o t)[i] = t[i - Len(s)]
  OBVIOUS
<1>2. PICK i \in 1 .. Len(s \o t) : (s \o t)[i] = "missing"
  BY DEF Missing
<1>3. CASE i \in 1 .. Len(s)
  BY <1>1, <1>2, <1>3 DEF Missing
<1>4. CASE i \notin 1 .. Len(s)
  <2>1. i \in Len(s) + 1 .. Len(s) + Len(t) /\ i - Len(s) \in 1 .. Len(t)
    BY <1>1, <1>2, <1>4
  <2>2. QED  BY <1>1, <1>2, <2>1 DEF Missing
<1>5. QED  BY <1>3, <1>4

\* Every command but Connect sends something.
LEMMA RawNext ==
    ASSUME NEW c \in AllCommands, c # "Connect"
    PROVE  Raw(c) # <<>> /\ Raw(c) \in Rest("none")
<1>1. c \in {"Login", "List", "Get", "Cd", "Rename", "Close"}
  BY DEF AllCommands
<1>2. Raw(c) \in {Raw(x) : x \in AllCommands}
  OBVIOUS
<1>3. QED  BY <1>1, <1>2, Firsts DEF Raw, Rest

\* Nothing is left to send.
LEMMA NothingLeft == <<>> \in Rest("none") /\ <<>> \notin ToTransfer /\ "none" \notin RawCommands
  BY Firsts DEF Rest, ToTransfer, RawCommands

\* A sequence of one element at most.
LEMMA AddedOne ==
    ASSUME NEW e, NEW s, s = Append(<<>>, e)
    PROVE  s # <<>> /\ Len(s) = 1 /\ s[1] = e
<1>1. <<>> \in Seq({e}) /\ e \in {e}
  OBVIOUS
<1>2. QED  BY <1>1

\* And of one.
LEMMA KeptOne ==
    ASSUME NEW e, NEW s, s = <<e>>
    PROVE  s # <<>> /\ Head(s) = e /\ \A i \in 2 .. Len(s) : FALSE
<1>1. e \in {e}
  OBVIOUS
<1>2. s \in Seq({e}) /\ Len(s) = 1 /\ s[1] = e
  BY <1>1
<1>3. QED  BY <1>2

\* A pair.
LEMMA Pair ==
    ASSUME NEW S, NEW a \in S, NEW b \in S
    PROVE  <<a>> \o <<b>> = <<a, b>>
<1>1. /\ <<a>> \o <<b>> \in Seq(S) /\ Len(<<a>> \o <<b>>) = 2
      /\ (<<a>> \o <<b>>)[1] = a /\ (<<a>> \o <<b>>)[2] = b
  OBVIOUS
<1>2. <<a, b>> \in Seq(S) /\ Len(<<a, b>>) = 2 /\ <<a, b>>[1] = a /\ <<a, b>>[2] = b
  OBVIOUS
<1>3. \A i : i \in 1 .. 2 <=> i = 1 \/ i = 2
  OBVIOUS
<1>4. QED  BY <1>1, <1>2, <1>3, SeqEqual

\* EPSV was refused.
LEMMA PasvAgain ==
    \A t \in ToTransfer : <<"PASV">> \o t \in {<<"PASV", "LIST">>, <<"PASV", "RETR">>}
<1>1. "PASV" \in RawCommands /\ "LIST" \in RawCommands /\ "RETR" \in RawCommands
  BY DEF RawCommands
<1>2. <<"PASV">> \o <<"LIST">> = <<"PASV", "LIST">>
  BY <1>1, Pair
<1>3. <<"PASV">> \o <<"RETR">> = <<"PASV", "RETR">>
  BY <1>1, Pair
<1>4. QED  BY <1>2, <1>3 DEF ToTransfer

\* A login that needs no password does not send it.
LEMMA RestLoggedIn ==
    ASSUME pi.cmd \in {"USER", "PASS"}, pi.todo \in Rest(pi.cmd), NEW t,
           t = IF pi.cmd = "USER" /\ pi.todo # <<>> /\ Head(pi.todo) = "PASS"
               THEN Tail(pi.todo) ELSE pi.todo
    PROVE  t \in Rest(pi.cmd) /\ (pi.todo = <<>> => t = <<>>)
<1>1. CASE pi.cmd = "PASS"
  BY <1>1
<1>2. CASE pi.cmd = "USER"
  <2>1. pi.todo = <<"PASS">> \/ pi.todo = <<>>
    BY <1>2 DEF Rest
  <2>2. <<>> \in Rest("USER")
    BY DEF Rest
  <2>3. t = <<>>
    BY <1>2, <2>1, Firsts
  <2>4. QED  BY <1>2, <2>2, <2>3
<1>3. QED  BY <1>1, <1>2

\* The first of a sequence, and whether it is the last.
LEMMA LastTaken ==
    ASSUME NEW S, NEW s \in Seq(S), s # <<>>
    PROVE  1 \in 1 .. Len(s) /\ (Tail(s) # <<>> => 1 < Len(s))
<1>1. Len(s) \in Nat /\ Len(s) >= 1 /\ Tail(s) \in Seq(S) /\ Len(Tail(s)) = Len(s) - 1
  OBVIOUS
<1>2. Tail(s) # <<>> => Len(Tail(s)) # 0
  BY <1>1, NoneLeft
<1>3. \A n \in Nat : n >= 1 => 1 \in 1 .. n /\ (n - 1 # 0 => 1 < n)
  OBVIOUS
<1>4. QED  BY <1>1, <1>2, <1>3

\* Nothing is held if nothing that holds runs.
LEMMA NoHolder ==
    ASSUME \A f \in Holders : ~OnStack(f)'
    PROVE  Holding'
  BY DEF Holding, OnStack

\* The state a reply leads to.
LEMMA StateAfter ==
    ASSUME NEW cmd \in RawCommands, NEW c \in CodesFor(cmd)
    PROVE  /\ StateFor(c) \in {"Waiting", "Success", "Idle", "Failure"}
           /\ StateFor(c) = "Waiting" <=> c = 150
           /\ c \in {331, 350} => StateFor(c) = "Idle"
           /\ c \in {226, 227, 229, 230} => StateFor(c) = "Success"
           /\ c \in {425, 426, 500, 530, 550} => StateFor(c) = "Failure"
           /\ c \notin Interim <=> c # 150
<1>1. c \in {150, 200, 202, 213, 221, 226, 227, 229, 230, 250, 331, 350, 425, 426, 500,
             530, 550}
  BY CodeTells
<1>2. QED  BY <1>1, StateTable DEF Interim
\* The number of the lines of a kind: none of an empty listing,
LEMMA CountedNone == Entries(<<>>) = 0 /\ RegularFiles(<<>>) = 0
<1>1. \A S : {i \in DOMAIN <<>> : i \in S} = {}
  OBVIOUS
<1>2. {i \in DOMAIN <<>> : Parsed(<<>>[i])} = {} /\ {i \in DOMAIN <<>> : Regular(<<>>[i])} = {}
  OBVIOUS
<1>3. QED  BY <1>2, FS_EmptySet DEF Entries, RegularFiles

\* and of any other the first, if it is of the kind, and those of the rest.
LEMMA CountedOf ==
    ASSUME NEW S, NEW s \in Seq(S), s # <<>>, NEW K
    PROVE  Cardinality({i \in DOMAIN s : s[i] \in K})
              = Cardinality({i \in DOMAIN Tail(s) : Tail(s)[i] \in K})
                   + (IF Head(s) \in K THEN 1 ELSE 0)
<1> DEFINE A == {i \in DOMAIN s : s[i] \in K}
           B == {i \in DOMAIN Tail(s) : Tail(s)[i] \in K}
           f == [i \in A \ {1} |-> i - 1]
<1>1. /\ DOMAIN s = 1 .. Len(s) /\ Len(s) \in Nat /\ Len(s) >= 1 /\ Head(s) = s[1]
      /\ DOMAIN Tail(s) = 1 .. Len(s) - 1
      /\ \A i \in 1 .. Len(s) - 1 : Tail(s)[i] = s[i + 1]
  OBVIOUS
<1>2. IsFiniteSet(A)
  <2>1. IsFiniteSet(DOMAIN s)
    BY <1>1, FS_Interval
  <2>2. QED  BY <2>1, FS_Subset
<1>3. IsFiniteSet(A \ {1}) /\ Cardinality(A) \in Nat
      /\ Cardinality(A \ {1}) = IF 1 \in A THEN Cardinality(A) - 1 ELSE Cardinality(A)
  BY <1>2, FS_RemoveElement, FS_CardinalityType
<1>4. 1 \in A <=> Head(s) \in K
  BY <1>1
<1>5. \A i \in A \ {1} : i \in Int /\ i - 1 \in B
  BY <1>1
<1>6. \A j \in B : j \in Int /\ j + 1 \in A \ {1} /\ j + 1 - 1 = j
  BY <1>1
<1>7. f \in Bijection(A \ {1}, B)
  <2>1. f \in [A \ {1} -> B]
    BY <1>5
  <2>2. \A i, j \in A \ {1} : f[i] = f[j] => i = j
    BY <1>5
  <2>3. \A j \in B : \E i \in A \ {1} : f[i] = j
    BY <1>6
  <2> HIDE DEF A, B, f
  <2>4. f \in Injection(A \ {1}, B)
    BY <2>1, <2>2 DEF Injection, IsInjective
  <2>5. f \in Surjection(A \ {1}, B)
    BY <2>1, <2>3 DEF Surjection
  <2>6. QED  BY <2>4, <2>5 DEF Bijection
<1>8. Cardinality(B) = Cardinality(A \ {1})
  <2> HIDE DEF A, B, f
  <2>1. QED  BY <1>3, <1>7, FS_Bijection DEF ExistsBijection
<1> HIDE DEF A, B, f
<1>9. Cardinality(A) = Cardinality(B) + (IF Head(s) \in K THEN 1 ELSE 0)
  BY <1>3, <1>4, <1>8
<1>10. QED  BY <1>9 DEF A, B

\* So it is with the entries of a listing, and with its files.
LEMMA CountedFirst ==
    ASSUME NEW s \in Seq(Lines), s # <<>>
    PROVE  /\ Entries(s) = Entries(Tail(s)) + (IF Parsed(Head(s)) THEN 1 ELSE 0)
           /\ RegularFiles(s) = RegularFiles(Tail(s)) + (IF Regular(Head(s)) THEN 1 ELSE 0)
           /\ Entries(Tail(s)) \in Nat /\ RegularFiles(Tail(s)) \in Nat
<1>1. \A l : /\ Parsed(l) <=> l \in UnixLines \cup DosLines
             /\ Regular(l) <=> l \in {"unixFile", "dosFile", "dosShortcut"}
  BY DEF Parsed, Regular
<1>2. \A t : /\ Entries(t) = Cardinality({i \in DOMAIN t : t[i] \in UnixLines \cup DosLines})
             /\ RegularFiles(t)
                  = Cardinality({i \in DOMAIN t : t[i] \in {"unixFile", "dosFile", "dosShortcut"}})
  BY Zenon DEF Entries, RegularFiles, Parsed, Regular
<1>3. Tail(s) \in Seq(Lines)
  OBVIOUS
<1>4. QED  BY <1>1, <1>2, <1>3, Counted, CountedOf

\* What listInfo() is told is a file is one.
LEMMA FilesTold ==
    ASSUME NEW l
    PROVE  /\ Parsed(l) => (ParseDir(l).file <=> Regular(l))
           /\ Regular(l) => Parsed(l)
  BY DEF Parsed, ParseDir, UnixDir, DosDir, UnixLines, DosLines, Regular

\* The slots change of a listing only what of its files is not yet shown.
LEMMA SlotsCount ==
    ASSUME TypeOK, CommandFinishedSlot \/ CommandFailedSlot \/ ListInfoSlot \/ ClientCloses
    PROVE  /\ hist'.owed = hist.owed /\ hist'.done = hist.done
           /\ hist'.files = IF Runs("listInfo") /\ Arg.file THEN hist.files - 1 ELSE hist.files
<1> DEFINE counted == [hist EXCEPT !.files = IF Arg.file THEN hist.files - 1 ELSE hist.files]
<1>1. counted \in History /\ counted.owed = hist.owed /\ counted.done = hist.done
      /\ counted.files = IF Arg.file THEN hist.files - 1 ELSE hist.files
  BY DEF TypeOK, History
<1>2. ASSUME NEW h \in History, NEW c, AddCommandTo(h, c)
      PROVE  hist'.owed = h.owed /\ hist'.done = h.done /\ hist'.files = h.files
  BY <1>2 DEF AddCommandTo, History
<1>3. CASE ListInfoSlot
  <2>1. Runs("listInfo") /\ ((\E c \in Commands : AddCommandTo(counted, c)) \/ hist' = counted)
    BY <1>3 DEF ListInfoSlot
  <2> HIDE DEF counted
  <2>2. hist'.owed = counted.owed /\ hist'.done = counted.done /\ hist'.files = counted.files
    BY <1>1, <1>2, <2>1
  <2>3. QED  BY <1>1, <2>1, <2>2
<1>4. CASE CommandFinishedSlot \/ CommandFailedSlot \/ ClientCloses
  <2>1. ~Runs("listInfo") /\ ((\E c \in AllCommands : AddCommandTo(hist, c)) \/ UNCHANGED hist)
    BY <1>4, CommandsKnown
       DEF CommandFinishedSlot, CommandFailedSlot, ClientCloses, Schedules, AddCommand, Runs
  <2>2. QED  BY <1>2, <2>1 DEF TypeOK
<1>5. QED  BY <1>3, <1>4

\* What the server sends of a listing.
LEMMA ServeLists ==
    ASSUME TypeOK, Greeted, Talk, Serve, pi.cmd = "LIST"
    PROVE  \/ /\ UNCHANGED <<hist, net.data>>
              /\ \A i \in 1 .. Len(net'.wire) : net'.wire[i].code # 226
           \/ /\ dtp.state = "connected"
              /\ hist'.owed = Entries(net'.data) /\ hist'.files = RegularFiles(net'.data)
              /\ ~hist'.done => \A i \in 1 .. Len(net'.wire) : net'.wire[i].code # 226
<1> DEFINE O == [cmd : RawCommands, to : Nat]
<1>1. net.outbox # <<>> /\ net.outbox \in Seq(O)
  BY DEF Serve, TypeOK, Connections
<1>2. Len(net.outbox) = 1 /\ net.wire = <<>> /\ net.outbox[1].cmd = "LIST"
  BY <1>1 DEF Talk
<1>3. Served = net.outbox[1] /\ Served.cmd = "LIST"
  BY <1>1, <1>2, Single DEF Served
<1>4. \A c : Reply1(c).code = c
  BY DEF Reply1
<1>5. \A i : (i \in 1 .. 1 <=> i = 1) /\ (i \in 1 .. 2 <=> i = 1 \/ i = 2)
  OBVIOUS
<1>6. CASE ServerReplies \/ ServerRefuses
  <2>1. \E code \in {425, 550} : net'.wire = Append(net.wire, Reply1(code)) /\ net'.data = net.data
    <3>1. CASE ServerReplies
      <4>1. Answers("LIST") = {550}
        BY DEF Answers
      <4>2. PICK code \in Answers(Served.cmd) :
               net' = [net EXCEPT !.outbox = Tail(net.outbox),
                                  !.wire = Append(net.wire, Reply1(code)),
                                  !.port = net.port \/ code \in {227, 229},
                                  !.quit = net.quit \/ code = 221]
        BY <3>1 DEF ServerReplies
      <4>3. net'.wire = Append(net.wire, Reply1(code)) /\ net'.data = net.data
        BY <4>2 DEF TypeOK, Connections
      <4>4. code = 550
        BY <1>3, <4>1
      <4>5. QED  BY <4>3, <4>4
    <3>2. CASE ServerRefuses
      <4>1. net'.wire = Append(net.wire, Reply1(425)) /\ net'.data = net.data
        BY <3>2 DEF ServerRefuses, TypeOK, Connections
      <4>2. QED  BY <4>1
    <3>3. QED  BY <1>6, <3>1, <3>2
  <2>2. UNCHANGED hist
    BY <1>6 DEF ServerReplies, ServerRefuses
  <2>3. \A x : Len(Append(<<>>, x)) = 1 /\ Append(<<>>, x)[1] = x
    OBVIOUS
  <2>4. \E code \in {425, 550} : Len(net'.wire) = 1 /\ net'.wire[1] = Reply1(code)
    BY <1>2, <2>1, <2>3
  <2>5. QED  BY <1>4, <1>5, <2>1, <2>2, <2>4
<1>7. CASE ServerTransfers
  <2>1. PICK lines \in Listings, code \in {226, 250, 426} :
          /\ IsListing(lines)
          /\ code = 250 => Served.cmd = "RETR"
          /\ lines = <<"missing">> => code # 426
          /\ net' = [net EXCEPT !.outbox = Tail(net.outbox),
                                !.wire = net.wire \o <<Reply1(150), Reply1(code)>>,
                                !.data = lines, !.fin = TRUE, !.port = FALSE]
          /\ hist' = [hist EXCEPT !.done = code # 426,
                                  !.owed = IF Served.cmd = "LIST" THEN Entries(lines)
                                      ELSE hist.owed,
                                  !.files = IF Served.cmd = "LIST" THEN RegularFiles(lines)
                                      ELSE hist.files,
                                  !.dataError = hist.dataError
                                      \/ (lines = <<"missing">> /\ Served.cmd = "LIST")]
    BY Zenon, <1>7 DEF ServerTransfers
  <2> DEFINE e == hist.dataError \/ (lines = <<"missing">> /\ Served.cmd = "LIST")
  <2>2. hist' = [hist EXCEPT !.done = code # 426, !.owed = Entries(lines),
                             !.files = RegularFiles(lines), !.dataError = e]
    BY Zenon, <1>3, <2>1
  <2> HIDE DEF e
  <2>3. hist'.owed = Entries(lines) /\ hist'.files = RegularFiles(lines)
        /\ (hist'.done <=> code # 426)
    BY <2>2 DEF TypeOK, History
  <2>4. net'.data = lines /\ net'.wire = <<>> \o <<Reply1(150), Reply1(code)>>
    BY <1>2, <2>1 DEF TypeOK, Connections
  <2>5. \A x, y : Len(<<>> \o <<x, y>>) = 2 /\ (<<>> \o <<x, y>>)[1] = x
            /\ (<<>> \o <<x, y>>)[2] = y
    OBVIOUS
  <2>6. Len(net'.wire) = 2 /\ net'.wire[1] = Reply1(150) /\ net'.wire[2] = Reply1(code)
    BY <2>4, <2>5
  <2>7. dtp.state = "connected"
    BY <1>7 DEF ServerTransfers
  <2>8. ~hist'.done => \A i \in 1 .. Len(net'.wire) : net'.wire[i].code # 226
    BY <1>4, <1>5, <2>3, <2>6
  <2>9. QED  BY <2>3, <2>4, <2>7, <2>8
<1>8. QED  BY <1>6, <1>7 DEF Serve

\* Nothing but a transfer changes what is known of a listing.
LEMMA ServeKeeps ==
    ASSUME TypeOK, Talk, Serve, pi.cmd \notin {"LIST", "RETR"}
    PROVE  UNCHANGED hist
<1>1. net.outbox # <<>> /\ net.outbox \in Seq([cmd : RawCommands, to : Nat])
  BY DEF Serve, TypeOK, Connections
<1>2. Served.cmd = pi.cmd
  BY <1>1, Single DEF Served, Talk
<1>3. QED  BY <1>2 DEF Serve, ServerReplies, ServerRefuses, ServerTransfers, Transfers

\* What arrives says no more than what was on the wire.
LEMMA ArrivesVouched ==
    ASSUME TypeOK, Arrives,
           \A i \in 1 .. Len(net.buffer) : net.buffer[i].code # 226,
           \A i \in 1 .. Len(net.wire) : net.wire[i].code # 226
    PROVE  /\ \A i \in 1 .. Len(net'.buffer) : net'.buffer[i].code # 226
           /\ \A i \in 1 .. Len(net'.wire) : net'.wire[i].code # 226
<1> DEFINE b == net.buffer
           w == net.wire
<1>1. b \in Seq(Reply) /\ w \in Seq(Reply) /\ w # <<>>
  BY DEF TypeOK, Connections, Arrives
<1>2. PICK n \in {1, Len(w)} :
         net' = [net EXCEPT !.buffer = net.buffer \o SubSeq(net.wire, 1, n),
                            !.wire = SubSeq(net.wire, n + 1, Len(net.wire))]
  BY DEF Arrives
<1>3. n \in 1 .. Len(w)
  BY <1>1
<1>4. net'.buffer = b \o SubSeq(w, 1, n) /\ net'.wire = SubSeq(w, n + 1, Len(w))
  BY <1>2 DEF TypeOK, Connections
<1>5. /\ \A i \in 1 .. Len(b) : b[i].code # 226
      /\ \A i \in 1 .. Len(w) : w[i].code # 226
  OBVIOUS
<1> HIDE DEF b, w
<1>6. /\ Len(net'.buffer) = Len(b) + n /\ Len(net'.wire) = Len(w) - n
      /\ \A i \in 1 .. Len(b) : net'.buffer[i] = b[i]
      /\ \A i \in 1 .. n : net'.buffer[Len(b) + i] = w[i]
      /\ \A i \in 1 .. Len(w) - n : net'.wire[i] = w[n + i]
  BY <1>1, <1>3, <1>4, Taken
<1>7. Len(b) \in Nat /\ Len(w) \in Nat
  BY <1>1
<1>8. ASSUME NEW i \in 1 .. Len(net'.buffer) PROVE net'.buffer[i].code # 226
  <2>1. CASE i <= Len(b)
    <3>1. i \in 1 .. Len(b)
      BY <1>7, <2>1
    <3>2. QED  BY SMTT(30), <1>5, <1>6, <3>1
  <2>2. CASE i > Len(b)
    <3> DEFINE k == i - Len(b)
    <3>1. k \in 1 .. n /\ k \in 1 .. Len(w) /\ i = Len(b) + k
      BY <1>3, <1>6, <1>7, <2>2
    <3> HIDE DEF k
    <3>2. QED  BY <1>5, <1>6, <3>1
  <2>3. QED  BY <1>7, <2>1, <2>2
<1>9. ASSUME NEW i \in 1 .. Len(net'.wire) PROVE net'.wire[i].code # 226
  <2>1. i \in 1 .. Len(w) - n /\ n + i \in 1 .. Len(w)
    BY <1>3, <1>6, <1>7
  <2>2. QED  BY SMTT(30), <1>5, <1>6, <2>1
<1>10. QED  BY <1>8, <1>9

\* What is left of a listing goes on to the LIST, also when EPSV was refused.
LEMMA SuitsNext ==
    ASSUME NEW t \in {<<>>, Raw("List"), <<"PASV", "LIST">>, <<"LIST">>}
    PROVE  /\ t \in ToTransfer => <<"PASV">> \o t = <<"PASV", "LIST">>
           /\ t # <<>> => /\ Tail(t) \in {<<>>, <<"PASV", "LIST">>, <<"LIST">>}
                          /\ Head(t) \in {"TYPE", "PASV", "LIST"}
<1>1. \A x, y : /\ (<<x>> = <<y>> => x = y)
                /\ <<>> # <<y>>
  OBVIOUS
<1>2. \A x, y, z : <<x, y>> # <<z>>
  OBVIOUS
<1>3. \A u, v, x, y : <<u, v, x>> # <<y>>
  OBVIOUS
<1>4. Raw("List") = <<"TYPE", "PASV", "LIST">>
  BY DEF Raw
<1>5. t \in ToTransfer => t = <<"LIST">>
  BY <1>1, <1>2, <1>3, <1>4 DEF ToTransfer
<1>6. "PASV" \in RawCommands /\ "LIST" \in RawCommands
  BY DEF RawCommands
<1>7. <<"PASV">> \o <<"LIST">> = <<"PASV", "LIST">>
  BY <1>6, Pair
<1>8. t # <<>> => /\ Tail(t) \in {<<>>, <<"PASV", "LIST">>, <<"LIST">>}
                  /\ Head(t) \in {"TYPE", "PASV", "LIST"}
  <2>1. CASE t = <<"TYPE", "PASV", "LIST">>
    BY <2>1, Firsts
  <2>2. CASE t = <<"PASV", "LIST">>
    BY <2>2, Firsts
  <2>3. CASE t = <<"LIST">>
    BY <2>3, Firsts
  <2>4. QED  BY <1>4, <2>1, <2>2, <2>3
<1>9. QED  BY <1>5, <1>7, <1>8

\* Before the LIST there is something left of a listing, after it there is not.
LEMMA RestOfListing == <<>> \notin Rest("TYPE") \cup Rest("PASV") \cup Rest("EPSV")
                       /\ Rest("LIST") = {<<>>}
  BY Firsts DEF Rest


==============================================================================
