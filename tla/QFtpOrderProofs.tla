--------------------------- MODULE QFtpOrderProofs ---------------------------
(***************************************************************************)
(* The safety properties of QFtp, for any number of commands and any       *)
(* listings, and that its queue implements CommandQueue.  They need no     *)
(* fairness.  The inductive invariant is Inv, at the end of this module:   *)
(* the types and, until the first overrun, the order of QFtpProofs and     *)
(* what it says of a listing.                                              *)
(***************************************************************************)
EXTENDS QFtpProofs

-----------------------------------------------------------------------------
(***************************************************************************)
(* The queue as CommandQueue sees it, and the initial state.               *)
(***************************************************************************)

\* The identifiers of a queue.
Ids(p) == [i \in DOMAIN p |-> p[i].id]

\* The identifiers of a queue whose first goes, or that grows.
LEMMA IdsMapped ==
    ASSUME NEW T, NEW p \in Seq(T)
    PROVE  /\ \A e \in T : Ids(Append(p, e)) = Append(Ids(p), e.id)
           /\ p # <<>> => /\ Ids(p) # <<>> /\ Head(Ids(p)) = Head(p).id
                          /\ Ids(Tail(p)) = Tail(Ids(p))
                          /\ Ids(<<Head(p)>>) = <<Head(p).id>>
<1> DEFINE I == {t.id : t \in T}
<1>1. \A s \in Seq(T) : /\ Ids(s) \in Seq(I) /\ Len(Ids(s)) = Len(s)
                        /\ \A i \in 1 .. Len(s) : Ids(s)[i] = s[i].id
  BY DEF Ids
<1>2. ASSUME NEW e \in T PROVE Ids(Append(p, e)) = Append(Ids(p), e.id)
  <2>1. Append(p, e) \in Seq(T) /\ Len(Append(p, e)) = Len(p) + 1
        /\ Append(p, e)[Len(p) + 1] = e /\ \A i \in 1 .. Len(p) : Append(p, e)[i] = p[i]
    OBVIOUS
  <2>2. \A q \in Seq(I), x \in I :
           /\ Append(q, x) \in Seq(I) /\ Len(Append(q, x)) = Len(q) + 1
           /\ Append(q, x)[Len(q) + 1] = x /\ \A i \in 1 .. Len(q) : Append(q, x)[i] = q[i]
    OBVIOUS
  <2>3. \A q, r \in Seq(I) :
           Len(q) = Len(r) /\ (\A i \in 1 .. Len(q) : q[i] = r[i]) => q = r
    OBVIOUS
  <2>4. Len(p) \in Nat /\ e.id \in I
    OBVIOUS
  <2> HIDE DEF I
  <2>5. Ids(Append(p, e)) \in Seq(I) /\ Append(Ids(p), e.id) \in Seq(I)
        /\ Len(Ids(Append(p, e))) = Len(p) + 1 /\ Len(Append(Ids(p), e.id)) = Len(p) + 1
    <3>1. Ids(p) \in Seq(I) /\ Len(Ids(p)) = Len(p)
      BY <1>1
    <3>2. Append(Ids(p), e.id) \in Seq(I) /\ Len(Append(Ids(p), e.id)) = Len(Ids(p)) + 1
      BY Zenon, <2>2, <2>4, <3>1
    <3>3. Ids(Append(p, e)) \in Seq(I) /\ Len(Ids(Append(p, e))) = Len(p) + 1
      BY Zenon, <1>1, <2>1
    <3>4. QED  BY Zenon, <3>1, <3>2, <3>3
  <2>6. ASSUME NEW i \in 1 .. Len(p) + 1
        PROVE  Ids(Append(p, e))[i] = Append(Ids(p), e.id)[i]
    <3>1. Ids(Append(p, e))[i] = Append(p, e)[i].id
      BY <1>1, <2>1
    <3>2. \A q \in Seq(I), x \in I, n \in Nat :
             Len(q) = n => /\ Append(q, x)[n + 1] = x
                           /\ \A j \in 1 .. n : Append(q, x)[j] = q[j]
      BY <2>2
    <3>3. /\ Append(Ids(p), e.id)[Len(p) + 1] = e.id
          /\ \A j \in 1 .. Len(p) : Append(Ids(p), e.id)[j] = Ids(p)[j]
      <4>1. Ids(p) \in Seq(I) /\ Len(Ids(p)) = Len(p)
        BY <1>1
      <4>2. QED  BY Zenon, <2>4, <3>2, <4>1
    <3>4. CASE i = Len(p) + 1
      <4>1. Append(p, e)[i] = e
        BY Zenon, <2>1, <3>4
      <4>2. Append(Ids(p), e.id)[i] = e.id
        BY Zenon, <3>3, <3>4
      <4>3. QED  BY Zenon, <3>1, <4>1, <4>2
    <3>5. CASE i \in 1 .. Len(p)
      BY <1>1, <2>1, <3>1, <3>3, <3>5
    <3>6. \A n \in Nat : \A j \in 1 .. n + 1 : j = n + 1 \/ j \in 1 .. n
      OBVIOUS
    <3>7. QED  BY Zenon, <2>4, <3>4, <3>5, <3>6
  <2>7. QED  BY <2>3, <2>5, <2>6
<1>3. ASSUME p # <<>>
      PROVE  /\ Ids(p) # <<>> /\ Head(Ids(p)) = Head(p).id
             /\ Ids(Tail(p)) = Tail(Ids(p))
             /\ Ids(<<Head(p)>>) = <<Head(p).id>>
  <2>1. Len(p) \in Nat \ {0} /\ Head(p) = p[1] /\ Head(p) \in T
    BY <1>3
  <2>2. Tail(p) \in Seq(T) /\ Len(Tail(p)) = Len(p) - 1
        /\ \A i \in 1 .. Len(p) - 1 : Tail(p)[i] = p[i + 1]
    BY <1>3
  <2>3. \A q \in Seq(I) : Len(q) > 0 =>
           /\ q # <<>> /\ Head(q) = q[1]
           /\ Tail(q) \in Seq(I) /\ Len(Tail(q)) = Len(q) - 1
           /\ \A i \in 1 .. Len(q) - 1 : Tail(q)[i] = q[i + 1]
    OBVIOUS
  <2>4. \A q, r \in Seq(I) :
           Len(q) = Len(r) /\ (\A i \in 1 .. Len(q) : q[i] = r[i]) => q = r
    OBVIOUS
  <2>5. Ids(<<Head(p)>>) = <<Head(p).id>>
    BY <2>1 DEF Ids
  <2> HIDE DEF I
  <2>6. Ids(p) \in Seq(I) /\ Len(Ids(p)) = Len(p) /\ \A i \in 1 .. Len(p) : Ids(p)[i] = p[i].id
    BY <1>1
  <2>7. Ids(p) # <<>> /\ Head(Ids(p)) = Head(p).id
    BY <2>1, <2>3, <2>6
  <2>8. Ids(Tail(p)) \in Seq(I) /\ Len(Ids(Tail(p))) = Len(p) - 1
        /\ \A i \in 1 .. Len(p) - 1 : Ids(Tail(p))[i] = p[i + 1].id
    <3>1. Ids(Tail(p)) \in Seq(I) /\ Len(Ids(Tail(p))) = Len(Tail(p))
          /\ \A i \in 1 .. Len(Tail(p)) : Ids(Tail(p))[i] = Tail(p)[i].id
      BY Zenon, <1>1, <2>2
    <3>2. \A i \in 1 .. Len(p) - 1 : Ids(Tail(p))[i] = Tail(p)[i].id
      BY Zenon, <2>2, <3>1
    <3>3. \A i \in 1 .. Len(p) - 1 : Ids(Tail(p))[i] = p[i + 1].id
      BY Zenon, <2>2, <3>2
    <3>4. QED  BY Zenon, <2>2, <3>1, <3>3
  <2>9. Tail(Ids(p)) \in Seq(I) /\ Len(Tail(Ids(p))) = Len(p) - 1
        /\ \A i \in 1 .. Len(p) - 1 : Tail(Ids(p))[i] = p[i + 1].id
    BY <2>1, <2>3, <2>6
  <2>10. Ids(Tail(p)) = Tail(Ids(p))
    BY <2>4, <2>8, <2>9
  <2>11. QED  BY <2>5, <2>7, <2>10
<1>4. QED  BY <1>2, <1>3

\* The initial state.
LEMMA InitOrdered == ASSUME Init, TypeOK PROVE Ordered /\ Listed
<1>1. calls = <<>> /\ pi.state = "Begin" /\ pi.cmd = "none" /\ pi.todo = <<>> /\ ~pi.toConnect
      /\ ~pi.toClose /\ ~pi.text /\ dtp.state = "none" /\ dtp.lines = <<>> /\ dtp.err = FALSE
      /\ hist.current = 0 /\ hist.sent = 0 /\ ftp.posted = 1 /\ ~ftp.closeWait
  BY DEF Init
<1>2. net.link = "none" /\ net.outbox = <<>> /\ net.wire = <<>> /\ net.buffer = <<>>
          /\ net.data = <<>>
      /\ net.fin = FALSE
  BY DEF Init
<1>3. /\ ftp.pending # <<>> /\ Current.cmd = "Connect" /\ Current.id = 1
      /\ \A i \in 2 .. Len(ftp.pending) : ftp.pending[i].cmd # "Connect"
  BY DEF Init, Current
<1>4. /\ \A x : ~OnStack(x) /\ ~Below(x) /\ ~Deep(x) /\ ~Runs(x)
      /\ Len(calls) = 0 /\ Quiet
  BY <1>1, WhenQuiet DEF Quiet
<1>5. <<>> \in Rest("none")
  BY NothingLeft
<1>6. ~Missing(net.data) /\ ~Missing(dtp.lines)
  BY <1>1, <1>2, NoneMissing
<1>7. Framed /\ OneHolder /\ OneCont /\ Holding
  BY <1>4 DEF Framed, OneHolder, OneCont, Nested, Holding
<1> USE <1>1, <1>2, <1>3, <1>4
<1>8. Clearing /\ Started /\ Greeted /\ Talk /\ Answered /\ Replying
  BY DEF Clearing, Started, Greeted, Talk, Answered, Replying, Silent, Running
<1>9. Progress /\ Sending /\ ClosesLast /\ WaitsForEnd /\ Connection /\ FirstConnects /\ Errors
  BY <1>5, <1>6 DEF Progress, Sending, ClosesLast, WaitsForEnd, Connection,
     FirstConnects, Errors,
     Running, Open
<1>10. Listed
  BY DEF Listed, Suits, ShownAtOnce, Owing, Vouched, Concluded, Listing
<1>11. QED
  BY <1>7, <1>8, <1>9, <1>10 DEF Ordered

\* A step that changes nothing keeps the order.
LEMMA OrderedStays ==
    ASSUME Ordered, Listed, UNCHANGED vars
    PROVE  Ordered' /\ Listed'
<1> USE DEF vars, Fn, Under, OnStack, Below, Deep, Runs, Quiet, Arg, Running, Silent, Open, Current
<1>1. Framed' /\ OneHolder' /\ OneCont' /\ Holding'
  BY DEF Ordered, Framed, OneHolder, OneCont, Nested, Holding, Fits
<1>2. Clearing' /\ Started' /\ Greeted' /\ Talk'
  BY DEF Ordered, Clearing, Started, Greeted, Talk
<1>3. Answered' /\ Replying' /\ Progress' /\ Sending'
  BY DEF Ordered, Answered, Replying, Progress, Sending
<1>4. ClosesLast' /\ WaitsForEnd' /\ Connection' /\ FirstConnects' /\ Errors'
  BY DEF Ordered, ClosesLast, WaitsForEnd, Held, Connection, FirstConnects, Errors, Missing
<1>5. Listed'
  BY DEF Listed, Suits, ShownAtOnce, Owing, Vouched, Concluded, Listing, Complete, Clears
<1>6. QED  BY <1>1, <1>2, <1>3, <1>4, <1>5 DEF Ordered

-----------------------------------------------------------------------------
(***************************************************************************)
(* Until a raw command overruns another, each action keeps the order. A    *)
(* proof has three parts: the stack as the action leaves it, its           *)
(* variables, and the parts of the order that follow.                      *)
(***************************************************************************)

\* _q_startNextCommand(): the order.
LEMMA StartNextCommandOrdered ==
    ASSUME TypeOK, Replied, Ordered, Listed, TypeOK', Replied', ~hist'.overrun, StartNextCommand
    PROVE  Ordered' /\ Listed'
<1>1. Runs("startNextCommand") /\ Framed /\ OneHolder /\ OneCont
  BY DEF StartNextCommand, Ordered
<1>2. /\ ~Quiet /\ calls \in Seq(Frame) /\ Fits("startNextCommand", Under(1))
      /\ Fn(1) = "startNextCommand"
      /\ \A x : Runs(x) <=> x = "startNextCommand"
      /\ \A x : OnStack(x) <=> x = "startNextCommand" \/ Below(x)
      /\ Under(1) # "none" => Below(Under(1))
      /\ Under(1) = "none" <=> Len(calls) = 1
      /\ Len(calls) = 1 => \A x : ~Below(x)
  BY <1>1, Before
<1>3. Under(1) \in {"none", "replyDone", "react", "afterFailure", "clearError", "afterRefusal"}
  BY <1>2 DEF Fits, Resumes, Reading
<1>4. /\ \A x : Below(x)
             => x \in {"replyDone", "readLines", "dtpSettled", "react", "afterFailure",
                       "clearError", "afterRefusal"}
      /\ Below("readLines") \/ Below("dtpSettled") => OnStack("replyDone")
  BY <1>1, <1>2, Before, Belows DEF Ordered, Clearing, AboveRemove, AboveCont, Conts,
     Reading
<1>5. ftp.posted \in Nat /\ ftp'.posted \in Nat
  BY DEF TypeOK, Private
<1>6. CASE ftp.pending = <<>>
  <2>1. Then(<<>>)
    BY <1>6 DEF StartNextCommand, Return, Begin
  <2>2. /\ calls' \in Seq(Frame) /\ Len(calls') = Len(calls) - 1
        /\ \A x : OnStack(x)' <=> Below(x)
        /\ \A x : (Below(x)' => Below(x) /\ Deep(x)) /\ (Deep(x)' => Deep(x))
        /\ \A x : x # "none" => (Runs(x)' <=> Under(1) = x)
    BY <2>1, <1>2, Returns
  <2>3. Quiet' <=> Len(calls') = 0
    BY NotQuiet DEF TypeOK
  <2>4. UNCHANGED <<ftp, pi, dtp, net, hist>>
    BY <1>6 DEF StartNextCommand
  <2>5. Current' = Current
    BY <2>4 DEF Current
  <2>6. Framed' /\ OneHolder' /\ OneCont' /\ Holding'
    BY <2>1, <1>2, <1>3, <1>4, <2>4, <2>5, <1>6, ReturnsFit DEF Ordered, Fits, Resumes,
       Reading, AboveRemove, AboveCont, Conts, Holders
  <2> USE <1>2, <1>3, <1>4, <1>5, <2>2, <2>3, <2>4, <2>5, <1>6
  <2>7. /\ Clearing' /\ Started' /\ Greeted' /\ Talk' /\ Answered' /\ Replying'
        /\ Progress'
    BY DEF Ordered, Clearing, Started, Greeted, Talk, Answered, Replying, Progress, Running,
       Reading, Silent, Open
  <2>8. Sending' /\ ClosesLast' /\ WaitsForEnd'
    BY DEF Ordered, Sending, ClosesLast, WaitsForEnd, Running, Ends, Conts, Busy, Held,
       Silent, Open
  <2>9. Connection'
    BY DEF Ordered, Started, Talk, Connection, Silent, Open, Running
  <2>10. FirstConnects'
    BY DEF Ordered, FirstConnects
  <2>11. Errors'
    BY DEF Ordered, Errors, Running
  <2>12. Listed'
    BY DEF Ordered, Listed, Suits, ShownAtOnce, Owing, Vouched, Concluded, Listing,
       Complete, Clears, Running
  <2>13. QED
    BY <2>6, <2>7, <2>8, <2>9, <2>10, <2>11, <2>12 DEF Ordered
<1>7. CASE ftp.pending # <<>> /\ Current.cmd = "Connect"
  <2>1. Then(<< <<"connectState", "HostLookup">> >>)
    BY <1>7 DEF StartNextCommand, Return, Begin
  <2>2. <<"connectState", "HostLookup">> \in Frame
    BY Frames DEF FtpStates, FtpErrors
  <2>3. /\ calls' \in Seq(Frame) /\ Len(calls') = Len(calls)
        /\ \A x : OnStack(x)' <=> x = "connectState" \/ Below(x)
        /\ \A x : Below(x)' <=> Below(x)
        /\ \A x : Deep(x)' <=> Deep(x)
        /\ \A x : Runs(x)' <=> x = "connectState"
    BY <2>1, <2>2, <1>2, CallsOne
  <2>4. Quiet' <=> Len(calls') = 0
    BY NotQuiet DEF TypeOK
  <2>5. pi' = pi
    BY <1>7 DEF StartNextCommand
  <2>6. /\ ftp'.pending = ftp.pending /\ ftp'.error = "NoError"
        /\ ftp'.closeWait = ftp.closeWait /\ ftp'.posted = ftp.posted
    BY <1>7 DEF StartNextCommand, TypeOK, Private
  <2>7. /\ hist'.id = hist.id /\ hist'.current = Current.id /\ hist'.sent = hist.sent
        /\ hist'.overrun = hist.overrun /\ hist'.dataError = hist.dataError
        /\ hist'.owed = 0 /\ hist'.files = 0 /\ hist'.done = FALSE
    BY <1>7 DEF StartNextCommand, TypeOK, History
  <2>8. /\ net'.link = "lookup" /\ net'.outbox = net.outbox /\ net'.wire = net.wire
        /\ net'.buffer = net.buffer /\ net'.port = net.port /\ net'.data = net.data
        /\ net'.fin = net.fin /\ net'.quit = net.quit
    BY <1>7 DEF StartNextCommand, TypeOK, Connections
  <2>9. dtp'.state = dtp.state /\ dtp'.lines = <<>> /\ dtp'.err = dtp.err
    BY <1>7 DEF StartNextCommand, TypeOK, DataConnection
  <2>10. Current' = Current
    BY <1>2, <1>3, <1>4, <1>5, <2>3, <2>4, <2>5, <2>6, <2>7, <2>8, <2>9 DEF Current
  <2>11. Current.id # 0 /\ Current' = Current
    BY <1>2, <1>3, <1>4, <1>5, <2>3, <2>4, <2>5, <2>6, <2>7, <2>8, <2>9, <2>10, <1>7,
       CurrentTyped DEF Current
  <2>12. Under(1) = "none"
    BY <1>2, <1>3, <1>4, <1>5, <2>3, <2>4, <2>5, <2>6, <2>7, <2>8, <2>9, <2>10, <1>7, <2>11
       DEF Ordered, Started, FirstConnects, Greeted, Sending, Conts
  <2>13. net.link = "none" /\ pi.state = "Begin"
    BY <1>2, <1>3, <1>4, <1>5, <2>3, <2>4, <2>5, <2>6, <2>7, <2>8, <2>9, <2>10, <1>7, <2>11,
       <2>12 DEF Ordered, Started, FirstConnects, Greeted
  <2>14. Framed'
    BY <2>1, <2>2, <1>2, <1>3, <1>4, <2>11, <2>12, <2>13, CallsOneFit DEF Ordered, Fits,
       Reading, Resumes
  <2>15. OneHolder'
    BY <2>1, <2>2, <1>2, <1>3, <1>4, <2>5, <2>6, <2>7, <2>8, <2>9, CallsOneFit DEF Ordered,
       AboveRemove, Reading
  <2>16. OneCont'
    BY <2>1, <2>2, <1>2, <1>3, <1>4, <2>5, <2>6, <2>7, <2>8, <2>9, CallsOneFit DEF Ordered,
       AboveCont, Conts, AboveRemove, Reading
  <2>17. Holding'
    BY <2>3, <1>2, <1>3, <1>4, NoHolder DEF Holders
  <2> USE <1>2, <1>3, <1>4, <1>5, <2>3, <2>4, <2>5, <2>6, <2>7, <2>8, <2>9, <2>10, <1>7,
          <2>11, <2>12, <2>13
  <2>18. /\ Clearing' /\ Started' /\ Greeted' /\ Talk' /\ Answered' /\ Replying'
         /\ Progress' /\ Sending' /\ ClosesLast' /\ WaitsForEnd' /\ Connection' /\ FirstConnects'
         /\ Errors'
    BY DEF Ordered, Clearing, Started, Greeted, Talk, Answered, Replying, Progress, Sending,
       ClosesLast, WaitsForEnd, Connection, FirstConnects, Errors, Running, Reading, Silent,
       Open, Ends, Conts, Busy, Held
  <2>19. Listed'
    BY DEF Ordered, Listed, Suits, ShownAtOnce, Owing, Vouched, Concluded, Listing,
       Complete, Clears, Running
  <2>20. QED
    BY <2>14, <2>15, <2>16, <2>17, <2>18, <2>19 DEF Ordered
<1>8. CASE ftp.pending # <<>> /\ Current.cmd # "Connect"
  <2>1. Then(<< <<"sendCommands", Raw(Current.cmd)>> >>)
    BY <1>8 DEF StartNextCommand, Return, Begin
  <2>2. <<"sendCommands", Raw(Current.cmd)>> \in Frame
    BY <1>8, Frames, CurrentTyped, RawTyped DEF TypeOK
  <2>3. /\ calls' \in Seq(Frame) /\ Len(calls') = Len(calls)
        /\ \A x : OnStack(x)' <=> x = "sendCommands" \/ Below(x)
        /\ \A x : Below(x)' <=> Below(x)
        /\ \A x : Deep(x)' <=> Deep(x)
        /\ \A x : Runs(x)' <=> x = "sendCommands"
    BY <2>1, <2>2, <1>2, CallsOne
  <2>4. Quiet' <=> Len(calls') = 0
    BY NotQuiet DEF TypeOK
  <2>5. UNCHANGED <<pi, net>>
    BY <1>8 DEF StartNextCommand
  <2>6. /\ ftp'.pending = ftp.pending /\ ftp'.error = "NoError"
        /\ ftp'.closeWait = ftp.closeWait /\ ftp'.posted = ftp.posted
    BY <1>8 DEF StartNextCommand, TypeOK, Private
  <2>7. /\ hist'.id = hist.id /\ hist'.current = Current.id /\ hist'.sent = hist.sent
        /\ hist'.overrun = hist.overrun /\ hist'.dataError = hist.dataError
        /\ hist'.owed = 0 /\ hist'.files = 0 /\ hist'.done = FALSE
    BY <1>8 DEF StartNextCommand, TypeOK, History
  <2>8. dtp'.state = dtp.state /\ dtp'.lines = <<>> /\ dtp'.err = dtp.err
    BY <1>8 DEF StartNextCommand, TypeOK, DataConnection
  <2>9. Current' = Current
    BY <1>2, <1>3, <1>4, <1>5, <2>3, <2>4, <2>5, <2>6, <2>7, <2>8 DEF Current
  <2>10. Current.id # 0 /\ Current' = Current
    BY <1>2, <1>3, <1>4, <1>5, <2>3, <2>4, <2>5, <2>6, <2>7, <2>8, <2>9, <1>8, CurrentTyped
       DEF Current
  <2>11. Arg' = Raw(Current.cmd)
    BY <2>1, <2>2, <1>2, CallsOne DEF Arg
  <2>12. Framed'
    BY <2>1, <2>2, <1>2, <1>3, <1>4, <2>5, <2>6, <2>7, <2>8, <2>9, CallsOneFit DEF Ordered,
       Fits, Reading, Resumes
  <2>13. OneHolder'
    BY <2>1, <2>2, <1>2, <1>3, <1>4, <2>5, <2>6, <2>7, <2>8, <2>9, CallsOneFit DEF Ordered,
       AboveRemove, Reading
  <2>14. OneCont'
    BY <2>1, <2>2, <1>2, <1>3, <1>4, <2>5, <2>6, <2>7, <2>8, <2>9, CallsOneFit DEF Ordered,
       AboveCont, Conts, AboveRemove, Reading
  <2>15. Holding'
    BY <2>3, <1>2, <1>3, <1>4, NoHolder DEF Holders
  <2> USE <1>2, <1>3, <1>4, <1>5, <2>3, <2>4, <2>5, <2>6, <2>7, <2>8, <2>9, <1>8, <2>10,
          <2>11
  <2>16. /\ Clearing' /\ Started' /\ Greeted' /\ Talk' /\ Answered' /\ Replying'
         /\ Progress' /\ Sending' /\ ClosesLast' /\ WaitsForEnd' /\ Connection' /\ FirstConnects'
         /\ Errors'
    BY DEF Ordered, Clearing, Started, Greeted, Talk, Answered, Replying, Progress, Sending,
       ClosesLast, WaitsForEnd, Connection, FirstConnects, Errors, Running, Reading, Silent,
       Open, Ends, Conts, Busy, Held
  <2>17. Suits'
    BY DEF Ordered, Listed, Suits, Listing, Started, Progress, ClosesLast
  <2>18. ShownAtOnce'
    BY DEF Ordered, Listed, ShownAtOnce
  <2>19. Owing'
    BY DEF Ordered, Listed, Owing, Listing, Started, Progress
  <2>20. Vouched'
    BY DEF Ordered, Listed, Vouched, Listing, Started, Progress
  <2>21. Concluded'
    BY DEF Ordered, Listed, Concluded, Complete, Clears, Listing, Running, Started, Progress
  <2>22. Listed'
    BY <2>17, <2>18, <2>19, <2>20, <2>21 DEF Listed
  <2>23. QED
    BY <2>12, <2>13, <2>14, <2>15, <2>16, <2>22 DEF Ordered
<1>9. QED
  BY <1>6, <1>7, <1>8

\* _q_piFinished(): the order.
LEMMA PiFinishedOrdered ==
    ASSUME TypeOK, Replied, Ordered, Listed, TypeOK', Replied', ~hist'.overrun, PiFinished
    PROVE  Ordered' /\ Listed'
<1>1. Runs("piFinished") /\ Framed /\ OneHolder /\ OneCont
  BY DEF PiFinished, Ordered
<1>2. /\ ~Quiet /\ calls \in Seq(Frame) /\ Fits("piFinished", Under(1))
      /\ Fn(1) = "piFinished"
      /\ \A x : Runs(x) <=> x = "piFinished"
      /\ \A x : OnStack(x) <=> x = "piFinished" \/ Below(x)
      /\ Under(1) # "none" => Below(Under(1))
      /\ Under(1) = "none" <=> Len(calls) = 1
      /\ Len(calls) = 1 => \A x : ~Below(x)
  BY <1>1, Before
<1>3. Under(1) \in {"none", "replyDone", "react", "afterFailure", "clearError", "afterRefusal"}
  BY <1>2 DEF Fits, Resumes, Reading
<1>4. /\ \A x : Below(x)
             => x \in {"replyDone", "readLines", "dtpSettled", "react", "afterFailure",
                       "clearError", "afterRefusal"}
      /\ Below("readLines") \/ Below("dtpSettled") => OnStack("replyDone")
  BY <1>1, <1>2, Before, Belows DEF Ordered, Clearing, AboveRemove, AboveCont, Conts,
     Reading
<1>5. ftp.posted \in Nat /\ ftp'.posted \in Nat
  BY DEF TypeOK, Private
<1>6. CASE ftp.pending = <<>> \/ (Current.cmd = "Close" /\ ftp.state # "Unconnected")
  <2>1. Then(<<>>)
    BY <1>6 DEF PiFinished, Return, Begin
  <2>2. /\ calls' \in Seq(Frame) /\ Len(calls') = Len(calls) - 1
        /\ \A x : OnStack(x)' <=> Below(x)
        /\ \A x : (Below(x)' => Below(x) /\ Deep(x)) /\ (Deep(x)' => Deep(x))
        /\ \A x : x # "none" => (Runs(x)' <=> Under(1) = x)
    BY <2>1, <1>2, Returns
  <2>3. Quiet' <=> Len(calls') = 0
    BY NotQuiet DEF TypeOK
  <2>4. UNCHANGED <<pi, dtp, net, hist>>
    BY <1>6 DEF PiFinished
  <2>5. /\ ftp'.pending = ftp.pending /\ ftp'.state = ftp.state /\ ftp'.error = ftp.error
        /\ ftp'.closeWait = (IF ftp.pending = <<>> THEN ftp.closeWait ELSE TRUE)
        /\ ftp'.posted = ftp.posted
    BY <1>6 DEF PiFinished, TypeOK, Private
  <2>6. Current' = Current
    BY <1>2, <1>3, <1>4, <1>5, <2>2, <2>3, <2>4, <2>5 DEF Current
  <2>7. ~ftp.closeWait
    BY <1>2, <1>3, <1>4, <1>5, <2>2, <2>3, <2>4, <2>5, <2>6, <1>6 DEF Ordered, ClosesLast,
       Busy
  <2>8. ftp'.closeWait => hist.current # 0 /\ \A f \in Conts : ~Below(f)
    BY <1>2, <1>3, <1>4, <1>5, <2>2, <2>3, <2>4, <2>5, <2>6, <1>6, <2>7 DEF Ordered,
       Started, Sending
  <2>9. Framed' /\ OneHolder' /\ OneCont' /\ Holding'
    BY <2>1, <1>2, <1>3, <1>4, <2>4, <2>5, <2>6, <1>6, <2>7, <2>8, ReturnsFit DEF Ordered,
       Fits, Resumes, Reading, AboveRemove, AboveCont, Conts, Holders
  <2> USE <1>2, <1>3, <1>4, <1>5, <2>2, <2>3, <2>4, <2>5, <2>6, <1>6, <2>7, <2>8
  <2>10. Clearing' /\ Started'
    BY DEF Ordered, Clearing, Started, Running, Reading, Silent, Open
  <2>11. Greeted'
    BY DEF Ordered, Started, Greeted, Progress, Sending, Connection, Silent, Running, Ends,
       Conts, Open
  <2>12. Talk'
    BY DEF Ordered, Talk, Silent
  <2>13. Answered' /\ Replying' /\ Progress'
    BY DEF Ordered, Answered, Replying, Progress, Silent
  <2>14. Sending'
    BY DEF Ordered, Sending, Running, Ends, Conts
  <2>15. ClosesLast'
    BY DEF Ordered, ClosesLast, Busy, Conts, Sending, Running, Ends
  <2>16. WaitsForEnd'
    BY DEF Ordered, WaitsForEnd, Held, Silent, Open
  <2>17. Connection'
    BY SMTT(30) DEF Ordered, Started, Greeted, Progress, Sending, Connection, Silent,
       Running, Ends, Conts, Open
  <2>18. FirstConnects'
    BY DEF Ordered, FirstConnects
  <2>19. Errors'
    BY DEF Ordered, Errors, Running
  <2>20. Suits'
    BY DEF Ordered, Listed, Suits, Listing
  <2>21. ShownAtOnce'
    BY DEF Ordered, Listed, ShownAtOnce
  <2>22. Owing'
    BY DEF Ordered, Listed, Owing, Listing
  <2>23. Vouched'
    BY DEF Ordered, Listed, Vouched, Listing
  <2>24. Concluded'
    BY DEF Ordered, Listed, Concluded, Complete, Clears, Listing, Running, Started
  <2>25. Listed'
    BY <2>20, <2>21, <2>22, <2>23, <2>24 DEF Listed
  <2>26. QED
    BY <2>9, <2>10, <2>11, <2>12, <2>13, <2>14, <2>15, <2>16, <2>17, <2>18, <2>19,
       <2>25 DEF Ordered
<1>7. CASE ~(ftp.pending = <<>> \/ (Current.cmd = "Close" /\ ftp.state # "Unconnected"))
  <2>1. Then(<< <<"commandFinished", Current.id>>, <<"removeFirst", Current.id>> >>)
    BY <1>7 DEF PiFinished, Return, Begin
  <2>2. <<"commandFinished", Current.id>> \in Frame /\ <<"removeFirst", Current.id>> \in Frame
    BY <1>7, Frames, CurrentTyped, RawTyped DEF TypeOK
  <2>3. /\ calls' \in Seq(Frame) /\ Len(calls') = Len(calls) + 1
        /\ \A x : OnStack(x)' <=> x \in {"commandFinished", "removeFirst"} \/ Below(x)
        /\ \A x : Below(x)' <=> x = "removeFirst" \/ Below(x)
        /\ \A x : Deep(x)' <=> Below(x)
        /\ \A x : Runs(x)' <=> x = "commandFinished"
    BY <2>1, <2>2, <1>2, CallsTwo
  <2>4. Quiet' <=> Len(calls') = 0
    BY NotQuiet DEF TypeOK
  <2>5. UNCHANGED <<ftp, pi, dtp, net, hist>>
    BY <1>7 DEF PiFinished
  <2>6. Current' = Current
    BY <2>5 DEF Current
  <2>7. hist.current # 0 /\ ftp.pending # <<>> /\ Current.id = hist.current
    BY <1>2, <1>3, <1>4, <1>5, <2>3, <2>4, <2>5, <2>6, <1>7 DEF Ordered, Started
  <2>8. Framed' /\ OneHolder' /\ OneCont' /\ Holding'
    BY <2>1, <2>2, <1>2, <1>3, <1>4, <2>5, <2>6, <1>7, <2>7, CallsTwoFit DEF Ordered, Fits,
       Resumes, Reading, AboveRemove, AboveCont, Conts, Holders
  <2> USE <1>2, <1>3, <1>4, <1>5, <2>3, <2>4, <2>5, <2>6, <1>7, <2>7
  <2>9. /\ Clearing' /\ Started' /\ Greeted' /\ Talk' /\ Answered' /\ Replying'
        /\ Progress' /\ Sending' /\ ClosesLast' /\ WaitsForEnd' /\ Connection' /\ FirstConnects'
        /\ Errors'
    BY DEF Ordered, Clearing, Started, Greeted, Talk, Answered, Replying, Progress, Sending,
       ClosesLast, WaitsForEnd, Connection, FirstConnects, Errors, Running, Reading, Silent,
       Open, Ends, Conts, Busy, Held
  <2>10. Listed'
    BY DEF Ordered, Listed, Suits, ShownAtOnce, Owing, Vouched, Concluded, Listing,
       Complete, Clears, Running
  <2>11. QED
    BY <2>8, <2>9, <2>10 DEF Ordered
<1>8. QED
  BY <1>6, <1>7

\* _q_piError(): the order.
LEMMA PiErrorOrdered ==
    ASSUME TypeOK, Replied, Ordered, Listed, TypeOK', Replied', ~hist'.overrun, PiError
    PROVE  Ordered' /\ Listed'
<1>1. Runs("piError") /\ Framed /\ OneHolder /\ OneCont
  BY DEF PiError, Ordered
<1>2. /\ ~Quiet /\ calls \in Seq(Frame) /\ Fits("piError", Under(1))
      /\ Fn(1) = "piError"
      /\ \A x : Runs(x) <=> x = "piError"
      /\ \A x : OnStack(x) <=> x = "piError" \/ Below(x)
      /\ Under(1) # "none" => Below(Under(1))
      /\ Under(1) = "none" <=> Len(calls) = 1
      /\ Len(calls) = 1 => \A x : ~Below(x)
  BY <1>1, Before
<1>3. Under(1) \in {"none", "replyDone", "react", "afterFailure", "clearError", "afterRefusal"}
  BY <1>2 DEF Fits, Resumes, Reading
<1>4. /\ \A x : Below(x)
             => x \in {"replyDone", "readLines", "dtpSettled", "react", "afterFailure",
                       "clearError", "afterRefusal"}
      /\ Below("readLines") \/ Below("dtpSettled") => OnStack("replyDone")
  BY <1>1, <1>2, Before, Belows DEF Ordered, Clearing, AboveRemove, AboveCont, Conts,
     Reading
<1>5. ftp.posted \in Nat /\ ftp'.posted \in Nat
  BY DEF TypeOK, Private
<1>6. CASE ftp.pending = <<>> \/ (Current.cmd = "Get" /\ pi.cmd = "SIZE")
  <2>1. Then(<<>>)
    BY <1>6 DEF PiError, Return, Begin
  <2>2. /\ calls' \in Seq(Frame) /\ Len(calls') = Len(calls) - 1
        /\ \A x : OnStack(x)' <=> Below(x)
        /\ \A x : (Below(x)' => Below(x) /\ Deep(x)) /\ (Deep(x)' => Deep(x))
        /\ \A x : x # "none" => (Runs(x)' <=> Under(1) = x)
    BY <2>1, <1>2, Returns
  <2>3. Quiet' <=> Len(calls') = 0
    BY NotQuiet DEF TypeOK
  <2>4. UNCHANGED <<ftp, pi, dtp, net, hist>>
    BY <1>6 DEF PiError
  <2>5. Current' = Current
    BY <2>4 DEF Current
  <2>6. Framed' /\ OneHolder' /\ OneCont' /\ Holding'
    BY <2>1, <1>2, <1>3, <1>4, <2>4, <2>5, <1>6, ReturnsFit DEF Ordered, Fits, Resumes,
       Reading, AboveRemove, AboveCont, Conts, Holders
  <2> USE <1>2, <1>3, <1>4, <1>5, <2>2, <2>3, <2>4, <2>5, <1>6
  <2>7. /\ Clearing' /\ Started' /\ Greeted' /\ Talk' /\ Answered' /\ Replying'
        /\ Progress' /\ Sending' /\ ClosesLast' /\ WaitsForEnd' /\ Connection' /\ FirstConnects'
        /\ Errors'
    BY SMTT(30) DEF Ordered, Clearing, Started, Greeted, Talk, Answered, Replying,
       Progress, Sending,
       ClosesLast, WaitsForEnd, Connection, FirstConnects, Errors, Running, Reading, Silent,
       Open, Ends, Conts, Busy, Held
  <2>8. Suits'
    BY DEF Ordered, Listed, Suits, Listing
  <2>9. ShownAtOnce'
    BY DEF Ordered, Listed, ShownAtOnce
  <2>10. Owing'
    BY DEF Ordered, Listed, Owing, Listing
  <2>11. Vouched'
    BY DEF Ordered, Listed, Vouched, Listing
  <2>12. Concluded'
    BY DEF Ordered, Listed, Concluded, Complete, Clears, Listing, Running, Clearing, Started
  <2>13. Listed'
    BY <2>8, <2>9, <2>10, <2>11, <2>12 DEF Listed
  <2>14. QED
    BY <2>6, <2>7, <2>13 DEF Ordered
<1>7. CASE ~(ftp.pending = <<>> \/ (Current.cmd = "Get" /\ pi.cmd = "SIZE"))
  <2>1. Then(<< <<"clearPendingCommands">>, <<"commandFailed", Current.id>>,
            <<"removeFirst", Current.id>> >>)
    BY <1>7 DEF PiError, Return, Begin
  <2>2. <<"clearPendingCommands">> \in Frame /\ <<"commandFailed", Current.id>> \in Frame
            /\ <<"removeFirst", Current.id>> \in Frame
    BY <1>7, Frames, CurrentTyped, RawTyped DEF TypeOK
  <2>3. /\ calls' \in Seq(Frame) /\ Len(calls') = Len(calls) + 2
        /\ \A x : OnStack(x)'
               <=> x \in {"clearPendingCommands", "commandFailed", "removeFirst"} \/ Below(x)
        /\ \A x : Below(x)' <=> x \in {"commandFailed", "removeFirst"} \/ Below(x)
        /\ \A x : Deep(x)' <=> x = "removeFirst" \/ Below(x)
        /\ \A x : Runs(x)' <=> x = "clearPendingCommands"
    BY SMTT(40), <2>1, <2>2, <1>2, CallsThree
  <2>4. Quiet' <=> Len(calls') = 0
    BY NotQuiet DEF TypeOK
  <2>5. UNCHANGED <<pi, dtp, net, hist>>
    BY <1>7 DEF PiError
  <2>6. /\ ftp'.pending = ftp.pending /\ ftp'.state = ftp.state
        /\ ftp'.closeWait = ftp.closeWait /\ ftp'.posted = ftp.posted
    BY <1>7 DEF PiError, TypeOK, Private
  <2>7. Current' = Current
    BY <1>2, <1>3, <1>4, <1>5, <2>3, <2>4, <2>5, <2>6 DEF Current
  <2>8. hist.current # 0 /\ ftp.pending # <<>> /\ Current.id = hist.current
    BY <1>2, <1>3, <1>4, <1>5, <2>3, <2>4, <2>5, <2>6, <2>7, <1>7 DEF Ordered, Started
  <2>9. hist.current # 0
    BY <1>2, <1>3, <1>4, <1>5, <2>3, <2>4, <2>5, <2>6, <2>7, <1>7, <2>8
  <2>10. Fits("clearPendingCommands", "commandFailed") /\ Fits("commandFailed", "removeFirst")
         /\ Fits("removeFirst", Under(1))
    BY <1>2, <1>3, <1>4, <1>5, <2>3, <2>4, <2>5, <2>6, <2>7, <1>7, <2>8, <2>9 DEF Fits,
       Resumes, Reading
  <2>11. Framed'
    BY <2>1, <2>2, <1>2, <1>3, <1>4, <2>8, <2>9, <2>10, CallsThreeFit DEF Ordered
  <2>12. OneHolder'
    BY <2>1, <2>2, <1>2, <1>3, <1>4, <2>5, <2>6, <2>7, <1>7, <2>8, CallsThreeFit DEF
       Ordered, AboveRemove, Reading
  <2>13. OneCont'
    BY <2>1, <2>2, <1>2, <1>3, <1>4, <2>5, <2>6, <2>7, <1>7, <2>8, CallsThreeFit DEF
       Ordered, AboveCont, Conts, AboveRemove, Reading
  <2>14. Holding'
    BY <2>1, <2>2, <1>2, <1>3, <1>4, <2>5, <2>6, <2>7, <1>7, <2>8, CallsThreeFit DEF
       Ordered, Holders
  <2> USE <1>2, <1>3, <1>4, <1>5, <2>3, <2>4, <2>5, <2>6, <2>7, <1>7, <2>8, <2>9, <2>10
  <2>15. /\ Clearing' /\ Started' /\ Greeted' /\ Talk' /\ Answered' /\ Replying'
         /\ Progress' /\ Sending' /\ ClosesLast' /\ WaitsForEnd' /\ Connection' /\ FirstConnects'
         /\ Errors'
    BY DEF Ordered, Clearing, Started, Greeted, Talk, Answered, Replying, Progress, Sending,
       ClosesLast, WaitsForEnd, Connection, FirstConnects, Errors, Running, Reading, Silent,
       Open, Ends, Conts, Busy, Held
  <2>16. Suits'
    BY DEF Ordered, Listed, Suits, Listing
  <2>17. ShownAtOnce'
    BY DEF Ordered, Listed, ShownAtOnce
  <2>18. Owing'
    BY DEF Ordered, Listed, Owing, Listing
  <2>19. Vouched'
    BY DEF Ordered, Listed, Vouched, Listing
  <2>20. Concluded'
    BY DEF Ordered, Listed, Concluded, Complete, Clears, Listing, Running, Clearing, Started
  <2>21. Listed'
    BY <2>16, <2>17, <2>18, <2>19, <2>20 DEF Listed
  <2>22. QED
    BY <2>11, <2>12, <2>13, <2>14, <2>15, <2>21 DEF Ordered
<1>8. QED
  BY <1>6, <1>7

\* _q_piFinished() or _q_piError() goes on and removes its command: the order.
LEMMA RemoveFirstOrdered ==
    ASSUME TypeOK, Replied, Ordered, Listed, TypeOK', Replied', ~hist'.overrun, RemoveFirst
    PROVE  Ordered' /\ Listed'
<1>1. Runs("removeFirst") /\ Framed /\ OneHolder /\ OneCont
  BY DEF RemoveFirst, Ordered
<1>2. /\ ~Quiet /\ calls \in Seq(Frame) /\ Fits("removeFirst", Under(1))
      /\ Fn(1) = "removeFirst"
      /\ \A x : Runs(x) <=> x = "removeFirst"
      /\ \A x : OnStack(x) <=> x = "removeFirst" \/ Below(x)
      /\ Under(1) # "none" => Below(Under(1))
      /\ Under(1) = "none" <=> Len(calls) = 1
      /\ Len(calls) = 1 => \A x : ~Below(x)
  BY <1>1, Before
<1>3. Under(1) \in {"none", "replyDone", "react", "afterFailure", "clearError", "afterRefusal"}
  BY <1>2 DEF Fits, Resumes, Reading
<1>4. /\ \A x : Below(x)
             => x \in {"replyDone", "readLines", "dtpSettled", "react", "afterFailure",
                       "clearError", "afterRefusal"}
      /\ Below("readLines") \/ Below("dtpSettled") => OnStack("replyDone")
  BY <1>1, <1>2, Before, Belows DEF Ordered, Clearing, AboveRemove, AboveCont, Conts,
     Reading
<1>5. Holds
  BY DEF RemoveFirst
<1>6. ftp.posted \in Nat /\ ftp'.posted \in Nat
  BY DEF TypeOK, Private
<1>7. 1 \in 1 .. Len(calls)
  BY <1>2, <1>3, <1>4, <1>5, <1>6 DEF Quiet
<1>8. hist.current # 0 /\ ftp.pending # <<>> /\ ftp.posted = 0
  BY <1>2, <1>3, <1>4, <1>5, <1>6, <1>7 DEF Ordered, Holding, Holders, Holds, Started
<1>9. CASE Tail(ftp.pending) = <<>>
  <2>1. Then(<<>>)
    BY <1>9 DEF RemoveFirst, Return, Begin
  <2>2. /\ calls' \in Seq(Frame) /\ Len(calls') = Len(calls) - 1
        /\ \A x : OnStack(x)' <=> Below(x)
        /\ \A x : (Below(x)' => Below(x) /\ Deep(x)) /\ (Deep(x)' => Deep(x))
        /\ \A x : x # "none" => (Runs(x)' <=> Under(1) = x)
    BY <2>1, <1>2, Returns
  <2>3. Quiet' <=> Len(calls') = 0
    BY NotQuiet DEF TypeOK
  <2>4. UNCHANGED <<pi, dtp, net>>
    BY <1>9 DEF RemoveFirst
  <2>5. /\ ftp'.pending = Tail(ftp.pending) /\ ftp'.state = ftp.state /\ ftp'.error = ftp.error
        /\ ftp'.closeWait = ftp.closeWait /\ ftp'.posted = ftp.posted
    BY <1>9 DEF RemoveFirst, TypeOK, Private
  <2>6. /\ hist'.id = hist.id /\ hist'.current = 0 /\ hist'.sent = hist.sent
        /\ hist'.overrun = hist.overrun /\ hist'.dataError = hist.dataError
        /\ hist'.owed = hist.owed /\ hist'.files = hist.files /\ hist'.done = hist.done
    BY <1>9 DEF RemoveFirst, TypeOK, History
  <2>7. FirstConnects'
    BY <1>2, <1>3, <1>4, <1>5, <1>6, <1>7, <1>8, <2>2, <2>3, <2>4, <2>5, <2>6, <1>9, Removed
       DEF Ordered, FirstConnects, Current
  <2>8. Framed'
    BY <2>1, <1>2, <1>3, <1>4, <2>4, <2>5, <2>6, <1>9, <2>7, ReturnsFit DEF Ordered, Fits,
       Reading, Resumes
  <2>9. OneHolder'
    BY <2>1, <1>2, <1>3, <1>4, <2>4, <2>5, <2>6, <1>9, <2>7, ReturnsFit DEF Ordered,
       AboveRemove, Reading
  <2>10. OneCont'
    BY <2>1, <1>2, <1>3, <1>4, <2>4, <2>5, <2>6, <1>9, <2>7, ReturnsFit DEF Ordered,
       AboveCont, Conts, AboveRemove, Reading
  <2>11. Holding'
    BY <2>2, <1>2, <1>3, <1>4, NoHolder DEF Holders
  <2> USE <1>2, <1>3, <1>4, <1>5, <1>6, <1>7, <1>8, <2>2, <2>3, <2>4, <2>5, <2>6, <1>9, <2>7
  <2>12. Clearing' /\ Started'
    BY DEF Ordered, Clearing, Started, Running, Reading, Silent, Open
  <2>13. Greeted'
    BY DEF Ordered, Started, Greeted, Progress, Sending, Connection, Silent, Running, Ends,
       Conts, Open
  <2>14. Talk'
    BY DEF Ordered, Started, Greeted, Talk, Progress, Sending, Connection, Silent, Running,
       Ends, Conts, Open
  <2>15. Answered' /\ Replying'
    BY DEF Ordered, Answered, Replying, Silent
  <2>16. Progress'
    BY DEF Ordered, Started, Greeted, Progress, Sending, Connection, Silent, Running, Ends,
       Conts, Open
  <2>17. Sending' /\ ClosesLast'
    BY DEF Ordered, Sending, ClosesLast, Running, Ends, Conts, Busy
  <2>18. WaitsForEnd'
    BY DEF Ordered, WaitsForEnd, Held, Silent, Open
  <2>19. Connection'
    BY SMTT(30) DEF Ordered, Started, Greeted, Progress, Sending, Connection, Silent,
       Running, Ends, Conts, Open
  <2>20. FirstConnects'
    BY DEF Ordered, FirstConnects
  <2>21. Errors'
    BY DEF Ordered, Errors, Running
  <2>22. Suits'
    BY DEF Ordered, Listed, Suits, Listing, ClosesLast, Busy
  <2>23. ShownAtOnce'
    BY DEF Ordered, Listed, ShownAtOnce
  <2>24. Owing'
    BY DEF Ordered, Listed, Owing, Listing
  <2>25. Vouched'
    BY DEF Ordered, Listed, Vouched, Listing
  <2>26. Concluded'
    BY DEF Ordered, Listed, Concluded, Complete, Clears, Listing, Running
  <2>27. Listed'
    BY <2>22, <2>23, <2>24, <2>25, <2>26 DEF Listed
  <2>28. QED
    BY <2>8, <2>9, <2>10, <2>11, <2>12, <2>13, <2>14, <2>15, <2>16, <2>17, <2>18,
       <2>19, <2>20, <2>21, <2>27 DEF Ordered
<1>10. CASE Tail(ftp.pending) # <<>>
  <2>1. Then(<< <<"startNextCommand">> >>)
    BY <1>10 DEF RemoveFirst, Return, Begin
  <2>2. <<"startNextCommand">> \in Frame
    BY Frames DEF FtpStates, FtpErrors
  <2>3. /\ calls' \in Seq(Frame) /\ Len(calls') = Len(calls)
        /\ \A x : OnStack(x)' <=> x = "startNextCommand" \/ Below(x)
        /\ \A x : Below(x)' <=> Below(x)
        /\ \A x : Deep(x)' <=> Deep(x)
        /\ \A x : Runs(x)' <=> x = "startNextCommand"
    BY <2>1, <2>2, <1>2, CallsOne
  <2>4. Quiet' <=> Len(calls') = 0
    BY NotQuiet DEF TypeOK
  <2>5. UNCHANGED <<pi, dtp, net>>
    BY <1>10 DEF RemoveFirst
  <2>6. /\ ftp'.pending = Tail(ftp.pending) /\ ftp'.state = ftp.state /\ ftp'.error = ftp.error
        /\ ftp'.closeWait = ftp.closeWait /\ ftp'.posted = ftp.posted
    BY <1>10 DEF RemoveFirst, TypeOK, Private
  <2>7. /\ hist'.id = hist.id /\ hist'.current = 0 /\ hist'.sent = hist.sent
        /\ hist'.overrun = hist.overrun /\ hist'.dataError = hist.dataError
        /\ hist'.owed = hist.owed /\ hist'.files = hist.files /\ hist'.done = hist.done
    BY <1>10 DEF RemoveFirst, TypeOK, History
  <2>8. FirstConnects'
    BY <1>2, <1>3, <1>4, <1>5, <1>6, <1>7, <1>8, <2>3, <2>4, <2>5, <2>6, <2>7, <1>10,
       Removed DEF Ordered, FirstConnects, Current
  <2>9. Framed'
    BY <2>1, <2>2, <1>2, <1>3, <1>4, <2>5, <2>6, <2>7, <1>10, <2>8, CallsOneFit DEF Ordered,
       Fits, Reading, Resumes
  <2>10. OneHolder'
    BY <2>1, <2>2, <1>2, <1>3, <1>4, <2>5, <2>6, <2>7, <1>10, <2>8, CallsOneFit DEF Ordered,
       AboveRemove, Reading
  <2>11. OneCont'
    BY <2>1, <2>2, <1>2, <1>3, <1>4, <2>5, <2>6, <2>7, <1>10, <2>8, CallsOneFit DEF Ordered,
       AboveCont, Conts, AboveRemove, Reading
  <2>12. Holding'
    BY <2>3, <1>2, <1>3, <1>4, NoHolder DEF Holders
  <2> USE <1>2, <1>3, <1>4, <1>5, <1>6, <1>7, <1>8, <2>3, <2>4, <2>5, <2>6, <2>7, <1>10,
          <2>8
  <2>13. /\ Clearing' /\ Started' /\ Greeted' /\ Talk' /\ Answered' /\ Replying'
         /\ Progress' /\ Sending' /\ ClosesLast' /\ WaitsForEnd' /\ Connection' /\ FirstConnects'
         /\ Errors'
    BY DEF Ordered, Clearing, Started, Greeted, Talk, Answered, Replying, Progress, Sending,
       ClosesLast, WaitsForEnd, Connection, FirstConnects, Errors, Running, Reading, Silent,
       Open, Ends, Conts, Busy, Held
  <2>14. Suits'
    BY DEF Ordered, Listed, Suits, Listing, ClosesLast, Busy
  <2>15. ShownAtOnce'
    BY DEF Ordered, Listed, ShownAtOnce
  <2>16. Owing'
    BY DEF Ordered, Listed, Owing, Listing
  <2>17. Vouched'
    BY DEF Ordered, Listed, Vouched, Listing
  <2>18. Concluded'
    BY DEF Ordered, Listed, Concluded, Complete, Clears, Listing, Running
  <2>19. Listed'
    BY <2>14, <2>15, <2>16, <2>17, <2>18 DEF Listed
  <2>20. QED
    BY <2>9, <2>10, <2>11, <2>12, <2>13, <2>19 DEF Ordered
<1>11. QED
  BY <1>9, <1>10

\* _q_piConnectState(): the order.
LEMMA PiConnectStateOrdered ==
    ASSUME TypeOK, Replied, Ordered, Listed, TypeOK', Replied', ~hist'.overrun, PiConnectState
    PROVE  Ordered' /\ Listed'
<1>1. Runs("connectState") /\ Framed /\ OneHolder /\ OneCont
  BY DEF PiConnectState, Ordered
<1>2. /\ ~Quiet /\ calls \in Seq(Frame) /\ Fits("connectState", Under(1))
      /\ Fn(1) = "connectState"
      /\ \A x : Runs(x) <=> x = "connectState"
      /\ \A x : OnStack(x) <=> x = "connectState" \/ Below(x)
      /\ Under(1) # "none" => Below(Under(1))
      /\ Under(1) = "none" <=> Len(calls) = 1
      /\ Len(calls) = 1 => \A x : ~Below(x)
  BY <1>1, Before
<1>3. Under(1) \in {"none", "react", "piError"}
  BY <1>2 DEF Fits, Resumes, Reading
<1>4. /\ \A x : Below(x)
             => x \in {"replyDone", "readLines", "dtpSettled", "piError", "react", "afterFailure",
                       "clearError", "afterRefusal"}
      /\ Below("readLines") \/ Below("dtpSettled") => OnStack("replyDone")
  BY <1>1, <1>2, Before, Belows DEF Ordered, Clearing, AboveRemove, AboveCont, Conts,
     Reading
<1>5. ftp.posted \in Nat /\ ftp'.posted \in Nat
  BY DEF TypeOK, Private
<1>6. CASE ftp.closeWait
  <2>1. Then(<< <<"piFinished">> >>)
    BY <1>6 DEF PiConnectState, Return, Begin
  <2>2. <<"piFinished">> \in Frame
    BY Frames DEF FtpStates, FtpErrors
  <2>3. /\ calls' \in Seq(Frame) /\ Len(calls') = Len(calls)
        /\ \A x : OnStack(x)' <=> x = "piFinished" \/ Below(x)
        /\ \A x : Below(x)' <=> Below(x)
        /\ \A x : Deep(x)' <=> Deep(x)
        /\ \A x : Runs(x)' <=> x = "piFinished"
    BY <2>1, <2>2, <1>2, CallsOne
  <2>4. Quiet' <=> Len(calls') = 0
    BY NotQuiet DEF TypeOK
  <2>5. UNCHANGED <<pi, dtp, net, hist>>
    BY <1>6 DEF PiConnectState
  <2>6. /\ ftp'.pending = ftp.pending /\ ftp'.error = ftp.error /\ ftp'.closeWait = FALSE
        /\ ftp'.posted = ftp.posted
    BY <1>6 DEF PiConnectState, TypeOK, Private
  <2>7. Current' = Current
    BY <1>2, <1>3, <1>4, <1>5, <2>3, <2>4, <2>5, <2>6 DEF Current
  <2>8. Under(1) = "none" /\ hist.current # 0 /\ ftp.posted = 0
    BY <1>2, <1>3, <1>4, <1>5, <2>3, <2>4, <2>5, <2>6, <2>7, <1>6 DEF Ordered, ClosesLast,
       Busy, Started
  <2>9. Framed' /\ OneHolder' /\ OneCont' /\ Holding'
    BY <2>1, <2>2, <1>2, <1>3, <1>4, <2>5, <2>6, <2>7, <1>6, <2>8, CallsOneFit DEF Ordered,
       Fits, Resumes, Reading, AboveRemove, AboveCont, Conts, Holders
  <2> USE <1>2, <1>3, <1>4, <1>5, <2>3, <2>4, <2>5, <2>6, <2>7, <1>6, <2>8
  <2>10. /\ Clearing' /\ Started' /\ Greeted' /\ Talk' /\ Answered' /\ Replying'
         /\ Progress' /\ Sending' /\ ClosesLast' /\ WaitsForEnd' /\ Connection' /\ FirstConnects'
         /\ Errors'
    BY DEF Ordered, Clearing, Started, Greeted, Talk, Answered, Replying, Progress, Sending,
       ClosesLast, WaitsForEnd, Connection, FirstConnects, Errors, Running, Reading, Silent,
       Open, Ends, Conts, Busy, Held
  <2>11. Listed'
    BY DEF Ordered, Listed, Suits, ShownAtOnce, Owing, Vouched, Concluded, Listing,
       Complete, Clears, Running
  <2>12. QED
    BY <2>9, <2>10, <2>11 DEF Ordered
<1>7. CASE ~ftp.closeWait
  <2>1. Then(<<>>)
    BY <1>7 DEF PiConnectState, Return, Begin
  <2>2. /\ calls' \in Seq(Frame) /\ Len(calls') = Len(calls) - 1
        /\ \A x : OnStack(x)' <=> Below(x)
        /\ \A x : (Below(x)' => Below(x) /\ Deep(x)) /\ (Deep(x)' => Deep(x))
        /\ \A x : x # "none" => (Runs(x)' <=> Under(1) = x)
    BY <2>1, <1>2, Returns
  <2>3. Quiet' <=> Len(calls') = 0
    BY NotQuiet DEF TypeOK
  <2>4. UNCHANGED <<pi, dtp, net, hist>>
    BY <1>7 DEF PiConnectState
  <2>5. /\ ftp'.pending = ftp.pending /\ ftp'.error = ftp.error /\ ftp'.closeWait = FALSE
        /\ ftp'.posted = ftp.posted
    BY <1>7 DEF PiConnectState, TypeOK, Private
  <2>6. Current' = Current
    BY <1>2, <1>3, <1>4, <1>5, <2>2, <2>3, <2>4, <2>5 DEF Current
  <2>7. Framed' /\ OneHolder' /\ OneCont' /\ Holding'
    BY <2>1, <1>2, <1>3, <1>4, <2>4, <2>5, <2>6, <1>7, ReturnsFit DEF Ordered, Fits,
       Resumes, Reading, AboveRemove, AboveCont, Conts, Holders
  <2> USE <1>2, <1>3, <1>4, <1>5, <2>2, <2>3, <2>4, <2>5, <2>6, <1>7
  <2>8. /\ Clearing' /\ Started' /\ Greeted' /\ Talk' /\ Answered' /\ Replying'
        /\ Progress'
    BY DEF Ordered, Clearing, Started, Greeted, Talk, Answered, Replying, Progress, Running,
       Reading, Silent, Open
  <2>9. Sending' /\ ClosesLast' /\ WaitsForEnd'
    BY DEF Ordered, Sending, ClosesLast, WaitsForEnd, Running, Ends, Conts, Busy, Held,
       Silent, Open
  <2>10. Connection' /\ FirstConnects'
    BY SMTT(30) DEF Ordered, Connection, FirstConnects, Open, Running
  <2>11. Errors'
    BY DEF Ordered, Errors, Running
  <2>12. Listed'
    BY SMTT(30) DEF Ordered, Listed, Suits, ShownAtOnce, Owing, Vouched, Concluded, Listing,
       Complete, Clears, Running
  <2>13. QED
    BY <2>7, <2>8, <2>9, <2>10, <2>11, <2>12 DEF Ordered
<1>8. QED
  BY <1>6, <1>7

\* QFtpPI::sendCommands(): the order.
LEMMA SendCommandsOrdered ==
    ASSUME TypeOK, Replied, Ordered, Listed, TypeOK', Replied', ~hist'.overrun, SendCommands
    PROVE  Ordered' /\ Listed'
<1>1. Runs("sendCommands") /\ Framed /\ OneHolder /\ OneCont
  BY DEF SendCommands, Ordered
<1>2. /\ ~Quiet /\ calls \in Seq(Frame) /\ Fits("sendCommands", Under(1))
      /\ Fn(1) = "sendCommands"
      /\ \A x : Runs(x) <=> x = "sendCommands"
      /\ \A x : OnStack(x) <=> x = "sendCommands" \/ Below(x)
      /\ Under(1) # "none" => Below(Under(1))
      /\ Under(1) = "none" <=> Len(calls) = 1
      /\ Len(calls) = 1 => \A x : ~Below(x)
  BY <1>1, Before
<1>3. Under(1) \in {"none", "replyDone", "react", "afterFailure", "clearError", "afterRefusal"}
  BY <1>2 DEF Fits, Resumes, Reading
<1>4. /\ \A x : Below(x)
             => x \in {"replyDone", "readLines", "dtpSettled", "react", "afterFailure",
                       "clearError", "afterRefusal"}
      /\ Below("readLines") \/ Below("dtpSettled") => OnStack("replyDone")
  BY <1>1, <1>2, Before, Belows DEF Ordered, Clearing, AboveRemove, AboveCont, Conts,
     Reading
<1>5. ftp.posted \in Nat /\ ftp'.posted \in Nat
  BY DEF TypeOK, Private
<1>6. CASE pi.todo # <<>>
  <2>1. Then(<<>>)
    BY <1>6 DEF SendCommands, Return, Begin
  <2>2. /\ calls' \in Seq(Frame) /\ Len(calls') = Len(calls) - 1
        /\ \A x : OnStack(x)' <=> Below(x)
        /\ \A x : (Below(x)' => Below(x) /\ Deep(x)) /\ (Deep(x)' => Deep(x))
        /\ \A x : x # "none" => (Runs(x)' <=> Under(1) = x)
    BY <2>1, <1>2, Returns
  <2>3. Quiet' <=> Len(calls') = 0
    BY NotQuiet DEF TypeOK
  <2>4. UNCHANGED <<ftp, pi, dtp, net, hist>>
    BY <1>6 DEF SendCommands
  <2>5. Current' = Current
    BY <2>4 DEF Current
  <2>6. Framed' /\ OneHolder' /\ OneCont' /\ Holding'
    BY <2>1, <1>2, <1>3, <1>4, <2>4, <2>5, <1>6, ReturnsFit DEF Ordered, Fits, Resumes,
       Reading, AboveRemove, AboveCont, Conts, Holders
  <2> USE <1>2, <1>3, <1>4, <1>5, <2>2, <2>3, <2>4, <2>5, <1>6
  <2>7. /\ Clearing' /\ Started' /\ Greeted' /\ Talk' /\ Answered' /\ Replying'
        /\ Progress' /\ Sending' /\ ClosesLast' /\ WaitsForEnd' /\ Connection' /\ FirstConnects'
        /\ Errors'
    BY DEF Ordered, Clearing, Started, Greeted, Talk, Answered, Replying, Progress, Sending,
       ClosesLast, WaitsForEnd, Connection, FirstConnects, Errors, Running, Reading, Silent,
       Open, Ends, Conts, Busy, Held
  <2>8. Listed'
    BY SMTT(30) DEF Ordered, Listed, Suits, ShownAtOnce, Owing, Vouched, Concluded, Listing,
       Complete, Clears, Running
  <2>9. QED
    BY <2>6, <2>7, <2>8 DEF Ordered
<1>7. CASE pi.todo = <<>> /\ (net.link # "open" \/ pi.state # "Idle")
  <2>1. Then(<< <<"piError", "NotConnected">> >>)
    BY <1>7 DEF SendCommands, Return, Begin
  <2>2. <<"piError", "NotConnected">> \in Frame
    BY Frames DEF FtpStates, FtpErrors
  <2>3. /\ calls' \in Seq(Frame) /\ Len(calls') = Len(calls)
        /\ \A x : OnStack(x)' <=> x = "piError" \/ Below(x)
        /\ \A x : Below(x)' <=> Below(x)
        /\ \A x : Deep(x)' <=> Deep(x)
        /\ \A x : Runs(x)' <=> x = "piError"
    BY <2>1, <2>2, <1>2, CallsOne
  <2>4. Quiet' <=> Len(calls') = 0
    BY NotQuiet DEF TypeOK
  <2>5. UNCHANGED <<ftp, pi, dtp, net, hist>>
    BY <1>7 DEF SendCommands
  <2>6. Current' = Current
    BY <2>5 DEF Current
  <2>7. Framed' /\ OneHolder' /\ OneCont' /\ Holding'
    BY <2>1, <2>2, <1>2, <1>3, <1>4, <2>5, <2>6, <1>7, CallsOneFit DEF Ordered, Fits,
       Resumes, Reading, AboveRemove, AboveCont, Conts, Holders
  <2> USE <1>2, <1>3, <1>4, <1>5, <2>3, <2>4, <2>5, <2>6, <1>7
  <2>8. /\ Clearing' /\ Started' /\ Greeted' /\ Talk' /\ Answered' /\ Replying'
        /\ Progress' /\ Sending' /\ ClosesLast' /\ WaitsForEnd' /\ Connection' /\ FirstConnects'
        /\ Errors'
    BY DEF Ordered, Clearing, Started, Greeted, Talk, Answered, Replying, Progress, Sending,
       ClosesLast, WaitsForEnd, Connection, FirstConnects, Errors, Running, Reading, Silent,
       Open, Ends, Conts, Busy, Held
  <2>9. Listed'
    BY DEF Ordered, Listed, Suits, ShownAtOnce, Owing, Vouched, Concluded, Listing,
       Complete, Clears, Running
  <2>10. QED
    BY <2>7, <2>8, <2>9 DEF Ordered
<1>8. CASE pi.todo = <<>> /\ ~(net.link # "open" \/ pi.state # "Idle")
  <2>1. Then(<< <<"startNextCmd">> >>)
    BY <1>8 DEF SendCommands, Return, Begin
  <2>2. <<"startNextCmd">> \in Frame
    BY Frames DEF FtpStates, FtpErrors
  <2>3. /\ calls' \in Seq(Frame) /\ Len(calls') = Len(calls)
        /\ \A x : OnStack(x)' <=> x = "startNextCmd" \/ Below(x)
        /\ \A x : Below(x)' <=> Below(x)
        /\ \A x : Deep(x)' <=> Deep(x)
        /\ \A x : Runs(x)' <=> x = "startNextCmd"
    BY <2>1, <2>2, <1>2, CallsOne
  <2>4. Quiet' <=> Len(calls') = 0
    BY NotQuiet DEF TypeOK
  <2>5. UNCHANGED <<ftp, dtp, net, hist>>
    BY <1>8 DEF SendCommands
  <2>6. /\ pi'.state = pi.state /\ pi'.todo = Arg /\ pi'.cmd = pi.cmd /\ pi'.reply = pi.reply
        /\ pi'.text = pi.text /\ pi'.extended = pi.extended /\ pi'.toConnect = pi.toConnect
        /\ pi'.toClose = pi.toClose
    BY <1>8 DEF SendCommands, TypeOK, Interpreter
  <2>7. Current' = Current
    BY <2>5 DEF Current
  <2>8. pi'.todo = Raw(Current.cmd) /\ hist.current # 0 /\ pi.cmd = "none"
            /\ Current.cmd \in AllCommands
    BY <1>2, <1>3, <1>4, <1>5, <2>3, <2>4, <2>5, <2>6, <2>7, <1>8, CurrentTyped DEF Ordered,
       Sending, Started
  <2>9. pi'.todo \in Rest(pi.cmd) /\ pi'.todo # <<>> /\ dtp.lines = <<>>
    BY <1>2, <1>3, <1>4, <1>5, <2>3, <2>4, <2>5, <2>6, <2>7, <1>8, <2>8, RawNext DEF
       Ordered, Sending
  <2>10. Framed' /\ OneHolder' /\ OneCont' /\ Holding'
    BY <2>1, <2>2, <1>2, <1>3, <1>4, <2>5, <2>6, <2>7, <1>8, <2>8, <2>9, CallsOneFit DEF
       Ordered, Fits, Resumes, Reading, AboveRemove, AboveCont, Conts, Holders
  <2> USE <1>2, <1>3, <1>4, <1>5, <2>3, <2>4, <2>5, <2>6, <2>7, <1>8, <2>8, <2>9
  <2>11. /\ Clearing' /\ Started' /\ Greeted' /\ Talk' /\ Answered' /\ Replying'
         /\ Progress' /\ Sending' /\ ClosesLast' /\ WaitsForEnd' /\ Connection' /\ FirstConnects'
         /\ Errors'
    BY DEF Ordered, Clearing, Started, Greeted, Talk, Answered, Replying, Progress, Sending,
       ClosesLast, WaitsForEnd, Connection, FirstConnects, Errors, Running, Reading, Silent,
       Open, Ends, Conts, Busy, Held
  <2>12. Listed'
    BY DEF Ordered, Listed, Suits, ShownAtOnce, Owing, Vouched, Concluded, Listing,
       Complete, Clears, Running
  <2>13. QED
    BY <2>10, <2>11, <2>12 DEF Ordered
<1>9. QED
  BY <1>6, <1>7, <1>8

\* QFtpPI::startNextCmd(): the order.
LEMMA StartNextCmdOrdered ==
    ASSUME TypeOK, Replied, Ordered, Listed, TypeOK', Replied', ~hist'.overrun, StartNextCmd
    PROVE  Ordered' /\ Listed'
<1>1. Runs("startNextCmd") /\ Framed /\ OneHolder /\ OneCont
  BY DEF StartNextCmd, Ordered
<1>2. /\ ~Quiet /\ calls \in Seq(Frame) /\ Fits("startNextCmd", Under(1))
      /\ Fn(1) = "startNextCmd"
      /\ \A x : Runs(x) <=> x = "startNextCmd"
      /\ \A x : OnStack(x) <=> x = "startNextCmd" \/ Below(x)
      /\ Under(1) # "none" => Below(Under(1))
      /\ Under(1) = "none" <=> Len(calls) = 1
      /\ Len(calls) = 1 => \A x : ~Below(x)
  BY <1>1, Before
<1>3. Under(1) \in {"none", "replyDone", "react", "afterFailure", "clearError", "afterRefusal"}
  BY <1>2 DEF Fits, Resumes, Reading
<1>4. /\ \A x : Below(x)
             => x \in {"replyDone", "readLines", "dtpSettled", "react", "afterFailure",
                       "clearError", "afterRefusal"}
      /\ Below("readLines") \/ Below("dtpSettled") => OnStack("replyDone")
  BY <1>1, <1>2, Before, Belows DEF Ordered, Clearing, AboveRemove, AboveCont, Conts,
     Reading
<1>5. ftp.posted \in Nat /\ ftp'.posted \in Nat
  BY DEF TypeOK, Private
<1>6. CASE ~pi.toConnect /\ pi.todo = <<>>
  <2>1. Then(<< <<"piFinished">> >>)
    BY <1>6 DEF StartNextCmd, Return, Begin
  <2>2. <<"piFinished">> \in Frame
    BY Frames DEF FtpStates, FtpErrors
  <2>3. /\ calls' \in Seq(Frame) /\ Len(calls') = Len(calls)
        /\ \A x : OnStack(x)' <=> x = "piFinished" \/ Below(x)
        /\ \A x : Below(x)' <=> Below(x)
        /\ \A x : Deep(x)' <=> Deep(x)
        /\ \A x : Runs(x)' <=> x = "piFinished"
    BY <2>1, <2>2, <1>2, CallsOne
  <2>4. Quiet' <=> Len(calls') = 0
    BY NotQuiet DEF TypeOK
  <2>5. UNCHANGED <<ftp, dtp, net>>
    BY <1>6 DEF StartNextCmd
  <2>6. /\ pi'.state = pi.state /\ pi'.todo = pi.todo /\ pi'.cmd = "none"
        /\ pi'.reply = pi.reply /\ pi'.text = pi.text /\ pi'.extended = pi.extended
        /\ pi'.toConnect = pi.toConnect /\ pi'.toClose = pi.toClose
    BY <1>6 DEF StartNextCmd, TypeOK, Interpreter
  <2>7. /\ hist'.id = hist.id /\ hist'.current = hist.current /\ hist'.sent = hist.sent
        /\ hist'.dataError = hist.dataError
        /\ hist'.owed = hist.owed /\ hist'.files = hist.files /\ hist'.done = hist.done
    BY <1>6 DEF StartNextCmd, TypeOK, History
  <2>8. Current' = Current
    BY <2>5 DEF Current
  <2>9. pi.state = "Idle"
    BY <1>6 DEF StartNextCmd, TypeOK, History
  <2>10. pi.todo = <<>> /\ <<>> \in Rest("none") /\ <<>> \notin ToTransfer
    BY <1>6, NothingLeft
  <2>11. Framed' /\ OneHolder' /\ OneCont' /\ Holding'
    BY <2>1, <2>2, <1>2, <1>3, <1>4, <2>5, <2>6, <2>7, <2>8, <1>6, <2>9, <2>10, CallsOneFit
       DEF Ordered, Fits, Resumes, Reading, AboveRemove, AboveCont, Conts, Holders
  <2> USE <1>2, <1>3, <1>4, <1>5, <2>3, <2>4, <2>5, <2>6, <2>7, <2>8, <1>6, <2>9, <2>10
  <2>12. /\ Clearing' /\ Started' /\ Greeted' /\ Talk' /\ Answered' /\ Replying'
         /\ Progress' /\ Sending' /\ ClosesLast' /\ WaitsForEnd' /\ Connection' /\ FirstConnects'
         /\ Errors'
    BY DEF Ordered, Clearing, Started, Greeted, Talk, Answered, Replying, Progress, Sending,
       ClosesLast, WaitsForEnd, Connection, FirstConnects, Errors, Running, Reading, Silent,
       Open, Ends, Conts, Busy, Held
  <2>13. Listed'
    BY DEF Ordered, Listed, Suits, ShownAtOnce, Owing, Vouched, Concluded, Listing,
       Complete, Clears, Running
  <2>14. QED
    BY <2>11, <2>12, <2>13 DEF Ordered
<1>7. CASE pi.toConnect
  <2>1. Then(<<>>)
    BY <1>7 DEF StartNextCmd, Return, Begin
  <2>2. /\ calls' \in Seq(Frame) /\ Len(calls') = Len(calls) - 1
        /\ \A x : OnStack(x)' <=> Below(x)
        /\ \A x : (Below(x)' => Below(x) /\ Deep(x)) /\ (Deep(x)' => Deep(x))
        /\ \A x : x # "none" => (Runs(x)' <=> Under(1) = x)
    BY <2>1, <1>2, Returns
  <2>3. Quiet' <=> Len(calls') = 0
    BY NotQuiet DEF TypeOK
  <2>4. UNCHANGED <<ftp, pi, dtp, net, hist>>
    BY <1>7 DEF StartNextCmd
  <2>5. Current' = Current
    BY <2>4 DEF Current
  <2>6. Framed' /\ OneHolder' /\ OneCont' /\ Holding'
    BY <2>1, <1>2, <1>3, <1>4, <2>4, <2>5, <1>7, ReturnsFit DEF Ordered, Fits, Resumes,
       Reading, AboveRemove, AboveCont, Conts, Holders
  <2> USE <1>2, <1>3, <1>4, <1>5, <2>2, <2>3, <2>4, <2>5, <1>7
  <2>7. /\ Clearing' /\ Started' /\ Greeted' /\ Talk' /\ Answered' /\ Replying'
        /\ Progress'
    BY DEF Ordered, Clearing, Started, Greeted, Talk, Answered, Replying, Progress, Running,
       Reading, Silent, Open
  <2>8. Sending' /\ ClosesLast' /\ WaitsForEnd' /\ Connection' /\ FirstConnects' /\ Errors'
    BY SMTT(30) DEF Ordered, Sending, ClosesLast, WaitsForEnd, Connection,
       FirstConnects, Errors,
       Running, Ends, Conts, Busy, Held, Silent, Open
  <2>9. Listed'
    BY SMTT(30) DEF Ordered, Listed, Suits, ShownAtOnce, Owing, Vouched, Concluded, Listing,
       Complete, Clears, Running
  <2>10. QED
    BY <2>6, <2>7, <2>8, <2>9 DEF Ordered
<1>8. CASE ~pi.toConnect /\ pi.todo # <<>>
  <2>1. Then(<<>>)
    BY <1>8 DEF StartNextCmd, Return, Begin
  <2>2. /\ calls' \in Seq(Frame) /\ Len(calls') = Len(calls) - 1
        /\ \A x : OnStack(x)' <=> Below(x)
        /\ \A x : (Below(x)' => Below(x) /\ Deep(x)) /\ (Deep(x)' => Deep(x))
        /\ \A x : x # "none" => (Runs(x)' <=> Under(1) = x)
    BY <2>1, <1>2, Returns
  <2>3. Quiet' <=> Len(calls') = 0
    BY NotQuiet DEF TypeOK
  <2>4. UNCHANGED <<ftp, dtp>>
    BY <1>8 DEF StartNextCmd
  <2>5. /\ pi'.state = "Waiting" /\ pi'.todo = Tail(pi.todo) /\ pi'.cmd = NextCmd
        /\ pi'.reply = pi.reply /\ pi'.text = pi.text /\ pi'.extended = pi.extended
        /\ pi'.toConnect = pi.toConnect /\ pi'.toClose = pi.toClose
    BY <1>8 DEF StartNextCmd, TypeOK, Interpreter
  <2>6. /\ net'.link = net.link
        /\ net'.outbox = Append(net.outbox, [cmd |-> NextCmd, to |-> hist.sent + 1])
        /\ net'.wire = net.wire /\ net'.buffer = net.buffer /\ net'.port = net.port
        /\ net'.data = net.data /\ net'.fin = net.fin /\ net'.quit = net.quit
    BY <1>8 DEF StartNextCmd, TypeOK, Connections
  <2>7. /\ hist'.id = hist.id /\ hist'.current = hist.current /\ hist'.sent = hist.sent + 1
        /\ hist'.dataError = hist.dataError
        /\ hist'.owed = hist.owed /\ hist'.files = hist.files /\ hist'.done = hist.done
    BY <1>8 DEF StartNextCmd, TypeOK, History
  <2>8. Current' = Current
    BY <2>4 DEF Current
  <2>9. pi.state = "Idle"
    BY <1>8 DEF StartNextCmd, TypeOK, History
  <2>10. /\ pi.todo # <<>> /\ pi.todo \in Rest(pi.cmd) /\ hist.current # 0 /\ dtp.lines = <<>>
         /\ net.outbox = <<>> /\ net.wire = <<>> /\ net.buffer = <<>>
    BY <1>2, <1>3, <1>4, <1>5, <2>2, <2>3, <2>4, <2>5, <2>6, <2>7, <2>8, <1>8, <2>9 DEF
       Ordered, Progress, Talk, Silent
  <2>11. /\ NextCmd \in RawCommands /\ NextCmd # "none"
         /\ Tail(pi.todo) \in Rest(NextCmd)
         /\ NextCmd = "EPSV" => Tail(pi.todo) \in ToTransfer
         /\ NextCmd \in {"LIST", "RETR"} =>
               Tail(pi.todo) = <<>> /\ pi.todo \in ToTransfer /\ pi.cmd \in {"PASV", "EPSV"}
         /\ pi.todo \in ToTransfer => NextCmd \in {"LIST", "RETR"}
    BY <1>2, <1>3, <1>4, <1>5, <2>2, <2>3, <2>4, <2>5, <2>6, <2>7, <2>8, <1>8, <2>9, <2>10,
       RestNext, NothingLeft DEF TypeOK, Interpreter
  <2>12. /\ Len(net'.outbox) = 1 /\ net'.outbox # <<>>
         /\ net'.outbox[1].to = hist'.sent /\ net'.outbox[1].cmd = pi'.cmd
    BY <1>2, <1>3, <1>4, <1>5, <2>2, <2>3, <2>4, <2>5, <2>6, <2>7, <2>8, <1>8, <2>9, <2>10,
       <2>11, AddedOne
  <2>13. ~Missing(dtp.lines) /\ (net.data = <<>> => ~Missing(net.data))
    BY <1>2, <1>3, <1>4, <1>5, <2>2, <2>3, <2>4, <2>5, <2>6, <2>7, <2>8, <1>8, <2>9, <2>10,
       <2>11, <2>12, NoneMissing
  <2>14. Framed' /\ OneHolder' /\ OneCont' /\ Holding'
    BY <2>1, <1>2, <1>3, <1>4, <2>4, <2>5, <2>6, <2>7, <2>8, <2>9, <2>10, <2>11, <2>12,
       <2>13, ReturnsFit DEF Ordered, Fits, Resumes, Reading, AboveRemove, AboveCont, Conts,
       Holders
  <2> USE <1>2, <1>3, <1>4, <1>5, <2>2, <2>3, <2>4, <2>5, <2>6, <2>7, <2>8, <1>8, <2>9,
          <2>10, <2>11, <2>12, <2>13
  <2>15. Clearing' /\ Started'
    <3>1. Clearing'
      BY DEF Ordered, Clearing, Running, Reading, Silent, Open
    <3>2. Started'
      BY DEF Ordered, Started
    <3>3. QED  BY <3>1, <3>2
  <2>16. Greeted' /\ Talk'
    BY DEF Ordered, Greeted, Talk, Silent
  <2>17. Answered' /\ Replying' /\ Progress'
    BY DEF Ordered, Answered, Replying, Progress, Silent
  <2>18. Sending'
    BY SMTT(30) DEF Ordered, Sending, Running, Ends, Conts
  <2>19. ClosesLast'
    BY DEF Ordered, ClosesLast, Busy
  <2>20. WaitsForEnd'
    BY DEF Ordered, WaitsForEnd, Held, Silent, Open
  <2>21. Connection'
    BY SMTT(30) DEF Ordered, Connection, Open, Running
  <2>22. FirstConnects'
    BY DEF Ordered, FirstConnects
  <2>23. Errors'
    BY DEF Ordered, Started, Talk, Connection, Errors, Silent, Open, Running
  <2>24. Suits'
    BY ZenonT(30), SuitsNext DEF Ordered, Listed, Suits, Listing, NextCmd
  <2>25. ShownAtOnce'
    BY DEF Ordered, Listed, ShownAtOnce
  <2>26. Owing'
    <3>1. ~Runs("sendCommands")' /\ ~Runs("listInfo")'
      BY SMTT(30) DEF Resumes
    <3>2. Listing' => Listing /\ hist'.owed = 0 /\ hist'.files = 0
      BY DEF Listed, Owing, Listing
    <3>3. pi'.cmd = "LIST" => net'.data = <<>> /\ dtp'.lines = <<>>
      BY DEF Ordered, Connection
    <3>4. QED  BY <3>1, <3>2, <3>3, CountedNone DEF Owing
  <2>27. Vouched'
    BY SMTT(30) DEF Ordered, Listed, Vouched, Listing, WaitsForEnd, Held
  <2>28. Concluded'
    BY DEF Ordered, Listed, Concluded, Complete, Clears, Listing, Running
  <2>29. Listed'
    BY <2>24, <2>25, <2>26, <2>27, <2>28 DEF Listed
  <2>30. QED
    BY <2>14, <2>15, <2>16, <2>17, <2>18, <2>19, <2>20, <2>21, <2>22, <2>23, <2>29 DEF Ordered
<1>9. QED
  BY <1>6, <1>7, <1>8

\* QFtpPI::clearPendingCommands(): the order.
LEMMA ClearPendingCommandsOrdered ==
    ASSUME TypeOK, Replied, Ordered, Listed, TypeOK', Replied', ~hist'.overrun, ClearPendingCommands
    PROVE  Ordered' /\ Listed'
<1>1. Runs("clearPendingCommands") /\ Framed /\ OneHolder /\ OneCont
  BY DEF ClearPendingCommands, Ordered
<1>2. /\ ~Quiet /\ calls \in Seq(Frame) /\ Fits("clearPendingCommands", Under(1))
      /\ Fn(1) = "clearPendingCommands"
      /\ \A x : Runs(x) <=> x = "clearPendingCommands"
      /\ \A x : OnStack(x) <=> x = "clearPendingCommands" \/ Below(x)
      /\ Under(1) # "none" => Below(Under(1))
      /\ Under(1) = "none" <=> Len(calls) = 1
      /\ Len(calls) = 1 => \A x : ~Below(x)
  BY <1>1, Before
<1>3. Under(1) \in {"commandFailed"}
  BY <1>2 DEF Fits, Resumes, Reading
<1>4. /\ \A x : Below(x)
             => x \in {"replyDone", "readLines", "dtpSettled", "removeFirst", "commandFailed",
                       "pendingCleared", "react", "afterFailure", "clearError", "afterRefusal"}
      /\ Below("readLines") \/ Below("dtpSettled") => OnStack("replyDone")
      /\ Below("commandFailed") \/ Below("pendingCleared") => Below("removeFirst")
  BY <1>1, <1>2, Before, Belows DEF Ordered, Clearing, AboveRemove, AboveCont, Conts,
     Reading
<1>5. ftp.posted \in Nat /\ ftp'.posted \in Nat
  BY DEF TypeOK, Private
<1>6. CASE dtp.state = "connected"
  <2>1. << <<"dtpClosed">> >> \o << <<"pendingCleared">> >> = << <<"dtpClosed">>,
            <<"pendingCleared">> >>
    BY Zenon, Frames, JoinTwo
  <2>2. Then(<< <<"dtpClosed">>, <<"pendingCleared">> >>)
    BY <1>6, <2>1 DEF ClearPendingCommands
  <2>3. <<"dtpClosed">> \in Frame /\ <<"pendingCleared">> \in Frame
    BY Frames DEF FtpStates, FtpErrors
  <2>4. /\ calls' \in Seq(Frame) /\ Len(calls') = Len(calls) + 1
        /\ \A x : OnStack(x)' <=> x \in {"dtpClosed", "pendingCleared"} \/ Below(x)
        /\ \A x : Below(x)' <=> x = "pendingCleared" \/ Below(x)
        /\ \A x : Deep(x)' <=> Below(x)
        /\ \A x : Runs(x)' <=> x = "dtpClosed"
    BY <2>2, <2>3, <1>2, CallsTwo
  <2>5. Quiet' <=> Len(calls') = 0
    BY NotQuiet DEF TypeOK
  <2>6. UNCHANGED <<ftp, hist>>
    BY <1>6 DEF ClearPendingCommands
  <2>7. /\ pi'.state = pi.state /\ pi'.todo = <<>> /\ pi'.cmd = pi.cmd /\ pi'.reply = pi.reply
        /\ pi'.text = pi.text /\ pi'.extended = pi.extended /\ pi'.toConnect = pi.toConnect
        /\ pi'.toClose = pi.toClose
    BY <1>6 DEF ClearPendingCommands, TypeOK, Interpreter
  <2>8. dtp'.state = "closed" /\ dtp'.lines = <<>> /\ dtp'.err = dtp.err
    BY <1>6 DEF ClearPendingCommands, TypeOK, DataConnection
  <2>9. /\ net'.link = net.link /\ net'.outbox = net.outbox /\ net'.wire = net.wire
        /\ net'.buffer = net.buffer /\ net'.port = FALSE /\ net'.data = <<>>
        /\ net'.fin = FALSE /\ net'.quit = net.quit
    BY <1>6 DEF ClearPendingCommands, TypeOK, Connections
  <2>10. Current' = Current
    BY <2>6 DEF Current
  <2>11. ~Missing(dtp'.lines) /\ ~Missing(net'.data)
    BY <1>2, <1>3, <1>4, <1>5, <2>4, <2>5, <2>6, <2>7, <2>8, <2>9, <2>10, <1>6, NoneMissing
  <2>12. pi.cmd = "EPSV" => pi.state = "Idle" \/ (pi.state = "Failure" /\ Below("afterFailure"))
    BY <1>2, <1>3, <1>4, <1>5, <2>4, <2>5, <2>6, <2>7, <2>8, <2>9, <2>10, <1>6, <2>11 DEF
       Ordered, Clearing, Greeted, TypeOK, Interpreter
  <2>13. Framed' /\ OneHolder' /\ OneCont' /\ Holding'
    BY <2>2, <2>3, <1>2, <1>3, <1>4, <2>6, <2>7, <2>8, <2>9, <2>10, <2>11, <2>12,
       CallsTwoFit DEF Ordered, Fits, Resumes, Reading, AboveRemove, AboveCont, Conts,
       Holders
  <2> USE <1>2, <1>3, <1>4, <1>5, <2>4, <2>5, <2>6, <2>7, <2>8, <2>9, <2>10, <1>6, <2>11,
          <2>12
  <2>14. /\ Clearing' /\ Started' /\ Greeted' /\ Talk' /\ Answered' /\ Replying'
         /\ Progress' /\ Sending' /\ ClosesLast' /\ WaitsForEnd' /\ Connection' /\ FirstConnects'
         /\ Errors'
    BY DEF Ordered, Clearing, Started, Greeted, Talk, Answered, Replying, Progress, Sending,
       ClosesLast, WaitsForEnd, Connection, FirstConnects, Errors, Running, Reading, Silent,
       Open, Ends, Conts, Busy, Held
  <2>15. Suits'
    BY DEF Ordered, Listed, Suits, Listing
  <2>16. ShownAtOnce'
    BY DEF Ordered, Listed, ShownAtOnce
  <2>17. Owing'
    BY DEF Ordered, Listed, Owing, Listing, Clearing
  <2>18. Vouched'
    BY DEF Ordered, Listed, Vouched, Listing
  <2>19. Concluded'
    BY DEF Ordered, Listed, Concluded, Complete, Clears, Listing, Running, Clearing
  <2>20. Listed'
    BY <2>15, <2>16, <2>17, <2>18, <2>19 DEF Listed
  <2>21. QED
    BY <2>13, <2>14, <2>20 DEF Ordered
<1>7. CASE dtp.state # "connected"
  <2>1. Then(<< <<"pendingCleared">> >>)
    BY <1>7 DEF ClearPendingCommands, Return, Begin
  <2>2. <<"pendingCleared">> \in Frame
    BY Frames DEF FtpStates, FtpErrors
  <2>3. /\ calls' \in Seq(Frame) /\ Len(calls') = Len(calls)
        /\ \A x : OnStack(x)' <=> x = "pendingCleared" \/ Below(x)
        /\ \A x : Below(x)' <=> Below(x)
        /\ \A x : Deep(x)' <=> Deep(x)
        /\ \A x : Runs(x)' <=> x = "pendingCleared"
    BY <2>1, <2>2, <1>2, CallsOne
  <2>4. Quiet' <=> Len(calls') = 0
    BY NotQuiet DEF TypeOK
  <2>5. UNCHANGED <<ftp, hist>>
    BY <1>7 DEF ClearPendingCommands
  <2>6. /\ pi'.state = pi.state /\ pi'.todo = <<>> /\ pi'.cmd = pi.cmd /\ pi'.reply = pi.reply
        /\ pi'.text = pi.text /\ pi'.extended = pi.extended /\ pi'.toConnect = pi.toConnect
        /\ pi'.toClose = pi.toClose
    BY <1>7 DEF ClearPendingCommands, TypeOK, Interpreter
  <2>7. /\ dtp'.state = (IF dtp.state = "none" THEN "none" ELSE "closed") /\ dtp'.lines = <<>>
        /\ dtp'.err = dtp.err
    BY <1>7 DEF ClearPendingCommands, TypeOK, DataConnection
  <2>8. /\ net'.link = net.link /\ net'.outbox = net.outbox /\ net'.wire = net.wire
        /\ net'.buffer = net.buffer /\ net'.port = FALSE /\ net'.data = <<>>
        /\ net'.fin = FALSE /\ net'.quit = net.quit
    BY <1>7 DEF ClearPendingCommands, TypeOK, Connections
  <2>9. Current' = Current
    BY <2>5 DEF Current
  <2>10. ~Missing(dtp'.lines) /\ ~Missing(net'.data)
    BY <1>2, <1>3, <1>4, <1>5, <2>3, <2>4, <2>5, <2>6, <2>7, <2>8, <2>9, <1>7, NoneMissing
  <2>11. pi.cmd = "EPSV" => pi.state = "Idle" \/ (pi.state = "Failure" /\ Below("afterFailure"))
    BY <1>2, <1>3, <1>4, <1>5, <2>3, <2>4, <2>5, <2>6, <2>7, <2>8, <2>9, <1>7, <2>10 DEF
       Ordered, Clearing, Greeted, TypeOK, Interpreter
  <2>12. Framed' /\ OneHolder' /\ OneCont' /\ Holding'
    BY <2>1, <2>2, <1>2, <1>3, <1>4, <2>5, <2>6, <2>7, <2>8, <2>9, <2>10, <2>11, CallsOneFit
       DEF Ordered, Fits, Resumes, Reading, AboveRemove, AboveCont, Conts, Holders
  <2> USE <1>2, <1>3, <1>4, <1>5, <2>3, <2>4, <2>5, <2>6, <2>7, <2>8, <2>9, <1>7, <2>10,
          <2>11
  <2>13. /\ Clearing' /\ Started' /\ Greeted' /\ Talk' /\ Answered' /\ Replying'
         /\ Progress' /\ Sending' /\ ClosesLast' /\ WaitsForEnd' /\ Connection' /\ FirstConnects'
         /\ Errors'
    BY DEF Ordered, Clearing, Started, Greeted, Talk, Answered, Replying, Progress, Sending,
       ClosesLast, WaitsForEnd, Connection, FirstConnects, Errors, Running, Reading, Silent,
       Open, Ends, Conts, Busy, Held
  <2>14. Suits'
    BY DEF Ordered, Listed, Suits, Listing
  <2>15. ShownAtOnce'
    BY DEF Ordered, Listed, ShownAtOnce
  <2>16. Owing'
    BY DEF Ordered, Listed, Owing, Listing, Clearing
  <2>17. Vouched'
    BY DEF Ordered, Listed, Vouched, Listing
  <2>18. Concluded'
    BY DEF Ordered, Listed, Concluded, Complete, Clears, Listing, Running, Clearing
  <2>19. Listed'
    BY <2>14, <2>15, <2>16, <2>17, <2>18 DEF Listed
  <2>20. QED
    BY <2>12, <2>13, <2>19 DEF Ordered
<1>8. QED
  BY <1>6, <1>7

\* The end of clearPendingCommands(): the order.
LEMMA PendingClearedOrdered ==
    ASSUME TypeOK, Replied, Ordered, Listed, TypeOK', Replied', ~hist'.overrun, PendingCleared
    PROVE  Ordered' /\ Listed'
<1>1. Runs("pendingCleared") /\ Framed /\ OneHolder /\ OneCont
  BY DEF PendingCleared, Ordered
<1>2. /\ ~Quiet /\ calls \in Seq(Frame) /\ Fits("pendingCleared", Under(1))
      /\ Fn(1) = "pendingCleared"
      /\ \A x : Runs(x) <=> x = "pendingCleared"
      /\ \A x : OnStack(x) <=> x = "pendingCleared" \/ Below(x)
      /\ Under(1) # "none" => Below(Under(1))
      /\ Under(1) = "none" <=> Len(calls) = 1
      /\ Len(calls) = 1 => \A x : ~Below(x)
  BY <1>1, Before
<1>3. Under(1) \in {"commandFailed"}
  BY <1>2 DEF Fits, Resumes, Reading
<1>4. /\ \A x : Below(x)
             => x \in {"replyDone", "readLines", "dtpSettled", "removeFirst", "commandFailed",
                       "pendingCleared", "react", "afterFailure", "clearError", "afterRefusal"}
      /\ Below("readLines") \/ Below("dtpSettled") => OnStack("replyDone")
      /\ Below("commandFailed") \/ Below("pendingCleared") => Below("removeFirst")
  BY <1>1, <1>2, Before, Belows DEF Ordered, Clearing, AboveRemove, AboveCont, Conts,
     Reading
<1>5. ftp.posted \in Nat /\ ftp'.posted \in Nat
  BY DEF TypeOK, Private
<1>6. Then(<<>>)
  BY DEF PendingCleared, Return, Begin
<1>7. /\ calls' \in Seq(Frame) /\ Len(calls') = Len(calls) - 1
      /\ \A x : OnStack(x)' <=> Below(x)
      /\ \A x : (Below(x)' => Below(x) /\ Deep(x)) /\ (Deep(x)' => Deep(x))
      /\ \A x : x # "none" => (Runs(x)' <=> Under(1) = x)
  BY <1>6, <1>2, Returns
<1>8. Quiet' <=> Len(calls') = 0
  BY NotQuiet DEF TypeOK
<1>9. UNCHANGED <<dtp, net, hist>>
  BY DEF PendingCleared
<1>10. /\ pi'.state = "Idle" /\ pi'.todo = pi.todo /\ pi'.cmd = "none" /\ pi'.reply = pi.reply
       /\ pi'.text = pi.text /\ pi'.extended = pi.extended /\ pi'.toConnect = pi.toConnect
       /\ pi'.toClose = pi.toClose
  BY DEF PendingCleared, TypeOK, Interpreter
<1>11. /\ ftp'.pending = (IF ftp.pending = <<>> THEN ftp.pending ELSE <<Head(ftp.pending)>>)
       /\ ftp'.state = ftp.state /\ ftp'.error = ftp.error /\ ftp'.closeWait = ftp.closeWait
       /\ ftp'.posted = ftp.posted
  BY DEF PendingCleared, TypeOK, Private
<1>12. /\ ftp'.pending = <<>> <=> ftp.pending = <<>>
       /\ ftp.pending # <<>> => Current' = Current
       /\ \A i \in 2 .. Len(ftp'.pending) : FALSE
  BY <1>2, <1>3, <1>4, <1>5, <1>7, <1>8, <1>9, <1>10, <1>11, KeptOne, CurrentTyped DEF
     Current
<1>13. <<>> \in Rest("none") /\ <<>> \notin ToTransfer
  BY NothingLeft
<1>14. pi.todo = <<>> /\ Under(1) = "commandFailed" /\ \A x : Runs(x)' /\ x # "none"
           => x = "commandFailed"
  BY <1>2, <1>3, <1>4, <1>5, <1>7, <1>8, <1>9, <1>10, <1>11, <1>12, <1>13 DEF Ordered,
     Progress
<1>15. Framed' /\ OneHolder' /\ OneCont' /\ Holding'
  BY <1>6, <1>2, <1>3, <1>4, <1>9, <1>10, <1>11, <1>12, <1>13, <1>14, ReturnsFit DEF
     Ordered, Fits, Resumes, Reading, AboveRemove, AboveCont, Conts, Holders
<1> USE <1>2, <1>3, <1>4, <1>5, <1>7, <1>8, <1>9, <1>10, <1>11, <1>12, <1>13, <1>14
<1>16. Clearing' /\ Started' /\ Greeted' /\ Talk'
  BY DEF Ordered, Clearing, Started, Greeted, Talk, Running, Reading, Silent, Open
<1>17. Answered' /\ Replying' /\ Progress'
  BY SMTT(30) DEF Ordered, Answered, Replying, Progress, Silent
<1>18. Sending' /\ ClosesLast'
  BY DEF Ordered, Sending, ClosesLast, Running, Ends, Conts, Busy
<1>19. WaitsForEnd'
  BY DEF Ordered, Clearing, Talk, Replying, WaitsForEnd, Running, Reading, Silent, Open,
     Held
<1>20. Connection'
  BY DEF Ordered, Clearing, Talk, Replying, WaitsForEnd, Connection, Running, Reading,
     Silent, Open, Held
<1>21. FirstConnects'
  BY DEF Ordered, FirstConnects
<1>22. Errors'
  BY DEF Ordered, Errors, Running
<1>23. Suits'
  BY DEF Ordered, Listed, Suits, Listing, ClosesLast, Busy, Started
<1>24. ShownAtOnce'
  BY DEF Ordered, Listed, ShownAtOnce
<1>25. Owing'
  BY DEF Ordered, Listed, Owing, Listing
<1>26. Vouched'
  BY DEF Ordered, Listed, Vouched, Listing
<1>27. Concluded'
  BY DEF Ordered, Listed, Concluded, Complete, Clears, Listing, Running
<1>28. Listed'
  BY <1>23, <1>24, <1>25, <1>26, <1>27 DEF Listed
<1>29. QED
  BY <1>15, <1>16, <1>17, <1>18, <1>19, <1>20, <1>21, <1>22, <1>28 DEF Ordered

\* QFtpPI::readyRead(): the order.
LEMMA ReadyReadOrdered ==
    ASSUME TypeOK, Replied, Ordered, Listed, TypeOK', Replied', ~hist'.overrun, ReadyRead
    PROVE  Ordered' /\ Listed'
<1>1. Runs("readyRead") /\ Framed /\ OneHolder /\ OneCont
  BY DEF ReadyRead, Ordered
<1>2. /\ ~Quiet /\ calls \in Seq(Frame) /\ Fits("readyRead", Under(1))
      /\ Fn(1) = "readyRead"
      /\ \A x : Runs(x) <=> x = "readyRead"
      /\ \A x : OnStack(x) <=> x = "readyRead" \/ Below(x)
      /\ Under(1) # "none" => Below(Under(1))
      /\ Under(1) = "none" <=> Len(calls) = 1
      /\ Len(calls) = 1 => \A x : ~Below(x)
  BY <1>1, Before
<1>3. Under(1) \in {"none", "pendingCleared"}
  BY <1>2 DEF Fits, Resumes, Reading
<1>4. /\ \A x : Below(x)
             => x \in {"replyDone", "readLines", "dtpSettled", "removeFirst", "commandFailed",
                       "pendingCleared", "react", "afterFailure", "clearError", "afterRefusal"}
      /\ Below("readLines") \/ Below("dtpSettled") => OnStack("replyDone")
      /\ Below("commandFailed") \/ Below("pendingCleared") => Below("removeFirst")
  BY <1>1, <1>2, Before, Belows DEF Ordered, Clearing, AboveRemove, AboveCont, Conts,
     Reading
<1>5. ftp.posted \in Nat /\ ftp'.posted \in Nat
  BY DEF TypeOK, Private
<1>6. CASE pi.toClose
  <2>1. Then(<<>>)
    BY <1>6 DEF ReadyRead, Return, Begin
  <2>2. /\ calls' \in Seq(Frame) /\ Len(calls') = Len(calls) - 1
        /\ \A x : OnStack(x)' <=> Below(x)
        /\ \A x : (Below(x)' => Below(x) /\ Deep(x)) /\ (Deep(x)' => Deep(x))
        /\ \A x : x # "none" => (Runs(x)' <=> Under(1) = x)
    BY <2>1, <1>2, Returns
  <2>3. Quiet' <=> Len(calls') = 0
    BY NotQuiet DEF TypeOK
  <2>4. UNCHANGED <<ftp, pi, dtp, net, hist>>
    BY <1>6 DEF ReadyRead
  <2>5. Current' = Current
    BY <2>4 DEF Current
  <2>6. Framed' /\ OneHolder' /\ OneCont' /\ Holding'
    BY <2>1, <1>2, <1>3, <1>4, <2>4, <2>5, <1>6, ReturnsFit DEF Ordered, Fits, Resumes,
       Reading, AboveRemove, AboveCont, Conts, Holders
  <2> USE <1>2, <1>3, <1>4, <1>5, <2>2, <2>3, <2>4, <2>5, <1>6
  <2>7. /\ Clearing' /\ Started' /\ Greeted' /\ Talk' /\ Answered' /\ Replying'
        /\ Progress' /\ Sending' /\ ClosesLast' /\ WaitsForEnd' /\ Connection' /\ FirstConnects'
        /\ Errors'
    BY DEF Ordered, Clearing, Started, Greeted, Talk, Answered, Replying, Progress, Sending,
       ClosesLast, WaitsForEnd, Connection, FirstConnects, Errors, Running, Reading, Silent,
       Open, Ends, Conts, Busy, Held
  <2>8. Listed'
    BY SMTT(30) DEF Ordered, Listed, Suits, ShownAtOnce, Owing, Vouched, Concluded, Listing,
       Complete, Clears, Running
  <2>9. QED
    BY <2>6, <2>7, <2>8 DEF Ordered
<1>7. CASE ~pi.toClose
  <2>1. Then(<< <<"readLines">> >>)
    BY <1>7 DEF ReadyRead, Return, Begin
  <2>2. <<"readLines">> \in Frame
    BY Frames DEF FtpStates, FtpErrors
  <2>3. /\ calls' \in Seq(Frame) /\ Len(calls') = Len(calls)
        /\ \A x : OnStack(x)' <=> x = "readLines" \/ Below(x)
        /\ \A x : Below(x)' <=> Below(x)
        /\ \A x : Deep(x)' <=> Deep(x)
        /\ \A x : Runs(x)' <=> x = "readLines"
    BY <2>1, <2>2, <1>2, CallsOne
  <2>4. Quiet' <=> Len(calls') = 0
    BY NotQuiet DEF TypeOK
  <2>5. UNCHANGED <<ftp, pi, dtp, net, hist>>
    BY <1>7 DEF ReadyRead
  <2>6. Current' = Current
    BY <2>5 DEF Current
  <2>7. Framed' /\ OneHolder' /\ OneCont' /\ Holding'
    BY <2>1, <2>2, <1>2, <1>3, <1>4, <2>5, <2>6, <1>7, CallsOneFit DEF Ordered, Fits,
       Resumes, Reading, AboveRemove, AboveCont, Conts, Holders
  <2> USE <1>2, <1>3, <1>4, <1>5, <2>3, <2>4, <2>5, <2>6, <1>7
  <2>8. /\ Clearing' /\ Started' /\ Greeted' /\ Talk' /\ Answered' /\ Replying'
        /\ Progress' /\ Sending' /\ ClosesLast' /\ WaitsForEnd' /\ Connection' /\ FirstConnects'
        /\ Errors'
    BY DEF Ordered, Clearing, Started, Greeted, Talk, Answered, Replying, Progress, Sending,
       ClosesLast, WaitsForEnd, Connection, FirstConnects, Errors, Running, Reading, Silent,
       Open, Ends, Conts, Busy, Held
  <2>9. Listed'
    BY DEF Ordered, Listed, Suits, ShownAtOnce, Owing, Vouched, Concluded, Listing,
       Complete, Clears, Running
  <2>10. QED
    BY <2>7, <2>8, <2>9 DEF Ordered
<1>8. QED
  BY <1>6, <1>7

\* A line of a reply is read: the order.
LEMMA ReadLinesOrdered ==
    ASSUME TypeOK, Replied, Ordered, Listed, TypeOK', Replied', ~hist'.overrun, ReadLines
    PROVE  Ordered' /\ Listed'
<1>1. Runs("readLines") /\ Framed /\ OneHolder /\ OneCont
  BY DEF ReadLines, Ordered
<1>2. /\ ~Quiet /\ calls \in Seq(Frame) /\ Fits("readLines", Under(1))
      /\ Fn(1) = "readLines"
      /\ \A x : Runs(x) <=> x = "readLines"
      /\ \A x : OnStack(x) <=> x = "readLines" \/ Below(x)
      /\ Under(1) # "none" => Below(Under(1))
      /\ Under(1) = "none" <=> Len(calls) = 1
      /\ Len(calls) = 1 => \A x : ~Below(x)
  BY <1>1, Before
<1>3. Under(1) \in {"none", "pendingCleared"}
  BY <1>2 DEF Fits, Resumes, Reading
<1>4. /\ \A x : Below(x)
             => x \in {"replyDone", "readLines", "dtpSettled", "removeFirst", "commandFailed",
                       "pendingCleared", "react", "afterFailure", "clearError", "afterRefusal"}
      /\ Below("readLines") \/ Below("dtpSettled") => OnStack("replyDone")
      /\ Below("commandFailed") \/ Below("pendingCleared") => Below("removeFirst")
  BY <1>1, <1>2, Before, Belows DEF Ordered, Clearing, AboveRemove, AboveCont, Conts,
     Reading
<1>5. ftp.posted \in Nat /\ ftp'.posted \in Nat
  BY DEF TypeOK, Private
<1>6. CASE net.buffer = <<>>
  <2>1. Then(<<>>)
    BY <1>6 DEF ReadLines, Return, Begin
  <2>2. /\ calls' \in Seq(Frame) /\ Len(calls') = Len(calls) - 1
        /\ \A x : OnStack(x)' <=> Below(x)
        /\ \A x : (Below(x)' => Below(x) /\ Deep(x)) /\ (Deep(x)' => Deep(x))
        /\ \A x : x # "none" => (Runs(x)' <=> Under(1) = x)
    BY <2>1, <1>2, Returns
  <2>3. Quiet' <=> Len(calls') = 0
    BY NotQuiet DEF TypeOK
  <2>4. UNCHANGED <<ftp, pi, dtp, net, hist>>
    BY <1>6 DEF ReadLines
  <2>5. Current' = Current
    BY <2>4 DEF Current
  <2>6. Framed' /\ OneHolder' /\ OneCont' /\ Holding'
    BY <2>1, <1>2, <1>3, <1>4, <2>4, <2>5, <1>6, ReturnsFit DEF Ordered, Fits, Resumes,
       Reading, AboveRemove, AboveCont, Conts, Holders
  <2> USE <1>2, <1>3, <1>4, <1>5, <2>2, <2>3, <2>4, <2>5, <1>6
  <2>7. /\ Clearing' /\ Started' /\ Greeted' /\ Talk' /\ Answered' /\ Replying'
        /\ Progress'
    BY DEF Ordered, Clearing, Started, Greeted, Talk, Answered, Replying, Progress, Running,
       Reading, Silent, Open
  <2>8. Sending' /\ ClosesLast' /\ WaitsForEnd'
    BY SMTT(30) DEF Ordered, Sending, ClosesLast, WaitsForEnd, Running, Ends, Conts, Busy, Held,
       Silent, Open
  <2>9. Connection' /\ FirstConnects' /\ Errors'
    BY DEF Ordered, Connection, FirstConnects, Errors, Open, Running
  <2>10. Listed'
    BY DEF Ordered, Listed, Suits, ShownAtOnce, Owing, Vouched, Concluded, Listing,
       Complete, Clears, Running
  <2>11. QED
    BY <2>6, <2>7, <2>8, <2>9, <2>10 DEF Ordered
<1>7. CASE net.buffer # <<>> /\ (pi.text => Head(net.buffer).code = pi.reply.code)
  <2>1. calls' = << <<"processReply">>, <<"replyDone">> >> \o calls
    BY <1>7 DEF ReadLines, Return, Begin
  <2>2. <<"processReply">> \in Frame /\ <<"replyDone">> \in Frame
    BY Frames DEF FtpStates, FtpErrors
  <2>3. /\ calls' \in Seq(Frame) /\ Len(calls') = Len(calls) + 2
        /\ \A x : OnStack(x)' <=> x \in {"processReply", "replyDone"} \/ OnStack(x)
        /\ \A x : Below(x)' <=> x = "replyDone" \/ OnStack(x)
        /\ \A x : Deep(x)' <=> OnStack(x)
        /\ \A x : Runs(x)' <=> x = "processReply"
    BY <2>1, <2>2, <1>2, PushTwo
  <2>4. Quiet' <=> Len(calls') = 0
    BY NotQuiet DEF TypeOK
  <2>5. UNCHANGED <<ftp, dtp, hist>>
    BY <1>7 DEF ReadLines
  <2>6. /\ net'.link = net.link /\ net'.outbox = net.outbox /\ net'.wire = net.wire
        /\ net'.buffer = Tail(net.buffer) /\ net'.port = net.port /\ net'.data = net.data
        /\ net'.fin = net.fin /\ net'.quit = net.quit
    BY <1>7 DEF ReadLines, TypeOK, Connections
  <2>7. /\ pi'.state = pi.state /\ pi'.todo = pi.todo /\ pi'.cmd = pi.cmd
        /\ pi'.reply = (IF pi.text THEN pi.reply ELSE Head(net.buffer)) /\ pi'.text = TRUE
        /\ pi'.extended = pi.extended /\ pi'.toConnect = pi.toConnect
        /\ pi'.toClose = pi.toClose
    BY <1>7 DEF ReadLines, TypeOK, Interpreter
  <2>8. Current' = Current
    BY <2>5 DEF Current
  <2>9. net.buffer # <<>> /\ Under(1) = "none"
    BY <1>2, <1>3, <1>4, <1>5, <2>3, <2>4, <2>5, <2>6, <2>7, <2>8, <1>7 DEF Ordered,
       Clearing, Silent
  <2>10. Len(calls) = 1 /\ ~pi.toClose /\ ~pi.text
    BY <1>2, <1>3, <1>4, <1>5, <2>3, <2>4, <2>5, <2>6, <2>7, <2>8, <1>7, <2>9 DEF Ordered,
       WaitsForEnd, Held, Silent
  <2>11. pi.state \in {"Waiting", "Begin"} /\ net.link = "open" /\ net.outbox = <<>>
    BY <1>2, <1>3, <1>4, <1>5, <2>3, <2>4, <2>5, <2>6, <2>7, <2>8, <1>7, <2>9, <2>10 DEF
       Ordered, Talk, Silent, TypeOK, Interpreter
  <2>12. /\ Head(net.buffer) = net.buffer[1] /\ Len(net.buffer) \in Nat
         /\ Tail(net.buffer) \in Seq(Reply) /\ Len(Tail(net.buffer)) = Len(net.buffer) - 1
         /\ \A i \in 1 .. Len(net.buffer) - 1 : Tail(net.buffer)[i] = net.buffer[i + 1]
    BY <1>2, <1>3, <1>4, <1>5, <2>3, <2>4, <2>5, <2>6, <2>7, <2>8, <1>7, <2>9, <2>10, <2>11,
       Shorter DEF TypeOK, Connections
  <2>13. 1 \in 1 .. Len(net.buffer) /\ (Tail(net.buffer) # <<>> => 1 < Len(net.buffer))
    BY <1>7, LastTaken DEF TypeOK, Connections
  <2>14. pi'.reply = net.buffer[1]
    BY <1>2, <1>3, <1>4, <1>5, <2>3, <2>4, <2>5, <2>6, <2>7, <2>8, <1>7, <2>9, <2>10, <2>11,
       <2>12, <2>13
  <2>15. /\ pi'.reply.to = hist.sent
         /\ pi.state = "Waiting" => pi'.reply.code \in CodesFor(pi.cmd)
         /\ pi'.reply.code \notin Interim => Tail(net.buffer) = <<>> /\ net.wire = <<>>
    BY <1>2, <1>3, <1>4, <1>5, <2>3, <2>4, <2>5, <2>6, <2>7, <2>8, <1>7, <2>9, <2>10, <2>11,
       <2>12, <2>13, <2>14 DEF Ordered, Answered
  <2>16. Framed'
    BY SMTT(30), <2>1, <2>2, <1>2, <1>3, <1>4, <2>5, <2>6, <2>7, <2>8, <1>7, PushTwoFit DEF
       Ordered, Fits, Reading, Resumes
  <2>17. OneHolder'
    BY <2>1, <2>2, <1>2, <1>3, <1>4, <2>9, <2>10, <2>11, <2>12, <2>13, <2>14, <2>15,
       PushTwoFit DEF Ordered, AboveRemove, Reading
  <2>18. OneCont'
    BY <2>1, <2>2, <1>2, <1>3, <1>4, <2>9, <2>10, <2>11, <2>12, <2>13, <2>14, <2>15,
       PushTwoFit DEF Ordered, AboveCont, Conts, AboveRemove, Reading
  <2>19. Holding'
    BY <2>1, <2>2, <1>2, <1>3, <1>4, <2>5, <2>6, <2>7, <2>8, <1>7, PushTwoFit DEF Ordered,
       Holders
  <2> USE <1>2, <1>3, <1>4, <1>5, <2>3, <2>4, <2>5, <2>6, <2>7, <2>8, <1>7, <2>9, <2>10,
          <2>11, <2>12, <2>13, <2>14, <2>15
  <2>20. Clearing' /\ Started' /\ Greeted' /\ Talk'
    BY DEF Ordered, Clearing, Started, Greeted, Talk, Running, Reading, Silent, Open
  <2>21. Answered' /\ Replying'
    BY DEF Ordered, Answered, Replying, Silent
  <2>22. Progress'
    BY DEF Ordered, Progress
  <2>23. Sending' /\ ClosesLast'
    BY DEF Ordered, Sending, ClosesLast, Running, Ends, Conts, Busy
  <2>24. WaitsForEnd'
    BY DEF Ordered, WaitsForEnd, Held, Silent, Open
  <2>25. Connection' /\ FirstConnects' /\ Errors'
    BY DEF Ordered, Connection, FirstConnects, Errors, Open, Running
  <2>26. Listed'
    BY DEF Ordered, Listed, Suits, ShownAtOnce, Owing, Vouched, Concluded, Listing,
       Complete, Clears, Running
  <2>27. QED
    BY <2>16, <2>17, <2>18, <2>19, <2>20, <2>21, <2>22, <2>23, <2>24, <2>25, <2>26 DEF Ordered
<1>8. CASE net.buffer # <<>> /\ ~(pi.text => Head(net.buffer).code = pi.reply.code)
  <2>1. UNCHANGED calls
    BY <1>8, JoinNone DEF TypeOK, ReadLines, Return
  <2>2. /\ \A x : (OnStack(x)' <=> OnStack(x)) /\ (Below(x)' <=> Below(x)) /\ (Deep(x)' <=> Deep(x))
        /\ \A x : Runs(x)' <=> Runs(x)
        /\ Len(calls') = Len(calls) /\ Quiet' = Quiet /\ calls' \in Seq(Frame)
    BY <2>1, Stays DEF TypeOK
  <2>3. Quiet' <=> Len(calls') = 0
    BY NotQuiet DEF TypeOK
  <2>4. UNCHANGED <<ftp, pi, dtp, hist>>
    BY <1>8 DEF ReadLines
  <2>5. /\ net'.link = net.link /\ net'.outbox = net.outbox /\ net'.wire = net.wire
        /\ net'.buffer = Tail(net.buffer) /\ net'.port = net.port /\ net'.data = net.data
        /\ net'.fin = net.fin /\ net'.quit = net.quit
    BY <1>8 DEF ReadLines, TypeOK, Connections
  <2>6. Current' = Current
    BY <2>4 DEF Current
  <2>7. FALSE
    BY <1>2, <1>3, <1>4, <1>5, <2>2, <2>3, <2>4, <2>5, <2>6, <1>8 DEF Ordered, Clearing,
       WaitsForEnd, Held, Silent, Talk, TypeOK, Interpreter
  <2>8. Framed' /\ OneHolder' /\ OneCont' /\ Holding'
    BY <2>1, <1>2, <1>3, <1>4, <1>5, <2>2, <2>3, <2>4, <2>5, <2>6, <1>8, <2>7, Stays DEF
       Ordered
  <2> USE <1>2, <1>3, <1>4, <1>5, <2>2, <2>3, <2>4, <2>5, <2>6, <1>8, <2>7
  <2>9. /\ Clearing' /\ Started' /\ Greeted' /\ Talk' /\ Answered' /\ Replying'
        /\ Progress' /\ Sending' /\ ClosesLast' /\ WaitsForEnd' /\ Connection' /\ FirstConnects'
        /\ Errors'
    BY DEF Ordered, Clearing, Started, Greeted, Talk, Answered, Replying, Progress, Sending,
       ClosesLast, WaitsForEnd, Connection, FirstConnects, Errors, Running, Reading, Silent,
       Open, Ends, Conts, Busy, Held
  <2>10. Listed'
    BY DEF Ordered, Listed, Suits, ShownAtOnce, Owing, Vouched, Concluded, Listing,
       Complete, Clears, Running
  <2>11. QED
    BY <2>8, <2>9, <2>10 DEF Ordered
<1>9. QED
  BY <1>6, <1>7, <1>8

\* What follows processReply(): the order.
LEMMA ReplyDoneOrdered ==
    ASSUME TypeOK, Replied, Ordered, Listed, TypeOK', Replied', ~hist'.overrun, ReplyDone
    PROVE  Ordered' /\ Listed'
<1>1. Runs("replyDone") /\ Framed /\ OneHolder /\ OneCont
  BY DEF ReplyDone, Ordered
<1>2. /\ ~Quiet /\ calls \in Seq(Frame) /\ Fits("replyDone", Under(1))
      /\ Fn(1) = "replyDone"
      /\ \A x : Runs(x) <=> x = "replyDone"
      /\ \A x : OnStack(x) <=> x = "replyDone" \/ Below(x)
      /\ Under(1) # "none" => Below(Under(1))
      /\ Under(1) = "none" <=> Len(calls) = 1
      /\ Len(calls) = 1 => \A x : ~Below(x)
  BY <1>1, Before
<1>3. Under(1) \in {"readLines", "dtpSettled"}
  BY <1>2 DEF Fits, Resumes, Reading
<1>4. /\ \A x : Below(x) => x \in {"replyDone", "readLines", "dtpSettled"}
      /\ Below("readLines") \/ Below("dtpSettled") => OnStack("replyDone")
  BY <1>1, <1>2, Before, Belows DEF Ordered, Clearing, AboveRemove, AboveCont, Conts,
     Reading
<1>5. ftp.posted \in Nat /\ ftp'.posted \in Nat
  BY DEF TypeOK, Private
<1>6. Then(<<>>)
  BY DEF ReplyDone, Return, Begin
<1>7. /\ calls' \in Seq(Frame) /\ Len(calls') = Len(calls) - 1
      /\ \A x : OnStack(x)' <=> Below(x)
      /\ \A x : (Below(x)' => Below(x) /\ Deep(x)) /\ (Deep(x)' => Deep(x))
      /\ \A x : x # "none" => (Runs(x)' <=> Under(1) = x)
  BY <1>6, <1>2, Returns
<1>8. Quiet' <=> Len(calls') = 0
  BY NotQuiet DEF TypeOK
<1>9. UNCHANGED <<ftp, dtp, net, hist>>
  BY DEF ReplyDone
<1>10. /\ pi'.state = pi.state /\ pi'.todo = pi.todo /\ pi'.cmd = pi.cmd
       /\ pi'.reply = pi.reply /\ pi'.text = FALSE /\ pi'.extended = pi.extended
       /\ pi'.toConnect = pi.toConnect /\ pi'.toClose = pi.toClose
  BY DEF ReplyDone, TypeOK, Interpreter
<1>11. Current' = Current
  BY <1>9 DEF Current
<1>12. Framed' /\ OneHolder' /\ OneCont' /\ Holding'
  BY <1>6, <1>2, <1>3, <1>4, <1>9, <1>10, <1>11, ReturnsFit DEF Ordered, Fits, Resumes,
     Reading, AboveRemove, AboveCont, Conts, Holders
<1> USE <1>2, <1>3, <1>4, <1>5, <1>7, <1>8, <1>9, <1>10, <1>11
<1>13. /\ Clearing' /\ Started' /\ Greeted' /\ Talk' /\ Answered' /\ Replying'
       /\ Progress'
  BY SMTT(30) DEF Ordered, Clearing, Started, Greeted, Talk, Answered, Replying,
     Progress, Running,
     Reading, Silent, Open
<1>14. Sending' /\ ClosesLast' /\ WaitsForEnd'
  BY DEF Ordered, Sending, ClosesLast, WaitsForEnd, Running, Ends, Conts, Busy, Held,
     Silent, Open
<1>15. Connection' /\ FirstConnects' /\ Errors'
  BY SMTT(30) DEF Ordered, Connection, FirstConnects, Errors, Open, Running
<1>16. Listed'
  BY SMTT(30) DEF Ordered, Listed, Suits, ShownAtOnce, Owing, Vouched, Concluded, Listing,
     Complete, Clears, Running
<1>17. QED
  BY <1>12, <1>13, <1>14, <1>15, <1>16 DEF Ordered

\* processReply() of the greeting: the order.
LEMMA ProcessGreetingOrdered ==
    ASSUME TypeOK, Replied, Ordered, Listed, TypeOK', Replied', ~hist'.overrun, ProcessGreeting
    PROVE  Ordered' /\ Listed'
<1>1. Runs("processReply") /\ Framed /\ OneHolder /\ OneCont
  BY DEF ProcessGreeting, Ordered
<1>2. /\ ~Quiet /\ calls \in Seq(Frame) /\ Fits("processReply", Under(1))
      /\ Fn(1) = "processReply"
      /\ \A x : Runs(x) <=> x = "processReply"
      /\ \A x : OnStack(x) <=> x = "processReply" \/ Below(x)
      /\ Under(1) # "none" => Below(Under(1))
      /\ Under(1) = "none" <=> Len(calls) = 1
      /\ Len(calls) = 1 => \A x : ~Below(x)
  BY <1>1, Before
<1>3. Under(1) \in {"replyDone"}
  BY <1>2 DEF Fits, Resumes, Reading
<1>4. /\ \A x : Below(x) => x \in {"replyDone", "readLines", "dtpSettled"}
      /\ Below("readLines") \/ Below("dtpSettled") => OnStack("replyDone")
  BY <1>1, <1>2, Before, Belows DEF Ordered, Clearing, AboveRemove, AboveCont, Conts,
     Reading
<1>5. ~MustWait /\ pi.state = "Begin"
  BY DEF ProcessGreeting
<1>6. ftp.posted \in Nat /\ ftp'.posted \in Nat
  BY DEF TypeOK, Private
<1>7. CASE Code \div 100 = 2
  <2>1. Then(<< <<"piFinished">>, <<"react">> >>)
    BY <1>7 DEF ProcessGreeting, Return, Begin
  <2>2. <<"piFinished">> \in Frame /\ <<"react">> \in Frame
    BY Frames DEF FtpStates, FtpErrors
  <2>3. /\ calls' \in Seq(Frame) /\ Len(calls') = Len(calls) + 1
        /\ \A x : OnStack(x)' <=> x \in {"piFinished", "react"} \/ Below(x)
        /\ \A x : Below(x)' <=> x = "react" \/ Below(x)
        /\ \A x : Deep(x)' <=> Below(x)
        /\ \A x : Runs(x)' <=> x = "piFinished"
    BY <2>1, <2>2, <1>2, CallsTwo
  <2>4. Quiet' <=> Len(calls') = 0
    BY NotQuiet DEF TypeOK
  <2>5. UNCHANGED <<ftp, dtp, net, hist>>
    BY <1>7 DEF ProcessGreeting
  <2>6. /\ pi'.state = "Idle" /\ pi'.todo = pi.todo /\ pi'.cmd = pi.cmd /\ pi'.reply = pi.reply
        /\ pi'.text = pi.text /\ pi'.extended = pi.extended /\ pi'.toConnect = pi.toConnect
        /\ pi'.toClose = pi.toClose
    BY <1>7 DEF ProcessGreeting, TypeOK, Interpreter
  <2>7. Current' = Current
    BY <2>5 DEF Current
  <2>8. Code # 120 /\ Code # 150
    BY <1>7, StateTable DEF StateFor
  <2>9. Silent /\ net.link = "open" /\ pi.cmd = "none" /\ pi.todo = <<>>
            /\ Current.cmd = "Connect" /\ hist.current # 0
    BY <1>2, <1>3, <1>4, <1>5, <1>6, <2>3, <2>4, <2>5, <2>6, <2>7, <1>7, <2>8 DEF Ordered,
       Replying, Greeted, Interim, Code
  <2>10. Framed' /\ OneHolder' /\ OneCont' /\ Holding'
    BY <2>1, <2>2, <1>2, <1>3, <1>4, <2>5, <2>6, <2>7, <1>7, <2>8, <2>9, CallsTwoFit DEF
       Ordered, Fits, Resumes, Reading, AboveRemove, AboveCont, Conts, Holders
  <2> USE <1>2, <1>3, <1>4, <1>5, <1>6, <2>3, <2>4, <2>5, <2>6, <2>7, <1>7, <2>8, <2>9
  <2>11. /\ Clearing' /\ Started' /\ Greeted' /\ Talk' /\ Answered' /\ Replying'
         /\ Progress' /\ Sending' /\ ClosesLast' /\ WaitsForEnd' /\ Connection' /\ FirstConnects'
         /\ Errors'
    BY DEF Ordered, Clearing, Started, Greeted, Talk, Answered, Replying, Progress, Sending,
       ClosesLast, WaitsForEnd, Connection, FirstConnects, Errors, Running, Reading, Silent,
       Open, Ends, Conts, Busy, Held
  <2>12. Listed'
    BY DEF Ordered, Listed, Suits, ShownAtOnce, Owing, Vouched, Concluded, Listing,
       Complete, Clears, Running
  <2>13. QED
    BY <2>10, <2>11, <2>12 DEF Ordered
<1>8. CASE Code \div 100 # 2
  <2>1. Then(<<>>)
    BY <1>8 DEF ProcessGreeting, Return, Begin
  <2>2. /\ calls' \in Seq(Frame) /\ Len(calls') = Len(calls) - 1
        /\ \A x : OnStack(x)' <=> Below(x)
        /\ \A x : (Below(x)' => Below(x) /\ Deep(x)) /\ (Deep(x)' => Deep(x))
        /\ \A x : x # "none" => (Runs(x)' <=> Under(1) = x)
    BY <2>1, <1>2, Returns
  <2>3. Quiet' <=> Len(calls') = 0
    BY NotQuiet DEF TypeOK
  <2>4. UNCHANGED <<ftp, pi, dtp, net, hist>>
    BY <1>8 DEF ProcessGreeting
  <2>5. Current' = Current
    BY <2>4 DEF Current
  <2>6. Framed' /\ OneHolder' /\ OneCont' /\ Holding'
    BY <2>1, <1>2, <1>3, <1>4, <2>4, <2>5, <1>8, ReturnsFit DEF Ordered, Fits, Resumes,
       Reading, AboveRemove, AboveCont, Conts, Holders
  <2> USE <1>2, <1>3, <1>4, <1>5, <1>6, <2>2, <2>3, <2>4, <2>5, <1>8
  <2>7. Clearing' /\ Started' /\ Greeted' /\ Talk'
    BY DEF Ordered, Clearing, Started, Greeted, Talk, Running, Reading, Silent, Open
  <2>8. Answered' /\ Replying' /\ Progress'
    BY DEF Ordered, Answered, Replying, Progress, Silent
  <2>9. Sending' /\ ClosesLast' /\ WaitsForEnd'
    BY DEF Ordered, Sending, ClosesLast, WaitsForEnd, Running, Ends, Conts, Busy, Held,
       Silent, Open
  <2>10. Connection' /\ FirstConnects' /\ Errors'
    BY DEF Ordered, Connection, FirstConnects, Errors, Open, Running
  <2>11. Listed'
    BY DEF Ordered, Listed, Suits, ShownAtOnce, Owing, Vouched, Concluded, Listing,
       Complete, Clears, Running
  <2>12. QED
    BY <2>6, <2>7, <2>8, <2>9, <2>10, <2>11 DEF Ordered
<1>9. QED
  BY <1>7, <1>8

\* processReply() sets the state: the order.
LEMMA ProcessReplyOrdered ==
    ASSUME TypeOK, Replied, Ordered, Listed, TypeOK', Replied', ~hist'.overrun, ProcessReply
    PROVE  Ordered' /\ Listed'
<1>1. Runs("processReply") /\ Framed /\ OneHolder /\ OneCont
  BY DEF ProcessReply, Ordered
<1>2. /\ ~Quiet /\ calls \in Seq(Frame) /\ Fits("processReply", Under(1))
      /\ Fn(1) = "processReply"
      /\ \A x : Runs(x) <=> x = "processReply"
      /\ \A x : OnStack(x) <=> x = "processReply" \/ Below(x)
      /\ Under(1) # "none" => Below(Under(1))
      /\ Under(1) = "none" <=> Len(calls) = 1
      /\ Len(calls) = 1 => \A x : ~Below(x)
  BY <1>1, Before
<1>3. Under(1) \in {"replyDone"}
  BY <1>2 DEF Fits, Resumes, Reading
<1>4. /\ \A x : Below(x) => x \in {"replyDone", "readLines", "dtpSettled"}
      /\ Below("readLines") \/ Below("dtpSettled") => OnStack("replyDone")
  BY <1>1, <1>2, Before, Belows DEF Ordered, Clearing, AboveRemove, AboveCont, Conts,
     Reading
<1>5. ~MustWait /\ pi.state = "Waiting"
  BY DEF ProcessReply
<1>6. ftp.posted \in Nat /\ ftp'.posted \in Nat
  BY DEF TypeOK, Private
<1>7. /\ pi.cmd \in RawCommands /\ Code \in CodesFor(pi.cmd) /\ pi.reply.to = hist.sent
      /\ net.outbox = <<>> /\ hist.current # 0 /\ Code = pi.reply.code
  BY <1>2, <1>3, <1>4, <1>5, <1>6 DEF Ordered, Replying, Talk, TypeOK, Interpreter, Code
<1>8. /\ Code = 227 => pi.cmd = "PASV"
      /\ Code = 229 => pi.cmd = "EPSV"
      /\ Code = 230 => pi.cmd \in {"USER", "PASS"}
      /\ Code = 150 => pi.cmd \in {"LIST", "RETR"}
      /\ pi.cmd \in {"LIST", "RETR"} => Code \in {150, 226, 250, 425, 426, 550}
      /\ pi.cmd = "LIST" => Code # 250
  BY <1>2, <1>3, <1>4, <1>5, <1>6, <1>7, CodeTells
<1>9. /\ StateFor(Code) \in {"Waiting", "Success", "Idle", "Failure"}
      /\ StateFor(Code) = "Waiting" <=> Code = 150
      /\ Code \in {331, 350} => StateFor(Code) = "Idle"
      /\ Code \in {226, 227, 229, 230} => StateFor(Code) = "Success"
      /\ Code \in {425, 426, 500, 530, 550} => StateFor(Code) = "Failure"
      /\ Code \notin Interim <=> Code # 150
  BY <1>2, <1>3, <1>4, <1>5, <1>6, <1>7, <1>8, StateAfter
<1>10. Code = 226 \/ (Code = 250 /\ pi.cmd = "RETR") => ~Open
  BY <1>2, <1>3, <1>4, <1>5, <1>6, <1>7, <1>8, <1>9 DEF MustWait, TransferOver, Open
<1>11. pi.todo \in Rest(pi.cmd) /\ ~Runs("dataReadyRead") /\ ~OnStack("listLines")
  <2>1. ~OnStack("pendingCleared") /\ ~Runs("dataReadyRead") /\ ~OnStack("listLines")
    BY <1>2, <1>4
  <2>2. pi.todo \in Rest(pi.cmd)
    BY <2>1 DEF Ordered, Progress
  <2>3. QED  BY <2>1, <2>2
<1>12. /\ Code # 150 => Silent
       /\ pi.cmd # "none"
       /\ net.link # "open" => net.wire = <<>> /\ net.buffer = <<>>
  BY <1>2, <1>3, <1>4, <1>5, <1>6, <1>7, <1>8, <1>9, <1>10, <1>11 DEF Ordered, Replying,
     Interim, Talk
<1>13. CASE /\ Code = 230
            /\ pi' = [pi EXCEPT !.state = StateFor(Code),
                        !.todo = IF pi.cmd = "USER" /\ pi.todo # <<>> /\ Head(pi.todo) = "PASS"
                                 THEN Tail(pi.todo) ELSE pi.todo]
            /\ Then(<< <<"connectState", "LoggedIn">>, <<"react">> >>)
            /\ UNCHANGED <<dtp, net>>
  <2>1. Then(<< <<"connectState", "LoggedIn">>, <<"react">> >>)
    BY <1>13 DEF ProcessReply, Return, Begin
  <2>2. <<"connectState", "LoggedIn">> \in Frame /\ <<"react">> \in Frame
    BY Frames DEF FtpStates, FtpErrors
  <2>3. /\ calls' \in Seq(Frame) /\ Len(calls') = Len(calls) + 1
        /\ \A x : OnStack(x)' <=> x \in {"connectState", "react"} \/ Below(x)
        /\ \A x : Below(x)' <=> x = "react" \/ Below(x)
        /\ \A x : Deep(x)' <=> Below(x)
        /\ \A x : Runs(x)' <=> x = "connectState"
    BY <2>1, <2>2, <1>2, CallsTwo
  <2>4. Quiet' <=> Len(calls') = 0
    BY NotQuiet DEF TypeOK
  <2>5. UNCHANGED <<ftp, dtp, net, hist>>
    BY <1>13 DEF ProcessReply
  <2>6. /\ pi'.state = StateFor(Code)
        /\ pi'.todo = (IF pi.cmd = "USER" /\ pi.todo # <<>>
               /\ Head(pi.todo) = "PASS" THEN Tail(pi.todo) ELSE pi.todo)
        /\ pi'.cmd = pi.cmd /\ pi'.reply = pi.reply /\ pi'.text = pi.text
        /\ pi'.extended = pi.extended /\ pi'.toConnect = pi.toConnect
        /\ pi'.toClose = pi.toClose
    BY <1>13 DEF ProcessReply, TypeOK, Interpreter
  <2>7. Current' = Current
    BY <2>5 DEF Current
  <2>8. pi.cmd \in {"USER", "PASS"} /\ pi.todo \in Rest(pi.cmd)
    BY <1>2, <1>3, <1>4, <1>5, <1>6, <1>7, <1>8, <1>9, <1>10, <1>11, <1>12, <2>3, <2>4,
       <2>5, <2>6, <2>7, <1>13
  <2>9. pi'.todo \in Rest(pi.cmd) /\ (pi.todo = <<>> => pi'.todo = <<>>)
    BY <2>3, <2>4, <2>5, <2>6, <2>7, <1>13, <2>8, RestLoggedIn
  <2>10. pi'.todo # <<>> => pi.todo # <<>>
    BY <1>2, <1>3, <1>4, <1>5, <1>6, <1>7, <1>8, <1>9, <1>10, <1>11, <1>12, <2>3, <2>4,
       <2>5, <2>6, <2>7, <1>13, <2>8, <2>9
  <2>11. Framed' /\ OneHolder' /\ OneCont' /\ Holding'
    BY <2>1, <2>2, <1>2, <1>3, <1>4, <2>5, <2>6, <2>7, <1>13, <2>8, <2>9, <2>10, CallsTwoFit
       DEF Ordered, Fits, Resumes, Reading, AboveRemove, AboveCont, Conts, Holders
  <2> USE <1>2, <1>3, <1>4, <1>5, <1>6, <1>7, <1>8, <1>9, <1>10, <1>11, <1>12, <2>3, <2>4,
          <2>5, <2>6, <2>7, <1>13, <2>8, <2>9, <2>10
  <2>12. /\ Clearing' /\ Started' /\ Greeted' /\ Talk' /\ Answered' /\ Replying'
         /\ Progress' /\ Sending' /\ ClosesLast' /\ WaitsForEnd' /\ Connection' /\ FirstConnects'
         /\ Errors'
    BY DEF Ordered, Clearing, Started, Greeted, Talk, Answered, Replying, Progress, Sending,
       ClosesLast, WaitsForEnd, Connection, FirstConnects, Errors, Running, Reading, Silent,
       Open, Ends, Conts, Busy, Held
  <2>13. Suits'
    BY DEF Ordered, Listed, Suits, Listing
  <2>14. ShownAtOnce'
    BY DEF Ordered, Listed, ShownAtOnce
  <2>15. Owing'
    BY DEF Ordered, Listed, Owing, Listing
  <2>16. Vouched'
    BY DEF Ordered, Listed, Vouched, Listing
  <2>17. Concluded'
    BY DEF Ordered, Listed, Concluded, Complete, Clears, Listing, Running, Suits
  <2>18. Listed'
    BY <2>13, <2>14, <2>15, <2>16, <2>17 DEF Listed
  <2>19. QED
    BY <2>11, <2>12, <2>18 DEF Ordered
<1>14. CASE /\ Code \in {227, 229}
            /\ pi' = [pi EXCEPT !.state = StateFor(Code), !.toConnect = TRUE]
            /\ dtp' = [dtp EXCEPT !.state = "connecting", !.lines = <<>>]
            /\ net' = [net EXCEPT !.data = <<>>, !.fin = FALSE]
            /\ Then(<< <<"react">> >>)
  <2>1. Then(<< <<"react">> >>)
    BY <1>14 DEF ProcessReply, Return, Begin
  <2>2. <<"react">> \in Frame
    BY Frames DEF FtpStates, FtpErrors
  <2>3. /\ calls' \in Seq(Frame) /\ Len(calls') = Len(calls)
        /\ \A x : OnStack(x)' <=> x = "react" \/ Below(x)
        /\ \A x : Below(x)' <=> Below(x)
        /\ \A x : Deep(x)' <=> Deep(x)
        /\ \A x : Runs(x)' <=> x = "react"
    BY <2>1, <2>2, <1>2, CallsOne
  <2>4. Quiet' <=> Len(calls') = 0
    BY NotQuiet DEF TypeOK
  <2>5. UNCHANGED <<ftp, hist>>
    BY <1>14 DEF ProcessReply
  <2>6. /\ pi'.state = StateFor(Code) /\ pi'.todo = pi.todo /\ pi'.cmd = pi.cmd
        /\ pi'.reply = pi.reply /\ pi'.text = pi.text /\ pi'.extended = pi.extended
        /\ pi'.toConnect = TRUE /\ pi'.toClose = pi.toClose
    BY <1>14 DEF ProcessReply, TypeOK, Interpreter
  <2>7. dtp'.state = "connecting" /\ dtp'.lines = <<>> /\ dtp'.err = dtp.err
    BY <1>14 DEF ProcessReply, TypeOK, DataConnection
  <2>8. /\ net'.link = net.link /\ net'.outbox = net.outbox /\ net'.wire = net.wire
        /\ net'.buffer = net.buffer /\ net'.port = net.port /\ net'.data = <<>>
        /\ net'.fin = FALSE /\ net'.quit = net.quit
    BY <1>14 DEF ProcessReply, TypeOK, Connections
  <2>9. Current' = Current
    BY <2>5 DEF Current
  <2>10. pi.todo \in ToTransfer /\ pi.cmd \in {"PASV", "EPSV"}
    BY SMTT(30), <1>2, <1>3, <1>4, <1>5, <1>6, <1>7, <1>8, <1>9, <1>10, <1>11, <1>12, <2>3,
       <2>4, <2>5, <2>6, <2>7, <2>8, <2>9, <1>14 DEF Ordered, Progress, Rest, ToTransfer
  <2>11. ~Missing(dtp'.lines) /\ ~Missing(net'.data)
    BY <1>2, <1>3, <1>4, <1>5, <1>6, <1>7, <1>8, <1>9, <1>10, <1>11, <1>12, <2>3, <2>4,
       <2>5, <2>6, <2>7, <2>8, <2>9, <1>14, <2>10, NoneMissing
  <2>12. Framed' /\ OneHolder' /\ OneCont' /\ Holding'
    BY <2>1, <2>2, <1>2, <1>3, <1>4, <2>5, <2>6, <2>7, <2>8, <2>9, <2>10, <2>11, CallsOneFit
       DEF Ordered, Fits, Resumes, Reading, AboveRemove, AboveCont, Conts, Holders
  <2> USE <1>2, <1>3, <1>4, <1>5, <1>6, <1>7, <1>8, <1>9, <1>10, <1>11, <1>12, <2>3, <2>4,
          <2>5, <2>6, <2>7, <2>8, <2>9, <1>14, <2>10, <2>11
  <2>13. Clearing'
    BY SMTT(30) DEF Ordered, Clearing, Running, Reading, Silent, Open
  <2>14. Started'
    BY DEF Ordered, Started
  <2>15. Greeted'
    BY DEF Ordered, Greeted, Silent
  <2>16. Talk'
    BY DEF Talk, Silent
  <2>17. Answered' /\ Replying'
    BY DEF Ordered, Answered, Replying, Silent
  <2>18. Progress'
    BY DEF Ordered, Progress
  <2>19. Sending'
    BY SMTT(30) DEF Ordered, Sending, Running, Ends, Conts
  <2>20. ClosesLast'
    BY DEF Ordered, ClosesLast, Busy
  <2>21. WaitsForEnd'
    BY SMTT(30) DEF Ordered, WaitsForEnd, Held, Silent, Open
  <2>22. Connection'
    BY SMTT(30) DEF Ordered, Connection, Open, Running
  <2>23. FirstConnects'
    BY DEF Ordered, FirstConnects
  <2>24. Errors'
    BY DEF Ordered, Errors, Running
  <2>25. Suits'
    BY DEF Ordered, Listed, Suits, Listing
  <2>26. ShownAtOnce'
    BY DEF Ordered, Listed, ShownAtOnce
  <2>27. Owing'
    BY DEF Ordered, Listed, Owing, Listing
  <2>28. Vouched'
    BY DEF Ordered, Listed, Vouched, Listing
  <2>29. Concluded'
    BY NothingLeft DEF Ordered, Listed, Concluded, Complete, Clears, Listing, Running
  <2>30. Listed'
    BY <2>25, <2>26, <2>27, <2>28, <2>29 DEF Listed
  <2>31. QED
    BY <2>12, <2>13, <2>14, <2>15, <2>16, <2>17, <2>18, <2>19, <2>20, <2>21, <2>22,
       <2>23, <2>24, <2>30 DEF Ordered
<1>15. CASE /\ Code # 230
            /\ pi' = [pi EXCEPT !.state = StateFor(Code)]
            /\ Then(<< <<"react">> >>)
            /\ UNCHANGED <<dtp, net>>
  <2>1. Then(<< <<"react">> >>)
    BY <1>15 DEF ProcessReply, Return, Begin
  <2>2. <<"react">> \in Frame
    BY Frames DEF FtpStates, FtpErrors
  <2>3. /\ calls' \in Seq(Frame) /\ Len(calls') = Len(calls)
        /\ \A x : OnStack(x)' <=> x = "react" \/ Below(x)
        /\ \A x : Below(x)' <=> Below(x)
        /\ \A x : Deep(x)' <=> Deep(x)
        /\ \A x : Runs(x)' <=> x = "react"
    BY <2>1, <2>2, <1>2, CallsOne
  <2>4. Quiet' <=> Len(calls') = 0
    BY NotQuiet DEF TypeOK
  <2>5. UNCHANGED <<ftp, dtp, net, hist>>
    BY <1>15 DEF ProcessReply
  <2>6. /\ pi'.state = StateFor(Code) /\ pi'.todo = pi.todo /\ pi'.cmd = pi.cmd
        /\ pi'.reply = pi.reply /\ pi'.text = pi.text /\ pi'.extended = pi.extended
        /\ pi'.toConnect = pi.toConnect /\ pi'.toClose = pi.toClose
    BY <1>15 DEF ProcessReply, TypeOK, Interpreter
  <2>7. Current' = Current
    BY <2>5 DEF Current
  <2>8. /\ net'.outbox = <<>> /\ net'.link = net.link
        /\ net'.wire = net.wire /\ net'.buffer = net.buffer /\ hist'.current # 0
    BY <1>2, <1>3, <1>4, <1>5, <1>6, <1>7, <1>8, <1>9, <1>10, <1>11, <1>12, <2>3, <2>4,
       <2>5, <2>6, <2>7, <1>15
  <2>9. Framed' /\ OneHolder' /\ OneCont' /\ Holding'
    BY <2>1, <2>2, <1>2, <1>3, <1>4, <2>5, <2>6, <2>7, <1>15, <2>8, CallsOneFit DEF Ordered,
       Fits, Resumes, Reading, AboveRemove, AboveCont, Conts, Holders
  <2> USE <1>2, <1>3, <1>4, <1>5, <1>6, <1>7, <1>8, <1>9, <1>10, <1>11, <1>12, <2>3, <2>4,
          <2>5, <2>6, <2>7, <1>15, <2>8
  <2>10. Clearing'
    BY SMTT(30) DEF Ordered, Clearing, Running, Reading, Silent, Open
  <2>11. Started'
    BY DEF Ordered, Started
  <2>12. Greeted'
    BY DEF Ordered, Greeted, Silent
  <2>13. Talk'
    BY SMTT(30) DEF Talk, Silent
  <2>14. Answered' /\ Replying'
    BY DEF Ordered, Answered, Replying, Silent
  <2>15. Progress'
    BY DEF Ordered, Progress
  <2>16. Sending'
    BY SMTT(30) DEF Ordered, Sending, Running, Ends, Conts
  <2>17. ClosesLast'
    BY DEF Ordered, ClosesLast, Busy
  <2>18. WaitsForEnd'
    BY SMTT(30) DEF Ordered, WaitsForEnd, Held, Silent, Open
  <2>19. Connection'
    BY SMTT(30) DEF Ordered, Connection, Open, Running
  <2>20. FirstConnects'
    BY DEF Ordered, FirstConnects
  <2>21. Errors'
    BY DEF Ordered, Errors, Running
  <2>22. Listing /\ pi.todo = <<>> => pi.cmd = "LIST" /\ dtp.lines = <<>>
    <3>1. Listing => pi.cmd \in {"TYPE", "PASV", "EPSV", "LIST"}
      BY DEF Listed, Suits
    <3>2. Listing /\ pi.todo = <<>> => pi.cmd = "LIST"
      BY <3>1, RestOfListing
    <3>3. QED  BY SMTT(30), <3>2 DEF Listed, ShownAtOnce
  <2>23. Listing /\ pi.todo = <<>> /\ Code = 226 =>
      net.data = <<>> /\ ~pi.toConnect /\ hist.done /\ hist.owed = 0 /\ hist.files = 0
    BY <2>22, CountedNone DEF Ordered, Connection, Open, Listed, Owing, Vouched
  <2>24. Suits'
    BY DEF Ordered, Listed, Suits, Listing
  <2>25. ShownAtOnce'
    BY DEF Ordered, Listed, ShownAtOnce
  <2>26. Owing'
    BY SMTT(30) DEF Ordered, Listed, Owing, Listing
  <2>27. Vouched'
    BY DEF Ordered, Listed, Vouched, Listing
  <2>28. Concluded'
    BY SMTT(30), <2>22, <2>23 DEF Ordered, Listed, Concluded, Complete, Clears, Listing, Running
  <2>29. Listed'
    BY <2>24, <2>25, <2>26, <2>27, <2>28 DEF Listed
  <2>30. QED
    BY <2>9, <2>10, <2>11, <2>12, <2>13, <2>14, <2>15, <2>16, <2>17, <2>18, <2>19,
       <2>20, <2>21, <2>29 DEF Ordered
<1>16. QED
  BY <1>13, <1>14, <1>15 DEF ProcessReply

\* processReply() of a reply nobody waits for: the order.
LEMMA IgnoreReplyOrdered ==
    ASSUME TypeOK, Replied, Ordered, Listed, TypeOK', Replied', ~hist'.overrun, IgnoreReply
    PROVE  Ordered' /\ Listed'
<1>1. Runs("processReply") /\ Framed /\ OneHolder /\ OneCont
  BY DEF IgnoreReply, Ordered
<1>2. /\ ~Quiet /\ calls \in Seq(Frame) /\ Fits("processReply", Under(1))
      /\ Fn(1) = "processReply"
      /\ \A x : Runs(x) <=> x = "processReply"
      /\ \A x : OnStack(x) <=> x = "processReply" \/ Below(x)
      /\ Under(1) # "none" => Below(Under(1))
      /\ Under(1) = "none" <=> Len(calls) = 1
      /\ Len(calls) = 1 => \A x : ~Below(x)
  BY <1>1, Before
<1>3. Under(1) \in {"replyDone"}
  BY <1>2 DEF Fits, Resumes, Reading
<1>4. /\ \A x : Below(x) => x \in {"replyDone", "readLines", "dtpSettled"}
      /\ Below("readLines") \/ Below("dtpSettled") => OnStack("replyDone")
  BY <1>1, <1>2, Before, Belows DEF Ordered, Clearing, AboveRemove, AboveCont, Conts,
     Reading
<1>5. pi.state \notin {"Begin", "Waiting"}
  BY DEF IgnoreReply
<1>6. ftp.posted \in Nat /\ ftp'.posted \in Nat
  BY DEF TypeOK, Private
<1>7. Then(<<>>)
  BY DEF IgnoreReply, Return, Begin
<1>8. /\ calls' \in Seq(Frame) /\ Len(calls') = Len(calls) - 1
      /\ \A x : OnStack(x)' <=> Below(x)
      /\ \A x : (Below(x)' => Below(x) /\ Deep(x)) /\ (Deep(x)' => Deep(x))
      /\ \A x : x # "none" => (Runs(x)' <=> Under(1) = x)
  BY <1>7, <1>2, Returns
<1>9. Quiet' <=> Len(calls') = 0
  BY NotQuiet DEF TypeOK
<1>10. UNCHANGED <<ftp, pi, dtp, net, hist>>
  BY DEF IgnoreReply
<1>11. Current' = Current
  BY <1>10 DEF Current
<1>12. FALSE
  BY <1>2, <1>3, <1>4, <1>5, <1>6, <1>8, <1>9, <1>10, <1>11 DEF Ordered, Replying
<1>13. Framed' /\ OneHolder' /\ OneCont' /\ Holding'
  BY <1>7, <1>2, <1>3, <1>4, <1>10, <1>11, <1>12, ReturnsFit DEF Ordered, Fits, Resumes,
     Reading, AboveRemove, AboveCont, Conts, Holders
<1> USE <1>2, <1>3, <1>4, <1>5, <1>6, <1>8, <1>9, <1>10, <1>11, <1>12
<1>14. /\ Clearing' /\ Started' /\ Greeted' /\ Talk' /\ Answered' /\ Replying'
       /\ Progress' /\ Sending' /\ ClosesLast' /\ WaitsForEnd' /\ Connection' /\ FirstConnects'
       /\ Errors'
  BY DEF Ordered, Clearing, Started, Greeted, Talk, Answered, Replying, Progress, Sending,
     ClosesLast, WaitsForEnd, Connection, FirstConnects, Errors, Running, Reading, Silent,
     Open, Ends, Conts, Busy, Held
<1>15. Listed'
  BY DEF Ordered, Listed, Suits, ShownAtOnce, Owing, Vouched, Concluded, Listing,
     Complete, Clears, Running
<1>16. QED
  BY <1>13, <1>14, <1>15 DEF Ordered

\* processReply() after a success: the order.
LEMMA ReactSuccessOrdered ==
    ASSUME TypeOK, Replied, Ordered, Listed, TypeOK', Replied', ~hist'.overrun, ReactSuccess
    PROVE  Ordered' /\ Listed'
<1>1. Runs("react") /\ Framed /\ OneHolder /\ OneCont
  BY DEF ReactSuccess, Ordered
<1>2. /\ ~Quiet /\ calls \in Seq(Frame) /\ Fits("react", Under(1))
      /\ Fn(1) = "react"
      /\ \A x : Runs(x) <=> x = "react"
      /\ \A x : OnStack(x) <=> x = "react" \/ Below(x)
      /\ Under(1) # "none" => Below(Under(1))
      /\ Under(1) = "none" <=> Len(calls) = 1
      /\ Len(calls) = 1 => \A x : ~Below(x)
  BY <1>1, Before
<1>3. Under(1) \in {"replyDone"}
  BY <1>2 DEF Fits, Resumes, Reading
<1>4. /\ \A x : Below(x) => x \in {"replyDone", "readLines", "dtpSettled"}
      /\ Below("readLines") \/ Below("dtpSettled") => OnStack("replyDone")
  BY <1>1, <1>2, Before, Belows DEF Ordered, Clearing, AboveRemove, AboveCont, Conts,
     Reading
<1>5. pi.state \in {"Success", "Idle"}
  BY DEF ReactSuccess
<1>6. ftp.posted \in Nat /\ ftp'.posted \in Nat
  BY DEF TypeOK, Private
<1>7. CASE dtp.err
  <2>1. Then(<< <<"piError", "UnknownError">>, <<"clearError">> >>)
    BY <1>7 DEF ReactSuccess, Return, Begin
  <2>2. <<"piError", "UnknownError">> \in Frame /\ <<"clearError">> \in Frame
    BY Frames DEF FtpStates, FtpErrors
  <2>3. /\ calls' \in Seq(Frame) /\ Len(calls') = Len(calls) + 1
        /\ \A x : OnStack(x)' <=> x \in {"piError", "clearError"} \/ Below(x)
        /\ \A x : Below(x)' <=> x = "clearError" \/ Below(x)
        /\ \A x : Deep(x)' <=> Below(x)
        /\ \A x : Runs(x)' <=> x = "piError"
    BY <2>1, <2>2, <1>2, CallsTwo
  <2>4. Quiet' <=> Len(calls') = 0
    BY NotQuiet DEF TypeOK
  <2>5. UNCHANGED <<ftp, dtp, net, hist>>
    BY <1>7 DEF ReactSuccess
  <2>6. /\ pi'.state = "Idle" /\ pi'.todo = pi.todo /\ pi'.cmd = pi.cmd /\ pi'.reply = pi.reply
        /\ pi'.text = pi.text /\ pi'.extended = pi.extended /\ pi'.toConnect = pi.toConnect
        /\ pi'.toClose = pi.toClose
    BY <1>7 DEF ReactSuccess, TypeOK, Interpreter
  <2>7. Current' = Current
    BY <2>5 DEF Current
  <2>8. Framed'
    BY <2>1, <2>2, <1>2, <1>3, <1>4, <2>5, <2>6, <2>7, <1>7, CallsTwoFit DEF Ordered, Fits,
       Reading, Resumes
  <2>9. OneHolder'
    BY SMTT(30), <2>1, <2>2, <1>2, <1>3, <1>4, <2>5, <2>6, <2>7, <1>7, CallsTwoFit DEF Ordered,
       AboveRemove, Reading
  <2>10. OneCont'
    BY <2>1, <2>2, <1>2, <1>3, <1>4, <2>5, <2>6, <2>7, <1>7, CallsTwoFit DEF Ordered,
       AboveCont, Conts, AboveRemove, Reading
  <2>11. Holding'
    BY <2>1, <2>2, <1>2, <1>3, <1>4, <2>5, <2>6, <2>7, <1>7, CallsTwoFit DEF Ordered,
       Holders
  <2> USE <1>2, <1>3, <1>4, <1>5, <1>6, <2>3, <2>4, <2>5, <2>6, <2>7, <1>7
  <2>12. /\ Clearing' /\ Started' /\ Greeted' /\ Talk' /\ Answered' /\ Replying'
         /\ Progress' /\ Sending' /\ ClosesLast' /\ WaitsForEnd' /\ Connection' /\ FirstConnects'
         /\ Errors'
    BY DEF Ordered, Clearing, Started, Greeted, Talk, Answered, Replying, Progress, Sending,
       ClosesLast, WaitsForEnd, Connection, FirstConnects, Errors, Running, Reading, Silent,
       Open, Ends, Conts, Busy, Held
  <2>13. Listed'
    BY DEF Ordered, Listed, Suits, ShownAtOnce, Owing, Vouched, Concluded, Listing,
       Complete, Clears, Running
  <2>14. QED
    BY <2>8, <2>9, <2>10, <2>11, <2>12, <2>13 DEF Ordered
<1>8. CASE ~dtp.err
  <2>1. Then(<< <<"startNextCmd">> >>)
    BY <1>8 DEF ReactSuccess, Return, Begin
  <2>2. <<"startNextCmd">> \in Frame
    BY Frames DEF FtpStates, FtpErrors
  <2>3. /\ calls' \in Seq(Frame) /\ Len(calls') = Len(calls)
        /\ \A x : OnStack(x)' <=> x = "startNextCmd" \/ Below(x)
        /\ \A x : Below(x)' <=> Below(x)
        /\ \A x : Deep(x)' <=> Deep(x)
        /\ \A x : Runs(x)' <=> x = "startNextCmd"
    BY <2>1, <2>2, <1>2, CallsOne
  <2>4. Quiet' <=> Len(calls') = 0
    BY NotQuiet DEF TypeOK
  <2>5. UNCHANGED <<ftp, dtp, net, hist>>
    BY <1>8 DEF ReactSuccess
  <2>6. /\ pi'.state = "Idle" /\ pi'.todo = pi.todo /\ pi'.cmd = pi.cmd /\ pi'.reply = pi.reply
        /\ pi'.text = pi.text /\ pi'.extended = pi.extended /\ pi'.toConnect = pi.toConnect
        /\ pi'.toClose = pi.toClose
    BY <1>8 DEF ReactSuccess, TypeOK, Interpreter
  <2>7. Current' = Current
    BY <2>5 DEF Current
  <2>8. Framed' /\ OneHolder' /\ OneCont' /\ Holding'
    BY <2>1, <2>2, <1>2, <1>3, <1>4, <2>5, <2>6, <2>7, <1>8, CallsOneFit DEF Ordered, Fits,
       Resumes, Reading, AboveRemove, AboveCont, Conts, Holders
  <2> USE <1>2, <1>3, <1>4, <1>5, <1>6, <2>3, <2>4, <2>5, <2>6, <2>7, <1>8
  <2>9. /\ Clearing' /\ Started' /\ Greeted' /\ Talk' /\ Answered' /\ Replying'
        /\ Progress'
    BY DEF Ordered, Clearing, Started, Greeted, Talk, Answered, Replying, Progress, Running,
       Reading, Silent, Open
  <2>10. Sending' /\ ClosesLast' /\ WaitsForEnd' /\ Connection' /\ FirstConnects' /\ Errors'
    BY DEF Ordered, Sending, ClosesLast, WaitsForEnd, Connection, FirstConnects, Errors,
       Running, Ends, Conts, Busy, Held, Silent, Open
  <2>11. Listed'
    BY DEF Ordered, Listed, Suits, ShownAtOnce, Owing, Vouched, Concluded, Listing,
       Complete, Clears, Running
  <2>12. QED
    BY <2>8, <2>9, <2>10, <2>11 DEF Ordered
<1>9. QED
  BY <1>7, <1>8

\* processReply() after a failure: the order.
LEMMA ReactFailureOrdered ==
    ASSUME TypeOK, Replied, Ordered, Listed, TypeOK', Replied', ~hist'.overrun, ReactFailure
    PROVE  Ordered' /\ Listed'
<1>1. Runs("react") /\ Framed /\ OneHolder /\ OneCont
  BY DEF ReactFailure, Ordered
<1>2. /\ ~Quiet /\ calls \in Seq(Frame) /\ Fits("react", Under(1))
      /\ Fn(1) = "react"
      /\ \A x : Runs(x) <=> x = "react"
      /\ \A x : OnStack(x) <=> x = "react" \/ Below(x)
      /\ Under(1) # "none" => Below(Under(1))
      /\ Under(1) = "none" <=> Len(calls) = 1
      /\ Len(calls) = 1 => \A x : ~Below(x)
  BY <1>1, Before
<1>3. Under(1) \in {"replyDone"}
  BY <1>2 DEF Fits, Resumes, Reading
<1>4. /\ \A x : Below(x) => x \in {"replyDone", "readLines", "dtpSettled"}
      /\ Below("readLines") \/ Below("dtpSettled") => OnStack("replyDone")
  BY <1>1, <1>2, Before, Belows DEF Ordered, Clearing, AboveRemove, AboveCont, Conts,
     Reading
<1>5. pi.state = "Failure"
  BY DEF ReactFailure
<1>6. ftp.posted \in Nat /\ ftp'.posted \in Nat
  BY DEF TypeOK, Private
<1>7. CASE pi.cmd = "EPSV"
  <2>1. Then(<< <<"afterFailure">> >>)
    BY <1>7 DEF ReactFailure, Return, Begin
  <2>2. <<"afterFailure">> \in Frame
    BY Frames DEF FtpStates, FtpErrors
  <2>3. /\ calls' \in Seq(Frame) /\ Len(calls') = Len(calls)
        /\ \A x : OnStack(x)' <=> x = "afterFailure" \/ Below(x)
        /\ \A x : Below(x)' <=> Below(x)
        /\ \A x : Deep(x)' <=> Deep(x)
        /\ \A x : Runs(x)' <=> x = "afterFailure"
    BY <2>1, <2>2, <1>2, CallsOne
  <2>4. Quiet' <=> Len(calls') = 0
    BY NotQuiet DEF TypeOK
  <2>5. UNCHANGED <<ftp, dtp, net, hist>>
    BY <1>7 DEF ReactFailure
  <2>6. /\ pi'.state = pi.state /\ pi'.todo = <<"PASV">> \o pi.todo /\ pi'.cmd = pi.cmd
        /\ pi'.reply = pi.reply /\ pi'.text = pi.text /\ pi'.extended = FALSE
        /\ pi'.toConnect = pi.toConnect /\ pi'.toClose = pi.toClose
    BY <1>7 DEF ReactFailure, TypeOK, Interpreter
  <2>7. Current' = Current
    BY <2>5 DEF Current
  <2>8. pi.todo \in ToTransfer
    BY <1>2, <1>3, <1>4, <1>5, <1>6, <2>3, <2>4, <2>5, <2>6, <2>7, <1>7 DEF Ordered,
       Progress
  <2>9. pi'.todo \in {<<"PASV", "LIST">>, <<"PASV", "RETR">>}
    BY <2>3, <2>4, <2>5, <2>6, <2>7, <1>7, <2>8, PasvAgain
  <2>10. pi'.todo \in Rest("EPSV") /\ pi'.todo # <<>>
    BY <1>2, <1>3, <1>4, <1>5, <1>6, <2>3, <2>4, <2>5, <2>6, <2>7, <1>7, <2>8, <2>9, Firsts
       DEF Rest
  <2>11. Framed'
    BY <2>1, <2>2, <1>2, <1>3, <1>4, <2>5, <2>6, <2>7, <1>7, <2>8, CallsOneFit DEF Ordered,
       Fits, Reading, Resumes
  <2>12. OneHolder'
    BY SMTT(30), <2>1, <2>2, <1>2, <1>3, <1>4, <2>5, <2>6, <2>7, <1>7, <2>8,
       CallsOneFit DEF Ordered,
       AboveRemove, Reading
  <2>13. OneCont'
    BY <2>1, <2>2, <1>2, <1>3, <1>4, <2>5, <2>6, <2>7, <1>7, <2>8, CallsOneFit DEF Ordered,
       AboveCont, Conts, AboveRemove, Reading
  <2>14. Holding'
    BY <2>1, <2>2, <1>2, <1>3, <1>4, <2>5, <2>6, <2>7, <1>7, <2>8, CallsOneFit DEF Ordered,
       Holders
  <2> USE <1>2, <1>3, <1>4, <1>5, <1>6, <2>3, <2>4, <2>5, <2>6, <2>7, <1>7, <2>8, <2>9,
          <2>10
  <2>15. Clearing' /\ Started' /\ Greeted' /\ Talk'
    BY DEF Ordered, Clearing, Started, Greeted, Talk, Running, Reading, Silent, Open
  <2>16. Answered' /\ Replying'
    BY DEF Ordered, Answered, Replying, Silent
  <2>17. Progress'
    BY SMTT(30) DEF Ordered, Progress
  <2>18. Sending' /\ ClosesLast' /\ WaitsForEnd' /\ Connection' /\ FirstConnects' /\ Errors'
    BY DEF Ordered, Sending, ClosesLast, WaitsForEnd, Connection, FirstConnects, Errors,
       Running, Ends, Conts, Busy, Held, Silent, Open
  <2>19. Suits'
    BY SuitsNext DEF Ordered, Listed, Suits, Listing
  <2>20. ShownAtOnce'
    BY DEF Ordered, Listed, ShownAtOnce
  <2>21. Owing'
    BY NothingLeft DEF Ordered, Listed, Owing, Listing
  <2>22. Vouched'
    BY DEF Ordered, Listed, Vouched, Listing
  <2>23. Concluded'
    BY DEF Ordered, Listed, Concluded, Complete, Clears, Listing, Running
  <2>24. Listed'
    BY <2>19, <2>20, <2>21, <2>22, <2>23 DEF Listed
  <2>25. QED
    BY <2>11, <2>12, <2>13, <2>14, <2>15, <2>16, <2>17, <2>18, <2>24 DEF Ordered
<1>8. CASE pi.cmd # "EPSV"
  <2>1. Then(<< <<"piError", "UnknownError">>, <<"afterFailure">> >>)
    BY <1>8 DEF ReactFailure, Return, Begin
  <2>2. <<"piError", "UnknownError">> \in Frame /\ <<"afterFailure">> \in Frame
    BY Frames DEF FtpStates, FtpErrors
  <2>3. /\ calls' \in Seq(Frame) /\ Len(calls') = Len(calls) + 1
        /\ \A x : OnStack(x)' <=> x \in {"piError", "afterFailure"} \/ Below(x)
        /\ \A x : Below(x)' <=> x = "afterFailure" \/ Below(x)
        /\ \A x : Deep(x)' <=> Below(x)
        /\ \A x : Runs(x)' <=> x = "piError"
    BY <2>1, <2>2, <1>2, CallsTwo
  <2>4. Quiet' <=> Len(calls') = 0
    BY NotQuiet DEF TypeOK
  <2>5. UNCHANGED <<ftp, pi, dtp, net, hist>>
    BY <1>8 DEF ReactFailure
  <2>6. Current' = Current
    BY <2>5 DEF Current
  <2>7. Framed' /\ OneHolder' /\ OneCont' /\ Holding'
    BY <2>1, <2>2, <1>2, <1>3, <1>4, <2>5, <2>6, <1>8, CallsTwoFit DEF Ordered, Fits,
       Resumes, Reading, AboveRemove, AboveCont, Conts, Holders
  <2> USE <1>2, <1>3, <1>4, <1>5, <1>6, <2>3, <2>4, <2>5, <2>6, <1>8
  <2>8. /\ Clearing' /\ Started' /\ Greeted' /\ Talk' /\ Answered' /\ Replying'
        /\ Progress' /\ Sending' /\ ClosesLast' /\ WaitsForEnd' /\ Connection' /\ FirstConnects'
        /\ Errors'
    BY DEF Ordered, Clearing, Started, Greeted, Talk, Answered, Replying, Progress, Sending,
       ClosesLast, WaitsForEnd, Connection, FirstConnects, Errors, Running, Reading, Silent,
       Open, Ends, Conts, Busy, Held
  <2>9. Listed'
    BY DEF Ordered, Listed, Suits, ShownAtOnce, Owing, Vouched, Concluded, Listing,
       Complete, Clears, Running
  <2>10. QED
    BY <2>7, <2>8, <2>9 DEF Ordered
<1>9. QED
  BY <1>7, <1>8

\* processReply() before the last reply: the order.
LEMMA ReactWaitingOrdered ==
    ASSUME TypeOK, Replied, Ordered, Listed, TypeOK', Replied', ~hist'.overrun, ReactWaiting
    PROVE  Ordered' /\ Listed'
<1>1. Runs("react") /\ Framed /\ OneHolder /\ OneCont
  BY DEF ReactWaiting, Ordered
<1>2. /\ ~Quiet /\ calls \in Seq(Frame) /\ Fits("react", Under(1))
      /\ Fn(1) = "react"
      /\ \A x : Runs(x) <=> x = "react"
      /\ \A x : OnStack(x) <=> x = "react" \/ Below(x)
      /\ Under(1) # "none" => Below(Under(1))
      /\ Under(1) = "none" <=> Len(calls) = 1
      /\ Len(calls) = 1 => \A x : ~Below(x)
  BY <1>1, Before
<1>3. Under(1) \in {"replyDone"}
  BY <1>2 DEF Fits, Resumes, Reading
<1>4. /\ \A x : Below(x) => x \in {"replyDone", "readLines", "dtpSettled"}
      /\ Below("readLines") \/ Below("dtpSettled") => OnStack("replyDone")
  BY <1>1, <1>2, Before, Belows DEF Ordered, Clearing, AboveRemove, AboveCont, Conts,
     Reading
<1>5. pi.state = "Waiting"
  BY DEF ReactWaiting
<1>6. ftp.posted \in Nat /\ ftp'.posted \in Nat
  BY DEF TypeOK, Private
<1>7. Then(<<>>)
  BY DEF ReactWaiting, Return, Begin
<1>8. /\ calls' \in Seq(Frame) /\ Len(calls') = Len(calls) - 1
      /\ \A x : OnStack(x)' <=> Below(x)
      /\ \A x : (Below(x)' => Below(x) /\ Deep(x)) /\ (Deep(x)' => Deep(x))
      /\ \A x : x # "none" => (Runs(x)' <=> Under(1) = x)
  BY <1>7, <1>2, Returns
<1>9. Quiet' <=> Len(calls') = 0
  BY NotQuiet DEF TypeOK
<1>10. UNCHANGED <<ftp, pi, dtp, net, hist>>
  BY DEF ReactWaiting
<1>11. Current' = Current
  BY <1>10 DEF Current
<1>12. Framed' /\ OneHolder' /\ OneCont' /\ Holding'
  BY <1>7, <1>2, <1>3, <1>4, <1>10, <1>11, ReturnsFit DEF Ordered, Fits, Resumes, Reading,
     AboveRemove, AboveCont, Conts, Holders
<1> USE <1>2, <1>3, <1>4, <1>5, <1>6, <1>8, <1>9, <1>10, <1>11
<1>13. /\ Clearing' /\ Started' /\ Greeted' /\ Talk' /\ Answered' /\ Replying'
       /\ Progress'
  BY DEF Ordered, Clearing, Started, Greeted, Talk, Answered, Replying, Progress, Running,
     Reading, Silent, Open
<1>14. Sending' /\ ClosesLast' /\ WaitsForEnd'
  BY DEF Ordered, Sending, ClosesLast, WaitsForEnd, Running, Ends, Conts, Busy, Held,
     Silent, Open
<1>15. Connection' /\ FirstConnects' /\ Errors'
  BY SMTT(30) DEF Ordered, Connection, FirstConnects, Errors, Open, Running
<1>16. Listed'
  BY DEF Ordered, Listed, Suits, ShownAtOnce, Owing, Vouched, Concluded, Listing,
     Complete, Clears, Running
<1>17. QED
  BY <1>12, <1>13, <1>14, <1>15, <1>16 DEF Ordered

\* processReply() once the error was told: the order.
LEMMA AfterFailureOrdered ==
    ASSUME TypeOK, Replied, Ordered, Listed, TypeOK', Replied', ~hist'.overrun, AfterFailure
    PROVE  Ordered' /\ Listed'
<1>1. Runs("afterFailure") /\ Framed /\ OneHolder /\ OneCont
  BY DEF AfterFailure, Ordered
<1>2. /\ ~Quiet /\ calls \in Seq(Frame) /\ Fits("afterFailure", Under(1))
      /\ Fn(1) = "afterFailure"
      /\ \A x : Runs(x) <=> x = "afterFailure"
      /\ \A x : OnStack(x) <=> x = "afterFailure" \/ Below(x)
      /\ Under(1) # "none" => Below(Under(1))
      /\ Under(1) = "none" <=> Len(calls) = 1
      /\ Len(calls) = 1 => \A x : ~Below(x)
  BY <1>1, Before
<1>3. Under(1) \in {"replyDone"}
  BY <1>2 DEF Fits, Resumes, Reading
<1>4. /\ \A x : Below(x) => x \in {"replyDone", "readLines", "dtpSettled"}
      /\ Below("readLines") \/ Below("dtpSettled") => OnStack("replyDone")
  BY <1>1, <1>2, Before, Belows DEF Ordered, Clearing, AboveRemove, AboveCont, Conts,
     Reading
<1>5. ftp.posted \in Nat /\ ftp'.posted \in Nat
  BY DEF TypeOK, Private
<1>6. CASE pi.state = "Waiting"
  <2>1. Then(<<>>)
    BY <1>6 DEF AfterFailure, Return, Begin
  <2>2. /\ calls' \in Seq(Frame) /\ Len(calls') = Len(calls) - 1
        /\ \A x : OnStack(x)' <=> Below(x)
        /\ \A x : (Below(x)' => Below(x) /\ Deep(x)) /\ (Deep(x)' => Deep(x))
        /\ \A x : x # "none" => (Runs(x)' <=> Under(1) = x)
    BY <2>1, <1>2, Returns
  <2>3. Quiet' <=> Len(calls') = 0
    BY NotQuiet DEF TypeOK
  <2>4. UNCHANGED <<ftp, pi, dtp, net, hist>>
    BY <1>6 DEF AfterFailure
  <2>5. Current' = Current
    BY <2>4 DEF Current
  <2>6. Framed' /\ OneHolder' /\ OneCont' /\ Holding'
    BY <2>1, <1>2, <1>3, <1>4, <2>4, <2>5, <1>6, ReturnsFit DEF Ordered, Fits, Resumes,
       Reading, AboveRemove, AboveCont, Conts, Holders
  <2> USE <1>2, <1>3, <1>4, <1>5, <2>2, <2>3, <2>4, <2>5, <1>6
  <2>7. Clearing' /\ Started' /\ Greeted' /\ Talk'
    BY DEF Ordered, Clearing, Started, Greeted, Talk, Running, Reading, Silent, Open
  <2>8. Answered' /\ Replying' /\ Progress'
    BY DEF Ordered, Answered, Replying, Progress, Silent
  <2>9. Sending' /\ ClosesLast' /\ WaitsForEnd'
    BY SMTT(30) DEF Ordered, Sending, ClosesLast, WaitsForEnd, Running, Ends, Conts, Busy, Held,
       Silent, Open
  <2>10. Connection' /\ FirstConnects' /\ Errors'
    BY DEF Ordered, Connection, FirstConnects, Errors, Open, Running
  <2>11. Listed'
    BY SMTT(30) DEF Ordered, Listed, Suits, ShownAtOnce, Owing, Vouched, Concluded, Listing,
       Complete, Clears, Running
  <2>12. QED
    BY <2>6, <2>7, <2>8, <2>9, <2>10, <2>11 DEF Ordered
<1>7. CASE pi.state # "Waiting"
  <2>1. Then(<< <<"startNextCmd">> >>)
    BY <1>7 DEF AfterFailure, Return, Begin
  <2>2. <<"startNextCmd">> \in Frame
    BY Frames DEF FtpStates, FtpErrors
  <2>3. /\ calls' \in Seq(Frame) /\ Len(calls') = Len(calls)
        /\ \A x : OnStack(x)' <=> x = "startNextCmd" \/ Below(x)
        /\ \A x : Below(x)' <=> Below(x)
        /\ \A x : Deep(x)' <=> Deep(x)
        /\ \A x : Runs(x)' <=> x = "startNextCmd"
    BY <2>1, <2>2, <1>2, CallsOne
  <2>4. Quiet' <=> Len(calls') = 0
    BY NotQuiet DEF TypeOK
  <2>5. UNCHANGED <<ftp, dtp, net, hist>>
    BY <1>7 DEF AfterFailure
  <2>6. /\ pi'.state = "Idle" /\ pi'.todo = pi.todo /\ pi'.cmd = pi.cmd /\ pi'.reply = pi.reply
        /\ pi'.text = pi.text /\ pi'.extended = pi.extended /\ pi'.toConnect = pi.toConnect
        /\ pi'.toClose = pi.toClose
    BY <1>7 DEF AfterFailure, TypeOK, Interpreter
  <2>7. Current' = Current
    BY <2>5 DEF Current
  <2>8. Silent
    BY <1>2, <1>3, <1>4, <1>5, <2>3, <2>4, <2>5, <2>6, <2>7, <1>7 DEF Ordered, Talk,
       Sending, Conts, TypeOK, Interpreter
  <2>9. net.link \notin {"none", "lookup", "connecting"}
    BY SMTT(20), <1>2, <1>3, <1>4, <1>5, <2>3, <2>4, <2>5, <2>6, <2>7, <1>7, <2>8 DEF
       Ordered, Greeted, Talk, Sending, Conts
  <2>10. Framed' /\ OneHolder' /\ OneCont' /\ Holding'
    BY <2>1, <2>2, <1>2, <1>3, <1>4, <2>5, <2>6, <2>7, <1>7, <2>8, <2>9, CallsOneFit DEF
       Ordered, Fits, Resumes, Reading, AboveRemove, AboveCont, Conts, Holders
  <2> USE <1>2, <1>3, <1>4, <1>5, <2>3, <2>4, <2>5, <2>6, <2>7, <1>7, <2>8, <2>9
  <2>11. Clearing' /\ Started'
    BY DEF Ordered, Clearing, Started, Running, Reading, Silent, Open
  <2>12. Greeted'
    BY DEF Greeted
  <2>13. Talk'
    BY DEF Ordered, Talk, Silent
  <2>14. Answered' /\ Replying' /\ Progress'
    BY DEF Ordered, Answered, Replying, Progress, Silent
  <2>15. Sending' /\ ClosesLast' /\ WaitsForEnd' /\ Connection' /\ FirstConnects' /\ Errors'
    BY DEF Ordered, Sending, ClosesLast, WaitsForEnd, Connection, FirstConnects, Errors,
       Running, Ends, Conts, Busy, Held, Silent, Open
  <2>16. Suits'
    BY DEF Ordered, Listed, Suits, Listing
  <2>17. ShownAtOnce'
    BY DEF Ordered, Listed, ShownAtOnce
  <2>18. Owing'
    BY DEF Ordered, Listed, Owing, Listing
  <2>19. Vouched'
    BY DEF Ordered, Listed, Vouched, Listing
  <2>20. Concluded'
    BY DEF Ordered, Listed, Concluded, Complete, Clears, Listing, Running, Sending,
       Conts, TypeOK, Interpreter
  <2>21. Listed'
    BY <2>16, <2>17, <2>18, <2>19, <2>20 DEF Listed
  <2>22. QED
    BY <2>10, <2>11, <2>12, <2>13, <2>14, <2>15, <2>21 DEF Ordered
<1>8. QED
  BY <1>6, <1>7

\* processReply() forgets the error of the data connection: the order.
LEMMA ClearErrorOrdered ==
    ASSUME TypeOK, Replied, Ordered, Listed, TypeOK', Replied', ~hist'.overrun, ClearError
    PROVE  Ordered' /\ Listed'
<1>1. Runs("clearError") /\ Framed /\ OneHolder /\ OneCont
  BY DEF ClearError, Ordered
<1>2. /\ ~Quiet /\ calls \in Seq(Frame) /\ Fits("clearError", Under(1))
      /\ Fn(1) = "clearError"
      /\ \A x : Runs(x) <=> x = "clearError"
      /\ \A x : OnStack(x) <=> x = "clearError" \/ Below(x)
      /\ Under(1) # "none" => Below(Under(1))
      /\ Under(1) = "none" <=> Len(calls) = 1
      /\ Len(calls) = 1 => \A x : ~Below(x)
  BY <1>1, Before
<1>3. Under(1) \in {"replyDone"}
  BY <1>2 DEF Fits, Resumes, Reading
<1>4. /\ \A x : Below(x) => x \in {"replyDone", "readLines", "dtpSettled"}
      /\ Below("readLines") \/ Below("dtpSettled") => OnStack("replyDone")
  BY <1>1, <1>2, Before, Belows DEF Ordered, Clearing, AboveRemove, AboveCont, Conts,
     Reading
<1>5. ftp.posted \in Nat /\ ftp'.posted \in Nat
  BY DEF TypeOK, Private
<1>6. Then(<< <<"startNextCmd">> >>)
  BY DEF ClearError, Return, Begin
<1>7. <<"startNextCmd">> \in Frame
  BY Frames DEF FtpStates, FtpErrors
<1>8. /\ calls' \in Seq(Frame) /\ Len(calls') = Len(calls)
      /\ \A x : OnStack(x)' <=> x = "startNextCmd" \/ Below(x)
      /\ \A x : Below(x)' <=> Below(x)
      /\ \A x : Deep(x)' <=> Deep(x)
      /\ \A x : Runs(x)' <=> x = "startNextCmd"
  BY <1>6, <1>7, <1>2, CallsOne
<1>9. Quiet' <=> Len(calls') = 0
  BY NotQuiet DEF TypeOK
<1>10. UNCHANGED <<ftp, pi, net, hist>>
  BY DEF ClearError
<1>11. dtp'.state = dtp.state /\ dtp'.lines = dtp.lines /\ dtp'.err = FALSE
  BY DEF ClearError, TypeOK, DataConnection
<1>12. Current' = Current
  BY <1>10 DEF Current
<1>13. Framed' /\ OneHolder' /\ OneCont' /\ Holding'
  BY <1>6, <1>7, <1>2, <1>3, <1>4, <1>10, <1>11, <1>12, CallsOneFit DEF Ordered, Fits,
     Resumes, Reading, AboveRemove, AboveCont, Conts, Holders
<1> USE <1>2, <1>3, <1>4, <1>5, <1>8, <1>9, <1>10, <1>11, <1>12
<1>14. /\ Clearing' /\ Started' /\ Greeted' /\ Talk' /\ Answered' /\ Replying'
       /\ Progress'
  BY DEF Ordered, Clearing, Started, Greeted, Talk, Answered, Replying, Progress, Running,
     Reading, Silent, Open
<1>15. Sending' /\ ClosesLast' /\ WaitsForEnd' /\ Connection' /\ FirstConnects' /\ Errors'
  BY SMTT(30) DEF Ordered, Sending, ClosesLast, WaitsForEnd, Connection, FirstConnects, Errors,
     Running, Ends, Conts, Busy, Held, Silent, Open
<1>16. Listed'
  BY DEF Ordered, Listed, Suits, ShownAtOnce, Owing, Vouched, Concluded, Listing,
     Complete, Clears, Running
<1>17. QED
  BY <1>13, <1>14, <1>15, <1>16 DEF Ordered

\* The data connection stands: the order.
LEMMA DtpConnectedOrdered ==
    ASSUME TypeOK, Replied, Ordered, Listed, TypeOK', Replied', ~hist'.overrun, DtpConnected
    PROVE  Ordered' /\ Listed'
<1>1. Runs("dtpConnected") /\ Framed /\ OneHolder /\ OneCont
  BY DEF DtpConnected, Ordered
<1>2. /\ ~Quiet /\ calls \in Seq(Frame) /\ Fits("dtpConnected", Under(1))
      /\ Fn(1) = "dtpConnected"
      /\ \A x : Runs(x) <=> x = "dtpConnected"
      /\ \A x : OnStack(x) <=> x = "dtpConnected" \/ Below(x)
      /\ Under(1) # "none" => Below(Under(1))
      /\ Under(1) = "none" <=> Len(calls) = 1
      /\ Len(calls) = 1 => \A x : ~Below(x)
  BY <1>1, Before
<1>3. Under(1) \in {"none"}
  BY <1>2 DEF Fits, Resumes, Reading
<1>4. /\ \A x : Below(x) => x \in {"replyDone", "readLines", "dtpSettled"}
      /\ Below("readLines") \/ Below("dtpSettled") => OnStack("replyDone")
  BY <1>1, <1>2, Before, Belows DEF Ordered, Clearing, AboveRemove, AboveCont, Conts,
     Reading
<1>5. ftp.posted \in Nat /\ ftp'.posted \in Nat
  BY DEF TypeOK, Private
<1>6. Then(<< <<"startNextCmd">> >>)
  BY DEF DtpConnected, Return, Begin
<1>7. <<"startNextCmd">> \in Frame
  BY Frames DEF FtpStates, FtpErrors
<1>8. /\ calls' \in Seq(Frame) /\ Len(calls') = Len(calls)
      /\ \A x : OnStack(x)' <=> x = "startNextCmd" \/ Below(x)
      /\ \A x : Below(x)' <=> Below(x)
      /\ \A x : Deep(x)' <=> Deep(x)
      /\ \A x : Runs(x)' <=> x = "startNextCmd"
  BY <1>6, <1>7, <1>2, CallsOne
<1>9. Quiet' <=> Len(calls') = 0
  BY NotQuiet DEF TypeOK
<1>10. UNCHANGED <<ftp, dtp, net, hist>>
  BY DEF DtpConnected
<1>11. /\ pi'.state = pi.state /\ pi'.todo = pi.todo /\ pi'.cmd = pi.cmd
       /\ pi'.reply = pi.reply /\ pi'.text = pi.text /\ pi'.extended = pi.extended
       /\ pi'.toConnect = FALSE /\ pi'.toClose = pi.toClose
  BY DEF DtpConnected, TypeOK, Interpreter
<1>12. Current' = Current
  BY <1>10 DEF Current
<1>13. Framed' /\ OneHolder' /\ OneCont' /\ Holding'
  BY <1>6, <1>7, <1>2, <1>3, <1>4, <1>10, <1>11, <1>12, CallsOneFit DEF Ordered, Fits,
     Resumes, Reading, AboveRemove, AboveCont, Conts, Holders
<1> USE <1>2, <1>3, <1>4, <1>5, <1>8, <1>9, <1>10, <1>11, <1>12
<1>14. /\ Clearing' /\ Started' /\ Greeted' /\ Talk' /\ Answered' /\ Replying'
       /\ Progress' /\ Sending' /\ ClosesLast' /\ WaitsForEnd' /\ Connection' /\ FirstConnects'
       /\ Errors'
  BY DEF Ordered, Clearing, Started, Greeted, Talk, Answered, Replying, Progress, Sending,
     ClosesLast, WaitsForEnd, Connection, FirstConnects, Errors, Running, Reading, Silent,
     Open, Ends, Conts, Busy, Held
<1>15. Listed'
  BY DEF Ordered, Listed, Suits, ShownAtOnce, Owing, Vouched, Concluded, Listing,
     Complete, Clears, Running
<1>16. QED
  BY <1>13, <1>14, <1>15 DEF Ordered

\* The data connection is refused: the order.
LEMMA DtpRefusedOrdered ==
    ASSUME TypeOK, Replied, Ordered, Listed, TypeOK', Replied', ~hist'.overrun, DtpRefused
    PROVE  Ordered' /\ Listed'
<1>1. Runs("dtpRefused") /\ Framed /\ OneHolder /\ OneCont
  BY DEF DtpRefused, Ordered
<1>2. /\ ~Quiet /\ calls \in Seq(Frame) /\ Fits("dtpRefused", Under(1))
      /\ Fn(1) = "dtpRefused"
      /\ \A x : Runs(x) <=> x = "dtpRefused"
      /\ \A x : OnStack(x) <=> x = "dtpRefused" \/ Below(x)
      /\ Under(1) # "none" => Below(Under(1))
      /\ Under(1) = "none" <=> Len(calls) = 1
      /\ Len(calls) = 1 => \A x : ~Below(x)
  BY <1>1, Before
<1>3. Under(1) \in {"none"}
  BY <1>2 DEF Fits, Resumes, Reading
<1>4. /\ \A x : Below(x) => x \in {"replyDone", "readLines", "dtpSettled"}
      /\ Below("readLines") \/ Below("dtpSettled") => OnStack("replyDone")
  BY <1>1, <1>2, Before, Belows DEF Ordered, Clearing, AboveRemove, AboveCont, Conts,
     Reading
<1>5. ftp.posted \in Nat /\ ftp'.posted \in Nat
  BY DEF TypeOK, Private
<1>6. Then(<< <<"piError", "ConnectionRefused">>, <<"afterRefusal">> >>)
  BY DEF DtpRefused, Return, Begin
<1>7. <<"piError", "ConnectionRefused">> \in Frame /\ <<"afterRefusal">> \in Frame
  BY Frames DEF FtpStates, FtpErrors
<1>8. /\ calls' \in Seq(Frame) /\ Len(calls') = Len(calls) + 1
      /\ \A x : OnStack(x)' <=> x \in {"piError", "afterRefusal"} \/ Below(x)
      /\ \A x : Below(x)' <=> x = "afterRefusal" \/ Below(x)
      /\ \A x : Deep(x)' <=> Below(x)
      /\ \A x : Runs(x)' <=> x = "piError"
  BY <1>6, <1>7, <1>2, CallsTwo
<1>9. Quiet' <=> Len(calls') = 0
  BY NotQuiet DEF TypeOK
<1>10. UNCHANGED <<ftp, pi, dtp, net, hist>>
  BY DEF DtpRefused
<1>11. Current' = Current
  BY <1>10 DEF Current
<1>12. Framed' /\ OneHolder' /\ OneCont' /\ Holding'
  BY <1>6, <1>7, <1>2, <1>3, <1>4, <1>10, <1>11, CallsTwoFit DEF Ordered, Fits, Resumes,
     Reading, AboveRemove, AboveCont, Conts, Holders
<1> USE <1>2, <1>3, <1>4, <1>5, <1>8, <1>9, <1>10, <1>11
<1>13. /\ Clearing' /\ Started' /\ Greeted' /\ Talk' /\ Answered' /\ Replying'
       /\ Progress' /\ Sending' /\ ClosesLast' /\ WaitsForEnd' /\ Connection' /\ FirstConnects'
       /\ Errors'
  BY DEF Ordered, Clearing, Started, Greeted, Talk, Answered, Replying, Progress, Sending,
     ClosesLast, WaitsForEnd, Connection, FirstConnects, Errors, Running, Reading, Silent,
     Open, Ends, Conts, Busy, Held
<1>14. Listed'
  BY DEF Ordered, Listed, Suits, ShownAtOnce, Owing, Vouched, Concluded, Listing,
     Complete, Clears, Running
<1>15. QED
  BY <1>12, <1>13, <1>14 DEF Ordered

\* What follows the refusal: the order.
LEMMA AfterRefusalOrdered ==
    ASSUME TypeOK, Replied, Ordered, Listed, TypeOK', Replied', ~hist'.overrun, AfterRefusal
    PROVE  Ordered' /\ Listed'
<1>1. Runs("afterRefusal") /\ Framed /\ OneHolder /\ OneCont
  BY DEF AfterRefusal, Ordered
<1>2. /\ ~Quiet /\ calls \in Seq(Frame) /\ Fits("afterRefusal", Under(1))
      /\ Fn(1) = "afterRefusal"
      /\ \A x : Runs(x) <=> x = "afterRefusal"
      /\ \A x : OnStack(x) <=> x = "afterRefusal" \/ Below(x)
      /\ Under(1) # "none" => Below(Under(1))
      /\ Under(1) = "none" <=> Len(calls) = 1
      /\ Len(calls) = 1 => \A x : ~Below(x)
  BY <1>1, Before
<1>3. Under(1) \in {"none"}
  BY <1>2 DEF Fits, Resumes, Reading
<1>4. /\ \A x : Below(x) => x \in {"replyDone", "readLines", "dtpSettled"}
      /\ Below("readLines") \/ Below("dtpSettled") => OnStack("replyDone")
  BY <1>1, <1>2, Before, Belows DEF Ordered, Clearing, AboveRemove, AboveCont, Conts,
     Reading
<1>5. ftp.posted \in Nat /\ ftp'.posted \in Nat
  BY DEF TypeOK, Private
<1>6. Then(<< <<"startNextCmd">> >>)
  BY DEF AfterRefusal, Return, Begin
<1>7. <<"startNextCmd">> \in Frame
  BY Frames DEF FtpStates, FtpErrors
<1>8. /\ calls' \in Seq(Frame) /\ Len(calls') = Len(calls)
      /\ \A x : OnStack(x)' <=> x = "startNextCmd" \/ Below(x)
      /\ \A x : Below(x)' <=> Below(x)
      /\ \A x : Deep(x)' <=> Deep(x)
      /\ \A x : Runs(x)' <=> x = "startNextCmd"
  BY <1>6, <1>7, <1>2, CallsOne
<1>9. Quiet' <=> Len(calls') = 0
  BY NotQuiet DEF TypeOK
<1>10. UNCHANGED <<ftp, pi, dtp, net, hist>>
  BY DEF AfterRefusal
<1>11. Current' = Current
  BY <1>10 DEF Current
<1>12. Framed' /\ OneHolder' /\ OneCont' /\ Holding'
  BY <1>6, <1>7, <1>2, <1>3, <1>4, <1>10, <1>11, CallsOneFit DEF Ordered, Fits, Resumes,
     Reading, AboveRemove, AboveCont, Conts, Holders
<1> USE <1>2, <1>3, <1>4, <1>5, <1>8, <1>9, <1>10, <1>11
<1>13. /\ Clearing' /\ Started' /\ Greeted' /\ Talk' /\ Answered' /\ Replying'
       /\ Progress' /\ Sending' /\ ClosesLast' /\ WaitsForEnd' /\ Connection' /\ FirstConnects'
       /\ Errors'
  BY DEF Ordered, Clearing, Started, Greeted, Talk, Answered, Replying, Progress, Sending,
     ClosesLast, WaitsForEnd, Connection, FirstConnects, Errors, Running, Reading, Silent,
     Open, Ends, Conts, Busy, Held
<1>14. Listed'
  BY DEF Ordered, Listed, Suits, ShownAtOnce, Owing, Vouched, Concluded, Listing,
     Complete, Clears, Running
<1>15. QED
  BY <1>12, <1>13, <1>14 DEF Ordered

\* The data connection has ended: the order.
LEMMA DtpClosedOrdered ==
    ASSUME TypeOK, Replied, Ordered, Listed, TypeOK', Replied', ~hist'.overrun, DtpClosed
    PROVE  Ordered' /\ Listed'
<1>1. Runs("dtpClosed") /\ Framed /\ OneHolder /\ OneCont
  BY DEF DtpClosed, Ordered
<1>2. /\ ~Quiet /\ calls \in Seq(Frame) /\ Fits("dtpClosed", Under(1))
      /\ Fn(1) = "dtpClosed"
      /\ \A x : Runs(x) <=> x = "dtpClosed"
      /\ \A x : OnStack(x) <=> x = "dtpClosed" \/ Below(x)
      /\ Under(1) # "none" => Below(Under(1))
      /\ Under(1) = "none" <=> Len(calls) = 1
      /\ Len(calls) = 1 => \A x : ~Below(x)
  BY <1>1, Before
<1>3. Under(1) \in {"none", "pendingCleared"}
  BY <1>2 DEF Fits, Resumes, Reading
<1>4. /\ \A x : Below(x)
             => x \in {"replyDone", "readLines", "dtpSettled", "removeFirst", "commandFailed",
                       "pendingCleared", "react", "afterFailure", "clearError", "afterRefusal"}
      /\ Below("readLines") \/ Below("dtpSettled") => OnStack("replyDone")
      /\ Below("commandFailed") \/ Below("pendingCleared") => Below("removeFirst")
  BY <1>1, <1>2, Before, Belows DEF Ordered, Clearing, AboveRemove, AboveCont, Conts,
     Reading
<1>5. ftp.posted \in Nat /\ ftp'.posted \in Nat
  BY DEF TypeOK, Private
<1>6. CASE pi.toClose
  <2>1. << <<"processReply">>,
            <<"replyDone">> >> \o << <<"dtpSettled">> >> = << <<"processReply">>,
            <<"replyDone">>, <<"dtpSettled">> >>
    BY Zenon, Frames, JoinThree
  <2>2. Then(<< <<"processReply">>, <<"replyDone">>, <<"dtpSettled">> >>)
    BY <1>6, <2>1 DEF DtpClosed
  <2>3. <<"processReply">> \in Frame /\ <<"replyDone">> \in Frame /\ <<"dtpSettled">> \in Frame
    BY Frames DEF FtpStates, FtpErrors
  <2>4. /\ calls' \in Seq(Frame) /\ Len(calls') = Len(calls) + 2
        /\ \A x : OnStack(x)' <=> x \in {"processReply", "replyDone", "dtpSettled"} \/ Below(x)
        /\ \A x : Below(x)' <=> x \in {"replyDone", "dtpSettled"} \/ Below(x)
        /\ \A x : Deep(x)' <=> x = "dtpSettled" \/ Below(x)
        /\ \A x : Runs(x)' <=> x = "processReply"
    BY <2>2, <2>3, <1>2, CallsThree
  <2>5. Quiet' <=> Len(calls') = 0
    BY NotQuiet DEF TypeOK
  <2>6. UNCHANGED <<ftp, pi, dtp, net, hist>>
    BY <1>6 DEF DtpClosed
  <2>7. Current' = Current
    BY <2>6 DEF Current
  <2>8. Len(calls) = 1 /\ pi.state = "Waiting" /\ pi.text /\ Silent /\ pi.reply.to = hist.sent
        /\ pi.reply.code \in CodesFor(pi.cmd) /\ pi.reply.code \in {226, 250}
    BY <1>2, <1>3, <1>4, <1>5, <2>4, <2>5, <2>6, <2>7, <1>6 DEF Ordered, Clearing,
       WaitsForEnd, Held
  <2>9. \A x : ~Below(x)
    BY <1>2, <1>3, <1>4, <1>5, <2>4, <2>5, <2>6, <2>7, <1>6, <2>8
  <2>10. Framed'
    BY <2>2, <2>3, <1>2, <1>3, <1>4, <2>6, <2>7, <1>6, <2>8, <2>9, CallsThreeFit DEF
       Ordered, Fits, Reading, Resumes
  <2>11. OneHolder'
    BY <2>2, <2>3, <1>2, <1>3, <1>4, <2>8, <2>9, CallsThreeFit DEF Ordered, Conts
  <2>12. OneCont'
    BY <2>2, <2>3, <1>2, <1>3, <1>4, <2>8, <2>9, CallsThreeFit DEF Ordered, Conts
  <2>13. Holding'
    BY <2>2, <2>3, <1>2, <1>3, <1>4, <2>6, <2>7, <1>6, <2>8, <2>9, CallsThreeFit DEF
       Ordered, Holders
  <2> USE <1>2, <1>3, <1>4, <1>5, <2>4, <2>5, <2>6, <2>7, <1>6, <2>8, <2>9
  <2>14. /\ Clearing' /\ Started' /\ Greeted' /\ Talk' /\ Answered' /\ Replying'
         /\ Progress' /\ Sending' /\ ClosesLast' /\ WaitsForEnd' /\ Connection' /\ FirstConnects'
         /\ Errors'
    BY DEF Ordered, Clearing, Started, Greeted, Talk, Answered, Replying, Progress, Sending,
       ClosesLast, WaitsForEnd, Connection, FirstConnects, Errors, Running, Reading, Silent,
       Open, Ends, Conts, Busy, Held
  <2>15. Listed'
    BY DEF Ordered, Listed, Suits, ShownAtOnce, Owing, Vouched, Concluded, Listing,
       Complete, Clears, Running
  <2>16. QED
    BY <2>10, <2>11, <2>12, <2>13, <2>14, <2>15 DEF Ordered
<1>7. CASE ~pi.toClose
  <2>1. Then(<< <<"dtpSettled">> >>)
    BY <1>7 DEF DtpClosed, Return, Begin
  <2>2. <<"dtpSettled">> \in Frame
    BY Frames DEF FtpStates, FtpErrors
  <2>3. /\ calls' \in Seq(Frame) /\ Len(calls') = Len(calls)
        /\ \A x : OnStack(x)' <=> x = "dtpSettled" \/ Below(x)
        /\ \A x : Below(x)' <=> Below(x)
        /\ \A x : Deep(x)' <=> Deep(x)
        /\ \A x : Runs(x)' <=> x = "dtpSettled"
    BY <2>1, <2>2, <1>2, CallsOne
  <2>4. Quiet' <=> Len(calls') = 0
    BY NotQuiet DEF TypeOK
  <2>5. UNCHANGED <<ftp, pi, dtp, net, hist>>
    BY <1>7 DEF DtpClosed
  <2>6. Current' = Current
    BY <2>5 DEF Current
  <2>7. Framed' /\ OneHolder' /\ OneCont' /\ Holding'
    BY <2>1, <2>2, <1>2, <1>3, <1>4, <2>5, <2>6, <1>7, CallsOneFit DEF Ordered, Fits,
       Resumes, Reading, AboveRemove, AboveCont, Conts, Holders
  <2> USE <1>2, <1>3, <1>4, <1>5, <2>3, <2>4, <2>5, <2>6, <1>7
  <2>8. /\ Clearing' /\ Started' /\ Greeted' /\ Talk' /\ Answered' /\ Replying'
        /\ Progress' /\ Sending' /\ ClosesLast' /\ WaitsForEnd' /\ Connection' /\ FirstConnects'
        /\ Errors'
    BY DEF Ordered, Clearing, Started, Greeted, Talk, Answered, Replying, Progress, Sending,
       ClosesLast, WaitsForEnd, Connection, FirstConnects, Errors, Running, Reading, Silent,
       Open, Ends, Conts, Busy, Held
  <2>9. Listed'
    BY DEF Ordered, Listed, Suits, ShownAtOnce, Owing, Vouched, Concluded, Listing,
       Complete, Clears, Running
  <2>10. QED
    BY <2>7, <2>8, <2>9 DEF Ordered
<1>8. QED
  BY <1>6, <1>7

\* The end of the data connection is dealt with: the order.
LEMMA DtpSettledOrdered ==
    ASSUME TypeOK, Replied, Ordered, Listed, TypeOK', Replied', ~hist'.overrun, DtpSettled
    PROVE  Ordered' /\ Listed'
<1>1. Runs("dtpSettled") /\ Framed /\ OneHolder /\ OneCont
  BY DEF DtpSettled, Ordered
<1>2. /\ ~Quiet /\ calls \in Seq(Frame) /\ Fits("dtpSettled", Under(1))
      /\ Fn(1) = "dtpSettled"
      /\ \A x : Runs(x) <=> x = "dtpSettled"
      /\ \A x : OnStack(x) <=> x = "dtpSettled" \/ Below(x)
      /\ Under(1) # "none" => Below(Under(1))
      /\ Under(1) = "none" <=> Len(calls) = 1
      /\ Len(calls) = 1 => \A x : ~Below(x)
  BY <1>1, Before
<1>3. Under(1) \in {"none", "pendingCleared"}
  BY <1>2 DEF Fits, Resumes, Reading
<1>4. /\ \A x : Below(x)
             => x \in {"replyDone", "readLines", "dtpSettled", "removeFirst", "commandFailed",
                       "pendingCleared", "react", "afterFailure", "clearError", "afterRefusal"}
      /\ Below("readLines") \/ Below("dtpSettled") => OnStack("replyDone")
      /\ Below("commandFailed") \/ Below("pendingCleared") => Below("removeFirst")
  BY <1>1, <1>2, Before, Belows DEF Ordered, Clearing, AboveRemove, AboveCont, Conts,
     Reading
<1>5. ftp.posted \in Nat /\ ftp'.posted \in Nat
  BY DEF TypeOK, Private
<1>6. Then(<< <<"readyRead">> >>)
  BY DEF DtpSettled, Return, Begin
<1>7. <<"readyRead">> \in Frame
  BY Frames DEF FtpStates, FtpErrors
<1>8. /\ calls' \in Seq(Frame) /\ Len(calls') = Len(calls)
      /\ \A x : OnStack(x)' <=> x = "readyRead" \/ Below(x)
      /\ \A x : Below(x)' <=> Below(x)
      /\ \A x : Deep(x)' <=> Deep(x)
      /\ \A x : Runs(x)' <=> x = "readyRead"
  BY <1>6, <1>7, <1>2, CallsOne
<1>9. Quiet' <=> Len(calls') = 0
  BY NotQuiet DEF TypeOK
<1>10. UNCHANGED <<ftp, dtp, net, hist>>
  BY DEF DtpSettled
<1>11. /\ pi'.state = pi.state /\ pi'.todo = pi.todo /\ pi'.cmd = pi.cmd
       /\ pi'.reply = pi.reply /\ pi'.text = pi.text /\ pi'.extended = pi.extended
       /\ pi'.toConnect = pi.toConnect /\ pi'.toClose = FALSE
  BY DEF DtpSettled, TypeOK, Interpreter
<1>12. Current' = Current
  BY <1>10 DEF Current
<1>13. Framed' /\ OneHolder' /\ OneCont' /\ Holding'
  BY <1>6, <1>7, <1>2, <1>3, <1>4, <1>10, <1>11, <1>12, CallsOneFit DEF Ordered, Fits,
     Resumes, Reading, AboveRemove, AboveCont, Conts, Holders
<1> USE <1>2, <1>3, <1>4, <1>5, <1>8, <1>9, <1>10, <1>11, <1>12
<1>14. /\ Clearing' /\ Started' /\ Greeted' /\ Talk' /\ Answered' /\ Replying'
       /\ Progress' /\ Sending' /\ ClosesLast' /\ WaitsForEnd' /\ Connection' /\ FirstConnects'
       /\ Errors'
  BY DEF Ordered, Clearing, Started, Greeted, Talk, Answered, Replying, Progress, Sending,
     ClosesLast, WaitsForEnd, Connection, FirstConnects, Errors, Running, Reading, Silent,
     Open, Ends, Conts, Busy, Held
<1>15. Listed'
  BY DEF Ordered, Listed, Suits, ShownAtOnce, Owing, Vouched, Concluded, Listing,
     Complete, Clears, Running
<1>16. QED
  BY <1>13, <1>14, <1>15 DEF Ordered

\* QFtpDTP::socketReadyRead(): the order.
LEMMA DataReadyReadOrdered ==
    ASSUME TypeOK, Replied, Ordered, Listed, TypeOK', Replied', ~hist'.overrun, DataReadyRead
    PROVE  Ordered' /\ Listed'
<1>1. Runs("dataReadyRead") /\ Framed /\ OneHolder /\ OneCont
  BY DEF DataReadyRead, Ordered
<1>2. /\ ~Quiet /\ calls \in Seq(Frame) /\ Fits("dataReadyRead", Under(1))
      /\ Fn(1) = "dataReadyRead"
      /\ \A x : Runs(x) <=> x = "dataReadyRead"
      /\ \A x : OnStack(x) <=> x = "dataReadyRead" \/ Below(x)
      /\ Under(1) # "none" => Below(Under(1))
      /\ Under(1) = "none" <=> Len(calls) = 1
      /\ Len(calls) = 1 => \A x : ~Below(x)
  BY <1>1, Before
<1>3. Under(1) \in {"none"}
  BY <1>2 DEF Fits, Resumes, Reading
<1>4. /\ \A x : Below(x) => x \in {"replyDone", "readLines", "dtpSettled"}
      /\ Below("readLines") \/ Below("dtpSettled") => OnStack("replyDone")
  BY <1>1, <1>2, Before, Belows DEF Ordered, Clearing, AboveRemove, AboveCont, Conts,
     Reading
<1>5. ftp.posted \in Nat /\ ftp'.posted \in Nat
  BY DEF TypeOK, Private
<1>6. CASE pi.cmd = "none"
  <2>1. Then(<< <<"dtpClosed">>, <<"dtpClosed">> >>)
    BY <1>6 DEF DataReadyRead, Return, Begin
  <2>2. <<"dtpClosed">> \in Frame /\ <<"dtpClosed">> \in Frame
    BY Frames DEF FtpStates, FtpErrors
  <2>3. /\ calls' \in Seq(Frame) /\ Len(calls') = Len(calls) + 1
        /\ \A x : OnStack(x)' <=> x \in {"dtpClosed", "dtpClosed"} \/ Below(x)
        /\ \A x : Below(x)' <=> x = "dtpClosed" \/ Below(x)
        /\ \A x : Deep(x)' <=> Below(x)
        /\ \A x : Runs(x)' <=> x = "dtpClosed"
    BY <2>1, <2>2, <1>2, CallsTwo
  <2>4. Quiet' <=> Len(calls') = 0
    BY NotQuiet DEF TypeOK
  <2>5. UNCHANGED <<ftp, pi, hist>>
    BY <1>6 DEF DataReadyRead
  <2>6. dtp'.state = "closed" /\ dtp'.lines = <<>> /\ dtp'.err = dtp.err
    BY <1>6 DEF DataReadyRead, TypeOK, DataConnection
  <2>7. /\ net'.link = net.link /\ net'.outbox = net.outbox /\ net'.wire = net.wire
        /\ net'.buffer = net.buffer /\ net'.port = net.port /\ net'.data = <<>>
        /\ net'.fin = FALSE /\ net'.quit = net.quit
    BY <1>6 DEF DataReadyRead, TypeOK, Connections
  <2>8. Current' = Current
    BY <2>5 DEF Current
  <2>9. FALSE
    BY <1>2, <1>3, <1>4, <1>5, <2>3, <2>4, <2>5, <2>6, <2>7, <2>8, <1>6 DEF Ordered,
       Connection
  <2>10. Framed' /\ OneHolder' /\ OneCont' /\ Holding'
    BY <2>1, <2>2, <1>2, <1>3, <1>4, <2>5, <2>6, <2>7, <2>8, <1>6, <2>9, CallsTwoFit DEF
       Ordered, Fits, Resumes, Reading, AboveRemove, AboveCont, Conts, Holders
  <2> USE <1>2, <1>3, <1>4, <1>5, <2>3, <2>4, <2>5, <2>6, <2>7, <2>8, <1>6, <2>9
  <2>11. /\ Clearing' /\ Started' /\ Greeted' /\ Talk' /\ Answered' /\ Replying'
         /\ Progress' /\ Sending' /\ ClosesLast' /\ WaitsForEnd' /\ Connection' /\ FirstConnects'
         /\ Errors'
    BY DEF Ordered, Clearing, Started, Greeted, Talk, Answered, Replying, Progress, Sending,
       ClosesLast, WaitsForEnd, Connection, FirstConnects, Errors, Running, Reading, Silent,
       Open, Ends, Conts, Busy, Held
  <2>12. Listed'
    BY DEF Ordered, Listed, Suits, ShownAtOnce, Owing, Vouched, Concluded, Listing,
       Complete, Clears, Running
  <2>13. QED
    BY <2>10, <2>11, <2>12 DEF Ordered
<1>7. CASE pi.cmd = "LIST"
  <2>1. Then(<< <<"listLines">> >>)
    BY <1>7 DEF DataReadyRead, Return, Begin
  <2>2. <<"listLines">> \in Frame
    BY Frames DEF FtpStates, FtpErrors
  <2>3. /\ calls' \in Seq(Frame) /\ Len(calls') = Len(calls)
        /\ \A x : OnStack(x)' <=> x = "listLines" \/ Below(x)
        /\ \A x : Below(x)' <=> Below(x)
        /\ \A x : Deep(x)' <=> Deep(x)
        /\ \A x : Runs(x)' <=> x = "listLines"
    BY <2>1, <2>2, <1>2, CallsOne
  <2>4. Quiet' <=> Len(calls') = 0
    BY NotQuiet DEF TypeOK
  <2>5. UNCHANGED <<ftp, pi, dtp, net, hist>>
    BY <1>7 DEF DataReadyRead
  <2>6. Current' = Current
    BY <2>5 DEF Current
  <2>7. Framed' /\ OneHolder' /\ OneCont' /\ Holding'
    BY <2>1, <2>2, <1>2, <1>3, <1>4, <2>5, <2>6, <1>7, CallsOneFit DEF Ordered, Fits,
       Resumes, Reading, AboveRemove, AboveCont, Conts, Holders
  <2> USE <1>2, <1>3, <1>4, <1>5, <2>3, <2>4, <2>5, <2>6, <1>7
  <2>8. /\ Clearing' /\ Started' /\ Greeted' /\ Talk' /\ Answered' /\ Replying'
        /\ Progress' /\ Sending' /\ ClosesLast' /\ WaitsForEnd' /\ Connection' /\ FirstConnects'
        /\ Errors'
    BY DEF Ordered, Clearing, Started, Greeted, Talk, Answered, Replying, Progress, Sending,
       ClosesLast, WaitsForEnd, Connection, FirstConnects, Errors, Running, Reading, Silent,
       Open, Ends, Conts, Busy, Held
  <2>9. Listed'
    BY DEF Ordered, Listed, Suits, ShownAtOnce, Owing, Vouched, Concluded, Listing,
       Complete, Clears, Running
  <2>10. QED
    BY <2>7, <2>8, <2>9 DEF Ordered
<1>8. CASE pi.cmd \notin {"none", "LIST"}
  <2>1. Then(<<>>)
    BY <1>8 DEF DataReadyRead, Return, Begin
  <2>2. /\ calls' \in Seq(Frame) /\ Len(calls') = Len(calls) - 1
        /\ \A x : OnStack(x)' <=> Below(x)
        /\ \A x : (Below(x)' => Below(x) /\ Deep(x)) /\ (Deep(x)' => Deep(x))
        /\ \A x : x # "none" => (Runs(x)' <=> Under(1) = x)
    BY <2>1, <1>2, Returns
  <2>3. Quiet' <=> Len(calls') = 0
    BY NotQuiet DEF TypeOK
  <2>4. UNCHANGED <<ftp, pi, dtp, net, hist>>
    BY <1>8 DEF DataReadyRead
  <2>5. Current' = Current
    BY <2>4 DEF Current
  <2>6. Framed' /\ OneHolder' /\ OneCont' /\ Holding'
    BY <2>1, <1>2, <1>3, <1>4, <2>4, <2>5, <1>8, ReturnsFit DEF Ordered, Fits, Resumes,
       Reading, AboveRemove, AboveCont, Conts, Holders
  <2> USE <1>2, <1>3, <1>4, <1>5, <2>2, <2>3, <2>4, <2>5, <1>8
  <2>7. /\ Clearing' /\ Started' /\ Greeted' /\ Talk' /\ Answered' /\ Replying'
        /\ Progress' /\ Sending' /\ ClosesLast' /\ WaitsForEnd' /\ Connection' /\ FirstConnects'
        /\ Errors'
    BY DEF Ordered, Clearing, Started, Greeted, Talk, Answered, Replying, Progress, Sending,
       ClosesLast, WaitsForEnd, Connection, FirstConnects, Errors, Running, Reading, Silent,
       Open, Ends, Conts, Busy, Held
  <2>8. Listed'
    BY DEF Ordered, Listed, Suits, ShownAtOnce, Owing, Vouched, Concluded, Listing,
       Complete, Clears, Running
  <2>9. QED
    BY <2>6, <2>7, <2>8 DEF Ordered
<1>9. QED
  BY <1>6, <1>7, <1>8

\* A line of the listing is read: the order.
LEMMA ListLinesOrdered ==
    ASSUME TypeOK, Replied, Ordered, Listed, TypeOK', Replied', ~hist'.overrun, ListLines
    PROVE  Ordered' /\ Listed'
<1>1. Runs("listLines") /\ Framed /\ OneHolder /\ OneCont
  BY DEF ListLines, Ordered
<1>2. /\ ~Quiet /\ calls \in Seq(Frame) /\ Fits("listLines", Under(1))
      /\ Fn(1) = "listLines"
      /\ \A x : Runs(x) <=> x = "listLines"
      /\ \A x : OnStack(x) <=> x = "listLines" \/ Below(x)
      /\ Under(1) # "none" => Below(Under(1))
      /\ Under(1) = "none" <=> Len(calls) = 1
      /\ Len(calls) = 1 => \A x : ~Below(x)
  BY <1>1, Before
<1>3. Under(1) \in {"none"}
  BY <1>2 DEF Fits, Resumes, Reading
<1>4. /\ \A x : Below(x) => x \in {"replyDone", "readLines", "dtpSettled"}
      /\ Below("readLines") \/ Below("dtpSettled") => OnStack("replyDone")
  BY <1>1, <1>2, Before, Belows DEF Ordered, Clearing, AboveRemove, AboveCont, Conts,
     Reading
<1>5. ftp.posted \in Nat /\ ftp'.posted \in Nat
  BY DEF TypeOK, Private
<1>6. CASE dtp.lines = <<>>
  <2>1. Then(<<>>)
    BY <1>6 DEF ListLines, Return, Begin
  <2>2. /\ calls' \in Seq(Frame) /\ Len(calls') = Len(calls) - 1
        /\ \A x : OnStack(x)' <=> Below(x)
        /\ \A x : (Below(x)' => Below(x) /\ Deep(x)) /\ (Deep(x)' => Deep(x))
        /\ \A x : x # "none" => (Runs(x)' <=> Under(1) = x)
    BY <2>1, <1>2, Returns
  <2>3. Quiet' <=> Len(calls') = 0
    BY NotQuiet DEF TypeOK
  <2>4. UNCHANGED <<ftp, pi, dtp, net, hist>>
    BY <1>6 DEF ListLines
  <2>5. Current' = Current
    BY <2>4 DEF Current
  <2>6. Framed' /\ OneHolder' /\ OneCont' /\ Holding'
    BY <2>1, <1>2, <1>3, <1>4, <2>4, <2>5, <1>6, ReturnsFit DEF Ordered, Fits, Resumes,
       Reading, AboveRemove, AboveCont, Conts, Holders
  <2> USE <1>2, <1>3, <1>4, <1>5, <2>2, <2>3, <2>4, <2>5, <1>6
  <2>7. /\ Clearing' /\ Started' /\ Greeted' /\ Talk' /\ Answered' /\ Replying'
        /\ Progress' /\ Sending' /\ ClosesLast' /\ WaitsForEnd' /\ Connection' /\ FirstConnects'
        /\ Errors'
    BY DEF Ordered, Clearing, Started, Greeted, Talk, Answered, Replying, Progress, Sending,
       ClosesLast, WaitsForEnd, Connection, FirstConnects, Errors, Running, Reading, Silent,
       Open, Ends, Conts, Busy, Held
  <2>8. Listed'
    BY DEF Ordered, Listed, Suits, ShownAtOnce, Owing, Vouched, Concluded, Listing,
       Complete, Clears, Running
  <2>9. QED
    BY <2>6, <2>7, <2>8 DEF Ordered
<1>7. CASE dtp.lines # <<>> /\ Parsed(Head(dtp.lines))
  <2>1. calls' = << <<"listInfo", ParseDir(Head(dtp.lines))>> >> \o calls
    BY <1>7 DEF ListLines, Return, Begin
  <2>2. <<"listInfo", ParseDir(Head(dtp.lines))>> \in Frame
    BY Frames, InfoTyped
  <2>3. /\ calls' \in Seq(Frame) /\ Len(calls') = Len(calls) + 1
        /\ \A x : OnStack(x)' <=> x = "listInfo" \/ OnStack(x)
        /\ \A x : Below(x)' <=> OnStack(x)
        /\ \A x : Deep(x)' <=> Below(x)
        /\ \A x : Runs(x)' <=> x = "listInfo"
    BY <2>1, <2>2, <1>2, PushOne
  <2>4. Quiet' <=> Len(calls') = 0
    BY NotQuiet DEF TypeOK
  <2>5. UNCHANGED <<ftp, pi, net>>
    BY <1>7 DEF ListLines
  <2>6. dtp'.state = dtp.state /\ dtp'.lines = Tail(dtp.lines)
    BY <1>7 DEF ListLines, TypeOK, DataConnection
  <2>7. /\ hist'.id = hist.id /\ hist'.current = hist.current /\ hist'.sent = hist.sent
        /\ hist'.overrun = hist.overrun /\ hist'.dataError = hist.dataError
        /\ hist'.owed = hist.owed - 1 /\ hist'.files = hist.files /\ hist'.done = hist.done
    BY <1>7 DEF ListLines, TypeOK, History
  <2>8. Current' = Current
    BY <2>5 DEF Current
  <2>9. /\ Missing(dtp'.lines) => Missing(dtp.lines)
        /\ Head(dtp.lines) = "missing" => Missing(dtp.lines)
    BY <1>2, <1>3, <1>4, <1>5, <2>3, <2>4, <2>5, <2>6, <2>7, <2>8, <1>7, TailMissing DEF
       TypeOK, DataConnection
  <2>10. dtp'.err => dtp.err \/ Missing(dtp.lines)
    BY <1>2, <1>3, <1>4, <1>5, <2>3, <2>4, <2>5, <2>6, <2>7, <2>8, <1>7, <2>9 DEF ListLines,
       TypeOK, DataConnection
  <2>11. ~OnStack("removeFirst") /\ \A c \in Conts : ~OnStack(c)
    BY <1>2, <1>3, <1>4, <1>5, <2>3, <2>4, <2>5, <2>6, <2>7, <2>8, <1>7, <2>9, <2>10 DEF
       Conts
  <2>12. Framed' /\ OneHolder' /\ OneCont' /\ Holding'
    BY <2>1, <2>2, <1>2, <1>3, <1>4, <2>5, <2>6, <2>7, <2>8, <1>7, <2>9, <2>10, <2>11,
       PushOneFit DEF Ordered, Fits, Resumes, Reading, AboveRemove, AboveCont, Conts,
       Holders
  <2> USE <1>2, <1>3, <1>4, <1>5, <2>3, <2>4, <2>5, <2>6, <2>7, <2>8, <1>7, <2>9, <2>10,
          <2>11
  <2>13. /\ Clearing' /\ Started' /\ Greeted' /\ Talk' /\ Answered' /\ Replying'
         /\ Progress' /\ Sending' /\ ClosesLast' /\ WaitsForEnd' /\ Connection' /\ FirstConnects'
         /\ Errors'
    BY DEF Ordered, Clearing, Started, Greeted, Talk, Answered, Replying, Progress, Sending,
       ClosesLast, WaitsForEnd, Connection, FirstConnects, Errors, Running, Reading, Silent,
       Open, Ends, Conts, Busy, Held
  <2>14. dtp.lines \in Seq(Lines) /\ net.data \in Seq(Lines)
      /\ hist.owed \in Int /\ hist.files \in Int
    BY DEF TypeOK, DataConnection, Connections, History
  <2>15. Arg' = ParseDir(Head(dtp.lines))
    BY <2>1, <2>2, <1>2, PushOne DEF Arg
  <2>16. Suits'
    BY DEF Ordered, Listed, Suits, Listing
  <2>17. ShownAtOnce'
    BY DEF Ordered, Listed, ShownAtOnce
  <2>18. Owing'
    <3>1. ~Runs("sendCommands")' /\ pi'.todo = <<>>
      BY DEF Ordered, Progress
    <3>2. /\ Entries(dtp.lines) = Entries(dtp'.lines) + 1
          /\ RegularFiles(dtp.lines)
               = RegularFiles(dtp'.lines) + (IF Regular(Head(dtp.lines)) THEN 1 ELSE 0)
          /\ Entries(dtp'.lines) \in Nat /\ RegularFiles(dtp'.lines) \in Nat
      BY <2>14, CountedFirst
    <3>3. Entries(net.data) \in Nat /\ RegularFiles(net.data) \in Nat
          /\ Entries(dtp.lines) \in Nat /\ RegularFiles(dtp.lines) \in Nat
      BY <2>14, Counted
    <3>4. Arg'.file <=> Regular(Head(dtp.lines))
      BY <2>15, FilesTold
    <3>5. Listing' /\ pi'.cmd = "LIST" /\ pi'.state = "Waiting" =>
            /\ hist.owed = Entries(net.data) + Entries(dtp.lines)
            /\ hist.files = RegularFiles(net.data) + RegularFiles(dtp.lines)
      BY <3>3 DEF Listed, Owing, Listing
    <3>6. Listing' /\ pi'.cmd = "LIST" /\ pi'.state = "Waiting" =>
            /\ hist'.owed = Entries(net'.data) + Entries(dtp'.lines)
            /\ hist'.files = RegularFiles(net'.data) + RegularFiles(dtp'.lines)
                                + (IF Arg'.file THEN 1 ELSE 0)
      <4>1. \A a, b, c \in Int : a + (b + 1) - 1 = a + b /\ a + (b + c) = a + b + c
        OBVIOUS
      <4>2. hist'.owed = hist.owed - 1 /\ hist'.files = hist.files /\ net'.data = net.data
        OBVIOUS
      <4> DEFINE one == IF Regular(Head(dtp.lines)) THEN 1 ELSE 0
      <4>3. one \in Int /\ one = IF Arg'.file THEN 1 ELSE 0
        BY <3>4
      <4> HIDE DEF one
      <4>4. QED  BY SMTT(30), <3>2, <3>3, <3>5, <4>1, <4>2, <4>3 DEF one
    <3>7. QED  BY <3>1, <3>6 DEF Owing
  <2>19. Vouched'
    BY DEF Ordered, Listed, Vouched, Listing
  <2>20. Concluded'
    BY DEF Ordered, Listed, Concluded, Complete, Clears, Listing, Running, Talk
  <2>21. Listed'
    BY <2>16, <2>17, <2>18, <2>19, <2>20 DEF Listed
  <2>22. QED
    BY <2>12, <2>13, <2>21 DEF Ordered
<1>8. CASE dtp.lines # <<>> /\ ~Parsed(Head(dtp.lines))
  <2>1. UNCHANGED calls
    BY <1>8 DEF ListLines, Return, Begin
  <2>2. /\ \A x : (OnStack(x)' <=> OnStack(x)) /\ (Below(x)' <=> Below(x)) /\ (Deep(x)' <=> Deep(x))
        /\ \A x : Runs(x)' <=> Runs(x)
        /\ Len(calls') = Len(calls) /\ Quiet' = Quiet /\ calls' \in Seq(Frame)
    BY <2>1, Stays DEF TypeOK
  <2>3. Quiet' <=> Len(calls') = 0
    BY NotQuiet DEF TypeOK
  <2>4. UNCHANGED <<ftp, pi, net, hist>>
    BY <1>8 DEF ListLines
  <2>5. dtp'.state = dtp.state /\ dtp'.lines = Tail(dtp.lines)
    BY <1>8 DEF ListLines, TypeOK, DataConnection
  <2>6. Current' = Current
    BY <2>4 DEF Current
  <2>7. /\ Missing(dtp'.lines) => Missing(dtp.lines)
        /\ Head(dtp.lines) = "missing" => Missing(dtp.lines)
    BY <1>2, <1>3, <1>4, <1>5, <2>2, <2>3, <2>4, <2>5, <2>6, <1>8, TailMissing DEF TypeOK,
       DataConnection
  <2>8. dtp'.err => dtp.err \/ Missing(dtp.lines)
    BY <1>2, <1>3, <1>4, <1>5, <2>2, <2>3, <2>4, <2>5, <2>6, <1>8, <2>7 DEF ListLines,
       TypeOK, DataConnection
  <2>9. Framed' /\ OneHolder' /\ OneCont' /\ Holding'
    BY <2>1, <1>2, <1>3, <1>4, <1>5, <2>2, <2>3, <2>4, <2>5, <2>6, <1>8, <2>7, <2>8, Stays
       DEF Ordered
  <2> USE <1>2, <1>3, <1>4, <1>5, <2>2, <2>3, <2>4, <2>5, <2>6, <1>8, <2>7, <2>8
  <2>10. /\ Clearing' /\ Started' /\ Greeted' /\ Talk' /\ Answered' /\ Replying'
         /\ Progress' /\ Sending' /\ ClosesLast' /\ WaitsForEnd' /\ Connection' /\ FirstConnects'
         /\ Errors'
    BY DEF Ordered, Clearing, Started, Greeted, Talk, Answered, Replying, Progress, Sending,
       ClosesLast, WaitsForEnd, Connection, FirstConnects, Errors, Running, Reading, Silent,
       Open, Ends, Conts, Busy, Held
  <2>11. dtp.lines \in Seq(Lines) /\ net.data \in Seq(Lines)
      /\ hist.owed \in Int /\ hist.files \in Int
    BY DEF TypeOK, DataConnection, Connections, History
  <2>12. Suits'
    BY DEF Ordered, Listed, Suits, Listing
  <2>13. ShownAtOnce'
    BY DEF Ordered, Listed, ShownAtOnce
  <2>14. Owing'
    <3>1. ~Runs("sendCommands")' /\ ~Runs("listInfo")' /\ pi'.todo = <<>>
      BY DEF Ordered, Progress
    <3>2. /\ Entries(dtp.lines) = Entries(dtp'.lines)
          /\ RegularFiles(dtp.lines) = RegularFiles(dtp'.lines)
      BY <2>11, CountedFirst, FilesTold
    <3>3. Entries(net.data) \in Nat /\ RegularFiles(net.data) \in Nat
          /\ Entries(dtp.lines) \in Nat /\ RegularFiles(dtp.lines) \in Nat
      BY <2>11, Counted
    <3>4. Listing' /\ pi'.cmd = "LIST" /\ pi'.state = "Waiting" =>
            /\ hist.owed = Entries(net.data) + Entries(dtp.lines)
            /\ hist.files = RegularFiles(net.data) + RegularFiles(dtp.lines)
      BY <3>3 DEF Listed, Owing, Listing
    <3>5. QED  BY <3>1, <3>2, <3>3, <3>4 DEF Owing
  <2>15. Vouched'
    BY DEF Ordered, Listed, Vouched, Listing
  <2>16. Concluded'
    BY DEF Ordered, Listed, Concluded, Complete, Clears, Listing, Running, Talk
  <2>17. Listed'
    BY <2>12, <2>13, <2>14, <2>15, <2>16 DEF Listed
  <2>18. QED
    BY <2>9, <2>10, <2>17 DEF Ordered
<1>9. QED
  BY <1>6, <1>7, <1>8

\* The slot of commandFinished(.., false): the order.
LEMMA CommandFinishedSlotOrdered ==
    ASSUME TypeOK, Replied, Ordered, Listed, TypeOK', Replied', ~hist'.overrun, CommandFinishedSlot
    PROVE  Ordered' /\ Listed'
<1>1. Runs("commandFinished") /\ Framed /\ OneHolder /\ OneCont
  BY DEF CommandFinishedSlot, Ordered
<1>2. /\ ~Quiet /\ calls \in Seq(Frame) /\ Fits("commandFinished", Under(1))
      /\ Fn(1) = "commandFinished"
      /\ \A x : Runs(x) <=> x = "commandFinished"
      /\ \A x : OnStack(x) <=> x = "commandFinished" \/ Below(x)
      /\ Under(1) # "none" => Below(Under(1))
      /\ Under(1) = "none" <=> Len(calls) = 1
      /\ Len(calls) = 1 => \A x : ~Below(x)
  BY <1>1, Before
<1>3. Under(1) \in {"removeFirst"}
  BY <1>2 DEF Fits, Resumes, Reading
<1>4. /\ \A x : Below(x)
             => x \in {"replyDone", "readLines", "dtpSettled", "removeFirst", "commandFailed",
                       "pendingCleared", "react", "afterFailure", "clearError", "afterRefusal"}
      /\ Below("readLines") \/ Below("dtpSettled") => OnStack("replyDone")
      /\ Below("commandFailed") \/ Below("pendingCleared") => Below("removeFirst")
  BY <1>1, <1>2, Before, Belows DEF Ordered, Clearing, AboveRemove, AboveCont, Conts,
     Reading
<1>5. Holds
  BY DEF CommandFinishedSlot
<1>6. ftp.posted \in Nat /\ ftp'.posted \in Nat
  BY DEF TypeOK, Private
<1>7. 1 \in 1 .. Len(calls)
  BY <1>2, <1>3, <1>4, <1>5, <1>6 DEF Quiet
<1>8. hist.current # 0 /\ ftp.pending # <<>>
  BY <1>2, <1>3, <1>4, <1>5, <1>6, <1>7 DEF Ordered, Holding, Holders, Holds
<1>9. Then(<<>>)
  BY DEF CommandFinishedSlot, Return, Begin
<1>10. /\ calls' \in Seq(Frame) /\ Len(calls') = Len(calls) - 1
       /\ \A x : OnStack(x)' <=> Below(x)
       /\ \A x : (Below(x)' => Below(x) /\ Deep(x)) /\ (Deep(x)' => Deep(x))
       /\ \A x : x # "none" => (Runs(x)' <=> Under(1) = x)
  BY <1>9, <1>2, Returns
<1>11. Quiet' <=> Len(calls') = 0
  BY NotQuiet DEF TypeOK
<1>12. UNCHANGED <<pi, dtp, net>>
  BY DEF CommandFinishedSlot
<1>13. /\ ftp'.state = ftp.state /\ ftp'.closeWait = ftp.closeWait
       /\ hist'.current = hist.current /\ hist'.sent = hist.sent /\ hist'.dataError = hist.dataError
       /\ ftp'.pending # <<>> /\ Current' = Current /\ ftp'.posted = ftp.posted
  BY <1>2, <1>3, <1>4, <1>5, <1>6, <1>7, <1>8, <1>10, <1>11, <1>12, Scheduling
<1>14. FirstConnects'
  BY <1>2, <1>3, <1>4, <1>5, <1>6, <1>7, <1>8, <1>10, <1>11, <1>12, <1>13, ScheduledConnects
     DEF Ordered, FirstConnects
<1>15. Framed' /\ OneHolder' /\ OneCont' /\ Holding'
  BY <1>9, <1>2, <1>3, <1>4, <1>12, <1>13, <1>14, ReturnsFit DEF Ordered, Fits, Resumes,
     Reading, AboveRemove, AboveCont, Conts, Holders
<1> USE <1>2, <1>3, <1>4, <1>5, <1>6, <1>7, <1>8, <1>10, <1>11, <1>12, <1>13, <1>14
<1>16. /\ Clearing' /\ Started' /\ Greeted' /\ Talk' /\ Answered' /\ Replying'
       /\ Progress'
  BY DEF Ordered, Clearing, Started, Greeted, Talk, Answered, Replying, Progress, Running,
     Reading, Silent, Open
<1>17. Sending' /\ ClosesLast' /\ WaitsForEnd'
  BY DEF Ordered, Sending, ClosesLast, WaitsForEnd, Running, Ends, Conts, Busy, Held,
     Silent, Open
<1>18. Connection'
  BY SMTT(30) DEF Ordered, Connection, Open, Running
<1>19. FirstConnects'
  BY DEF Ordered, FirstConnects
<1>20. Errors'
  BY DEF Ordered, Errors, Running
<1>21. hist'.owed = hist.owed /\ hist'.done = hist.done /\ hist'.files = hist.files
  BY SlotsCount
<1>22. Suits'
  BY DEF Ordered, Listed, Suits, Listing
<1>23. ShownAtOnce'
  BY DEF Ordered, Listed, ShownAtOnce
<1>24. Owing'
  BY <1>21 DEF Ordered, Listed, Owing, Listing
<1>25. Vouched'
  BY SMTT(30), <1>21 DEF Ordered, Listed, Vouched, Listing
<1>26. Concluded'
  BY <1>21 DEF Ordered, Listed, Concluded, Complete, Clears, Listing, Running, Sending, Ends
<1>27. Listed'
  BY <1>22, <1>23, <1>24, <1>25, <1>26 DEF Listed
<1>28. QED
  BY <1>15, <1>16, <1>17, <1>18, <1>19, <1>20, <1>27 DEF Ordered

\* The slot of commandFinished(.., true): the order.
LEMMA CommandFailedSlotOrdered ==
    ASSUME TypeOK, Replied, Ordered, Listed, TypeOK', Replied', ~hist'.overrun, CommandFailedSlot
    PROVE  Ordered' /\ Listed'
<1>1. Runs("commandFailed") /\ Framed /\ OneHolder /\ OneCont
  BY DEF CommandFailedSlot, Ordered
<1>2. /\ ~Quiet /\ calls \in Seq(Frame) /\ Fits("commandFailed", Under(1))
      /\ Fn(1) = "commandFailed"
      /\ \A x : Runs(x) <=> x = "commandFailed"
      /\ \A x : OnStack(x) <=> x = "commandFailed" \/ Below(x)
      /\ Under(1) # "none" => Below(Under(1))
      /\ Under(1) = "none" <=> Len(calls) = 1
      /\ Len(calls) = 1 => \A x : ~Below(x)
  BY <1>1, Before
<1>3. Under(1) \in {"removeFirst"}
  BY <1>2 DEF Fits, Resumes, Reading
<1>4. /\ \A x : Below(x)
             => x \in {"replyDone", "readLines", "dtpSettled", "removeFirst", "commandFailed",
                       "pendingCleared", "react", "afterFailure", "clearError", "afterRefusal"}
      /\ Below("readLines") \/ Below("dtpSettled") => OnStack("replyDone")
      /\ Below("commandFailed") \/ Below("pendingCleared") => Below("removeFirst")
  BY <1>1, <1>2, Before, Belows DEF Ordered, Clearing, AboveRemove, AboveCont, Conts,
     Reading
<1>5. Holds
  BY DEF CommandFailedSlot
<1>6. ftp.posted \in Nat /\ ftp'.posted \in Nat
  BY DEF TypeOK, Private
<1>7. 1 \in 1 .. Len(calls)
  BY <1>2, <1>3, <1>4, <1>5, <1>6 DEF Quiet
<1>8. hist.current # 0 /\ ftp.pending # <<>>
  BY <1>2, <1>3, <1>4, <1>5, <1>6, <1>7 DEF Ordered, Holding, Holders, Holds
<1>9. Then(<<>>)
  BY DEF CommandFailedSlot, Return, Begin
<1>10. /\ calls' \in Seq(Frame) /\ Len(calls') = Len(calls) - 1
       /\ \A x : OnStack(x)' <=> Below(x)
       /\ \A x : (Below(x)' => Below(x) /\ Deep(x)) /\ (Deep(x)' => Deep(x))
       /\ \A x : x # "none" => (Runs(x)' <=> Under(1) = x)
  BY <1>9, <1>2, Returns
<1>11. Quiet' <=> Len(calls') = 0
  BY NotQuiet DEF TypeOK
<1>12. UNCHANGED <<pi, dtp, net>>
  BY DEF CommandFailedSlot
<1>13. /\ ftp'.state = ftp.state /\ ftp'.closeWait = ftp.closeWait
       /\ hist'.current = hist.current /\ hist'.sent = hist.sent /\ hist'.dataError = hist.dataError
       /\ ftp'.pending # <<>> /\ Current' = Current /\ ftp'.posted = ftp.posted
  BY <1>2, <1>3, <1>4, <1>5, <1>6, <1>7, <1>8, <1>10, <1>11, <1>12, Scheduling
<1>14. FirstConnects'
  BY <1>2, <1>3, <1>4, <1>5, <1>6, <1>7, <1>8, <1>10, <1>11, <1>12, <1>13, ScheduledConnects
     DEF Ordered, FirstConnects
<1>15. Framed' /\ OneHolder' /\ OneCont' /\ Holding'
  BY <1>9, <1>2, <1>3, <1>4, <1>12, <1>13, <1>14, ReturnsFit DEF Ordered, Fits, Resumes,
     Reading, AboveRemove, AboveCont, Conts, Holders
<1> USE <1>2, <1>3, <1>4, <1>5, <1>6, <1>7, <1>8, <1>10, <1>11, <1>12, <1>13, <1>14
<1>16. /\ Clearing' /\ Started' /\ Greeted' /\ Talk' /\ Answered' /\ Replying'
       /\ Progress'
  BY SMTT(30) DEF Ordered, Clearing, Started, Greeted, Talk, Answered, Replying,
     Progress, Running,
     Reading, Silent, Open
<1>17. Sending' /\ ClosesLast' /\ WaitsForEnd'
  BY SMTT(30) DEF Ordered, Sending, ClosesLast, WaitsForEnd, Running, Ends, Conts, Busy, Held,
     Silent, Open
<1>18. Connection'
  BY SMTT(30) DEF Ordered, Connection, Open, Running
<1>19. FirstConnects'
  BY DEF Ordered, FirstConnects
<1>20. Errors'
  BY DEF Ordered, Errors, Running
<1>21. hist'.owed = hist.owed /\ hist'.done = hist.done /\ hist'.files = hist.files
  BY SlotsCount
<1>22. Suits'
  BY DEF Ordered, Listed, Suits, Listing
<1>23. ShownAtOnce'
  BY DEF Ordered, Listed, ShownAtOnce
<1>24. Owing'
  BY <1>21 DEF Ordered, Listed, Owing, Listing
<1>25. Vouched'
  BY SMTT(30), <1>21 DEF Ordered, Listed, Vouched, Listing
<1>26. Concluded'
  BY <1>21 DEF Ordered, Listed, Concluded, Complete, Clears, Listing, Running, Sending, Ends
<1>27. Listed'
  BY <1>22, <1>23, <1>24, <1>25, <1>26 DEF Listed
<1>28. QED
  BY <1>15, <1>16, <1>17, <1>18, <1>19, <1>20, <1>27 DEF Ordered

\* The slot of listInfo(): the order.
LEMMA ListInfoSlotOrdered ==
    ASSUME TypeOK, Replied, Ordered, Listed, TypeOK', Replied', ~hist'.overrun, ListInfoSlot
    PROVE  Ordered' /\ Listed'
<1>1. Runs("listInfo") /\ Framed /\ OneHolder /\ OneCont
  BY DEF ListInfoSlot, Ordered
<1>2. /\ ~Quiet /\ calls \in Seq(Frame) /\ Fits("listInfo", Under(1))
      /\ Fn(1) = "listInfo"
      /\ \A x : Runs(x) <=> x = "listInfo"
      /\ \A x : OnStack(x) <=> x = "listInfo" \/ Below(x)
      /\ Under(1) # "none" => Below(Under(1))
      /\ Under(1) = "none" <=> Len(calls) = 1
      /\ Len(calls) = 1 => \A x : ~Below(x)
  BY <1>1, Before
<1>3. Under(1) \in {"listLines"}
  BY <1>2 DEF Fits, Resumes, Reading
<1>4. /\ \A x : Below(x) => x \in {"replyDone", "readLines", "dtpSettled", "listLines"}
      /\ Below("readLines") \/ Below("dtpSettled") => OnStack("replyDone")
      /\ Below("listLines")
  BY <1>1, <1>2, Before, Belows DEF Ordered, Clearing, AboveRemove, AboveCont, Conts,
     Reading, Fits
<1>5. ftp.posted \in Nat /\ ftp'.posted \in Nat
  BY DEF TypeOK, Private
<1>6. hist.current # 0 /\ ftp.pending # <<>>
  BY <1>2, <1>3, <1>4, <1>5 DEF Ordered, Holding, Holders, Started, Connection, Running
<1>7. Then(<<>>)
  BY DEF ListInfoSlot, Return, Begin
<1>8. /\ calls' \in Seq(Frame) /\ Len(calls') = Len(calls) - 1
      /\ \A x : OnStack(x)' <=> Below(x)
      /\ \A x : (Below(x)' => Below(x) /\ Deep(x)) /\ (Deep(x)' => Deep(x))
      /\ \A x : x # "none" => (Runs(x)' <=> Under(1) = x)
  BY <1>7, <1>2, Returns
<1>9. Quiet' <=> Len(calls') = 0
  BY NotQuiet DEF TypeOK
<1>10. UNCHANGED <<pi, dtp, net>>
  BY DEF ListInfoSlot
<1>11. /\ ftp'.state = ftp.state /\ ftp'.closeWait = ftp.closeWait
       /\ hist'.current = hist.current /\ hist'.sent = hist.sent /\ hist'.dataError = hist.dataError
       /\ ftp'.pending # <<>> /\ Current' = Current /\ ftp'.posted = ftp.posted
  BY <1>2, <1>3, <1>4, <1>5, <1>6, <1>8, <1>9, <1>10, Scheduling
<1>12. FirstConnects'
  BY <1>2, <1>3, <1>4, <1>5, <1>6, <1>8, <1>9, <1>10, <1>11, ScheduledConnects DEF Ordered,
     FirstConnects
<1>13. Framed' /\ OneHolder' /\ OneCont' /\ Holding'
  BY <1>7, <1>2, <1>3, <1>4, <1>10, <1>11, <1>12, ReturnsFit DEF Ordered, Fits, Resumes,
     Reading, AboveRemove, AboveCont, Conts, Holders
<1> USE <1>2, <1>3, <1>4, <1>5, <1>6, <1>8, <1>9, <1>10, <1>11, <1>12
<1>14. /\ Clearing' /\ Started' /\ Greeted' /\ Talk' /\ Answered' /\ Replying'
       /\ Progress'
  BY DEF Ordered, Clearing, Started, Greeted, Talk, Answered, Replying, Progress, Running,
     Reading, Silent, Open
<1>15. Sending' /\ ClosesLast'
  BY DEF Ordered, Sending, ClosesLast, Running, Ends, Conts, Busy
<1>16. WaitsForEnd'
  BY DEF Ordered, WaitsForEnd, Held, Silent, Open
<1>17. Connection'
  BY SMTT(30) DEF Ordered, Connection, Open, Running
<1>18. FirstConnects'
  BY DEF Ordered, FirstConnects
<1>19. Errors'
  BY DEF Ordered, Errors, Running
<1>20. hist'.owed = hist.owed /\ hist'.done = hist.done
    /\ hist'.files = IF Runs("listInfo") /\ Arg.file THEN hist.files - 1 ELSE hist.files
  BY SlotsCount
<1>21. dtp.lines \in Seq(Lines) /\ net.data \in Seq(Lines)
  BY DEF TypeOK, DataConnection, Connections
<1>22. Suits'
  BY DEF Ordered, Listed, Suits, Listing
<1>23. ShownAtOnce'
  BY DEF Ordered, Listed, ShownAtOnce
<1>24. Owing'
  <2>1. ~Runs("sendCommands")' /\ ~Runs("listInfo")'
    BY DEF Ordered
  <2>2. pi'.todo = <<>>
    BY RestOfListing DEF Ordered, Progress, Connection, Running
  <2>3. Entries(net.data) \in Nat /\ RegularFiles(net.data) \in Nat
        /\ Entries(dtp.lines) \in Nat /\ RegularFiles(dtp.lines) \in Nat
    BY <1>21, Counted
  <2>4. Listing' /\ pi'.cmd = "LIST" /\ pi'.state = "Waiting" =>
          /\ hist.owed = Entries(net.data) + Entries(dtp.lines)
          /\ hist.files = RegularFiles(net.data) + RegularFiles(dtp.lines)
                            + (IF Arg.file THEN 1 ELSE 0)
    BY DEF Listed, Owing, Listing
  <2>5. Listing' /\ pi'.cmd = "LIST" /\ pi'.state = "Waiting" =>
          /\ hist'.owed = Entries(net'.data) + Entries(dtp'.lines)
          /\ hist'.files = RegularFiles(net'.data) + RegularFiles(dtp'.lines)
    BY <1>20, <2>3, <2>4
  <2>6. QED  BY <2>1, <2>2, <2>3, <2>5 DEF Owing
<1>25. Vouched'
  BY <1>20 DEF Ordered, Listed, Vouched, Listing
<1>26. Concluded'
  <2>1. ~Running({"react"} \cup Clears) /\ ~Below("pendingCleared")
        /\ ~Running({"sendCommands", "commandFailed", "removeFirst"} \cup Clears)
        /\ ~Running({"startNextCmd", "piFinished", "commandFinished"})
    BY DEF Running, Clears
  <2>2. pi.state # "Success"
    <3>1. ~OnStack("react") /\ ~OnStack("afterFailure")
      BY SMTT(30)
    <3>2. Talk
      BY DEF Ordered
    <3>3. QED  BY Zenon, <3>1, <3>2 DEF Talk
  <2>3. Listing' /\ pi'.todo = <<>> => pi'.state \notin {"Success", "Failure", "Idle"}
    BY <2>1, <2>2 DEF Listed, Concluded, Listing
  <2>4. QED  BY <2>3 DEF Concluded
<1>27. Listed'
  BY <1>22, <1>23, <1>24, <1>25, <1>26 DEF Listed
<1>28. QED
  BY <1>13, <1>14, <1>15, <1>16, <1>17, <1>18, <1>19, <1>27 DEF Ordered

\* The client closes from outside: the order.
LEMMA ClientClosesOrdered ==
    ASSUME TypeOK, Replied, Ordered, Listed, TypeOK', Replied', ~hist'.overrun, ClientCloses
    PROVE  Ordered' /\ Listed'
<1>1. Quiet
  BY DEF ClientCloses, Begin
<1>2. /\ \A x : ~OnStack(x) /\ ~Below(x) /\ ~Deep(x) /\ ~Runs(x)
      /\ Len(calls) = 0
  BY <1>1, WhenQuiet
<1>3. ftp.posted \in Nat /\ ftp'.posted \in Nat
  BY DEF TypeOK, Private
<1>4. UNCHANGED calls
  BY DEF ClientCloses, Return, Begin
<1>5. /\ \A x : (OnStack(x)' <=> OnStack(x)) /\ (Below(x)' <=> Below(x)) /\ (Deep(x)' <=> Deep(x))
      /\ \A x : Runs(x)' <=> Runs(x)
      /\ Len(calls') = Len(calls) /\ Quiet' = Quiet /\ calls' \in Seq(Frame)
  BY <1>4, Stays DEF TypeOK
<1>6. Quiet' <=> Len(calls') = 0
  BY NotQuiet DEF TypeOK
<1>7. UNCHANGED <<pi, dtp, net>>
  BY DEF ClientCloses
<1>8. /\ ftp'.state = ftp.state /\ ftp'.closeWait = ftp.closeWait /\ ftp'.pending # <<>>
      /\ hist'.current = hist.current /\ hist'.sent = hist.sent /\ hist'.dataError = hist.dataError
      /\ ftp.pending # <<>> => Current' = Current /\ ftp'.posted = ftp.posted
      /\ ftp.pending = <<>> => ftp'.posted = ftp.posted + 1
  BY Scheduling
<1>9. FirstConnects'
  BY <1>1, <1>2, <1>3, <1>5, <1>6, <1>7, <1>8, ScheduledConnects DEF Ordered, FirstConnects
<1>10. Framed' /\ OneHolder' /\ OneCont' /\ Holding'
  BY <1>4, <1>1, <1>2, <1>3, <1>5, <1>6, <1>7, <1>8, <1>9, Stays DEF Ordered
<1> USE <1>1, <1>2, <1>3, <1>5, <1>6, <1>7, <1>8, <1>9
<1>11. /\ Clearing' /\ Started' /\ Greeted' /\ Talk' /\ Answered' /\ Replying'
       /\ Progress' /\ Sending' /\ ClosesLast' /\ WaitsForEnd' /\ Connection' /\ FirstConnects'
       /\ Errors'
  BY DEF Ordered, Clearing, Started, Greeted, Talk, Answered, Replying, Progress, Sending,
     ClosesLast, WaitsForEnd, Connection, FirstConnects, Errors, Running, Reading, Silent,
     Open, Ends, Conts, Busy, Held
<1>12. hist'.owed = hist.owed /\ hist'.done = hist.done /\ hist'.files = hist.files
  BY SlotsCount
<1>13. Suits'
  BY DEF Ordered, Listed, Suits, Listing, Started, ClosesLast
<1>14. ShownAtOnce'
  BY DEF Ordered, Listed, ShownAtOnce
<1>15. Owing'
  BY <1>12 DEF Ordered, Listed, Owing, Listing, Started
<1>16. Vouched'
  BY <1>12 DEF Ordered, Listed, Vouched, Listing, Started
<1>17. Concluded'
  BY <1>12 DEF Ordered, Listed, Concluded, Complete, Clears, Listing, Running, Started
<1>18. Listed'
  BY <1>13, <1>14, <1>15, <1>16, <1>17 DEF Listed
<1>19. QED
  BY <1>10, <1>11, <1>18 DEF Ordered

\* The posted _q_startNextCommand(): the order.
LEMMA PostedStartOrdered ==
    ASSUME TypeOK, Replied, Ordered, Listed, TypeOK', Replied', ~hist'.overrun, PostedStart
    PROVE  Ordered' /\ Listed'
<1>1. Quiet
  BY DEF PostedStart, Begin
<1>2. /\ \A x : ~OnStack(x) /\ ~Below(x) /\ ~Deep(x) /\ ~Runs(x)
      /\ Len(calls) = 0
  BY <1>1, WhenQuiet
<1>3. ftp.posted > 0
  BY DEF PostedStart
<1>4. ftp.posted \in Nat /\ ftp'.posted \in Nat
  BY DEF TypeOK, Private
<1>5. Begin(<< <<"startNextCommand">> >>)
  BY DEF PostedStart, Return, Begin
<1>6. <<"startNextCommand">> \in Frame
  BY Frames DEF FtpStates, FtpErrors
<1>7. /\ calls' \in Seq(Frame) /\ Len(calls') = 1
      /\ \A x : OnStack(x)' <=> x = "startNextCommand"
      /\ \A x : Below(x)' <=> FALSE
      /\ \A x : ~Deep(x)'
      /\ \A x : Runs(x)' <=> x = "startNextCommand"
  BY <1>5, <1>6, BeginsOne
<1>8. Quiet' <=> Len(calls') = 0
  BY NotQuiet DEF TypeOK
<1>9. UNCHANGED <<pi, dtp, net, hist>>
  BY DEF PostedStart
<1>10. /\ ftp'.pending = ftp.pending /\ ftp'.state = ftp.state /\ ftp'.error = ftp.error
       /\ ftp'.closeWait = ftp.closeWait /\ ftp'.posted = ftp.posted - 1
  BY DEF PostedStart, TypeOK, Private
<1>11. Current' = Current
  BY <1>1, <1>2, <1>3, <1>4, <1>7, <1>8, <1>9, <1>10 DEF Current
<1>12. Framed' /\ OneHolder' /\ OneCont' /\ Holding'
  BY <1>5, <1>6, <1>1, <1>2, <1>3, <1>9, <1>10, <1>11, BeginsOne DEF Ordered, Fits, Resumes,
     Reading, AboveRemove, AboveCont, Conts, Holders
<1> USE <1>1, <1>2, <1>3, <1>4, <1>7, <1>8, <1>9, <1>10, <1>11
<1>13. /\ Clearing' /\ Started' /\ Greeted' /\ Talk' /\ Answered' /\ Replying'
       /\ Progress' /\ Sending' /\ ClosesLast' /\ WaitsForEnd' /\ Connection' /\ FirstConnects'
       /\ Errors'
  BY DEF Ordered, Clearing, Started, Greeted, Talk, Answered, Replying, Progress, Sending,
     ClosesLast, WaitsForEnd, Connection, FirstConnects, Errors, Running, Reading, Silent,
     Open, Ends, Conts, Busy, Held
<1>14. Listed'
  BY DEF Ordered, Listed, Suits, ShownAtOnce, Owing, Vouched, Concluded, Listing,
     Complete, Clears, Running
<1>15. QED
  BY <1>12, <1>13, <1>14 DEF Ordered

\* The name of the host is resolved: the order.
LEMMA HostFoundOrdered ==
    ASSUME TypeOK, Replied, Ordered, Listed, TypeOK', Replied', ~hist'.overrun, HostFound
    PROVE  Ordered' /\ Listed'
<1>1. Quiet
  BY DEF HostFound, Begin
<1>2. /\ \A x : ~OnStack(x) /\ ~Below(x) /\ ~Deep(x) /\ ~Runs(x)
      /\ Len(calls) = 0
  BY <1>1, WhenQuiet
<1>3. net.link = "lookup"
  BY DEF HostFound
<1>4. ftp.posted \in Nat /\ ftp'.posted \in Nat
  BY DEF TypeOK, Private
<1>5. Begin(<< <<"connectState", "Connecting">> >>)
  BY DEF HostFound, Return, Begin
<1>6. <<"connectState", "Connecting">> \in Frame
  BY Frames DEF FtpStates, FtpErrors
<1>7. /\ calls' \in Seq(Frame) /\ Len(calls') = 1
      /\ \A x : OnStack(x)' <=> x = "connectState"
      /\ \A x : Below(x)' <=> FALSE
      /\ \A x : ~Deep(x)'
      /\ \A x : Runs(x)' <=> x = "connectState"
  BY <1>5, <1>6, BeginsOne
<1>8. Quiet' <=> Len(calls') = 0
  BY NotQuiet DEF TypeOK
<1>9. UNCHANGED <<ftp, pi, dtp, hist>>
  BY DEF HostFound
<1>10. /\ net'.link = "connecting" /\ net'.outbox = net.outbox /\ net'.wire = net.wire
       /\ net'.buffer = net.buffer /\ net'.port = net.port /\ net'.data = net.data
       /\ net'.fin = net.fin /\ net'.quit = net.quit
  BY DEF HostFound, TypeOK, Connections
<1>11. Current' = Current
  BY <1>9 DEF Current
<1>12. Framed' /\ OneHolder' /\ OneCont' /\ Holding'
  BY <1>5, <1>6, <1>1, <1>2, <1>3, <1>9, <1>10, <1>11, BeginsOne DEF Ordered, Fits, Resumes,
     Reading, AboveRemove, AboveCont, Conts, Holders
<1> USE <1>1, <1>2, <1>3, <1>4, <1>7, <1>8, <1>9, <1>10, <1>11
<1>13. /\ Clearing' /\ Started' /\ Greeted' /\ Talk' /\ Answered' /\ Replying'
       /\ Progress' /\ Sending' /\ ClosesLast' /\ WaitsForEnd' /\ Connection' /\ FirstConnects'
       /\ Errors'
  BY DEF Ordered, Clearing, Started, Greeted, Talk, Answered, Replying, Progress, Sending,
     ClosesLast, WaitsForEnd, Connection, FirstConnects, Errors, Running, Reading, Silent,
     Open, Ends, Conts, Busy, Held
<1>14. Listed'
  BY DEF Ordered, Listed, Suits, ShownAtOnce, Owing, Vouched, Concluded, Listing,
     Complete, Clears, Running
<1>15. QED
  BY <1>12, <1>13, <1>14 DEF Ordered

\* The host is not reached: the order.
LEMMA SocketErrorOrdered ==
    ASSUME TypeOK, Replied, Ordered, Listed, TypeOK', Replied', ~hist'.overrun, SocketError
    PROVE  Ordered' /\ Listed'
<1>1. Quiet
  BY DEF SocketError, Begin
<1>2. /\ \A x : ~OnStack(x) /\ ~Below(x) /\ ~Deep(x) /\ ~Runs(x)
      /\ Len(calls) = 0
  BY <1>1, WhenQuiet
<1>3. net.link \in {"lookup", "connecting"}
  BY DEF SocketError
<1>4. ftp.posted \in Nat /\ ftp'.posted \in Nat
  BY DEF TypeOK, Private
<1>5. Begin(<< <<"connectState", "Unconnected">>,
          <<"piError", IF net.link = "lookup" THEN "HostNotFound" ELSE "ConnectionRefused">> >>)
  BY DEF SocketError, Return, Begin
<1>6. <<"connectState", "Unconnected">> \in Frame
          /\ <<"piError", IF net.link = "lookup" THEN "HostNotFound" ELSE "ConnectionRefused">>
          \in Frame
  BY Frames DEF FtpStates, FtpErrors
<1>7. /\ calls' \in Seq(Frame) /\ Len(calls') = 2
      /\ \A x : OnStack(x)' <=> x \in {"connectState", "piError"}
      /\ \A x : Below(x)' <=> x = "piError"
      /\ \A x : ~Deep(x)'
      /\ \A x : Runs(x)' <=> x = "connectState"
  BY <1>5, <1>6, BeginsTwo
<1>8. Quiet' <=> Len(calls') = 0
  BY NotQuiet DEF TypeOK
<1>9. UNCHANGED <<ftp, pi, dtp, hist>>
  BY DEF SocketError
<1>10. /\ net'.link = "closed" /\ net'.outbox = net.outbox /\ net'.wire = net.wire
       /\ net'.buffer = net.buffer /\ net'.port = net.port /\ net'.data = net.data
       /\ net'.fin = net.fin /\ net'.quit = net.quit
  BY DEF SocketError, TypeOK, Connections
<1>11. Current' = Current
  BY <1>9 DEF Current
<1>12. Framed' /\ OneHolder' /\ OneCont' /\ Holding'
  BY <1>5, <1>6, <1>1, <1>2, <1>3, <1>9, <1>10, <1>11, BeginsTwo DEF Ordered, Fits, Resumes,
     Reading, AboveRemove, AboveCont, Conts, Holders
<1> USE <1>1, <1>2, <1>3, <1>4, <1>7, <1>8, <1>9, <1>10, <1>11
<1>13. /\ Clearing' /\ Started' /\ Greeted' /\ Talk' /\ Answered' /\ Replying'
       /\ Progress' /\ Sending' /\ ClosesLast' /\ WaitsForEnd' /\ Connection' /\ FirstConnects'
       /\ Errors'
  BY DEF Ordered, Clearing, Started, Greeted, Talk, Answered, Replying, Progress, Sending,
     ClosesLast, WaitsForEnd, Connection, FirstConnects, Errors, Running, Reading, Silent,
     Open, Ends, Conts, Busy, Held
<1>14. Listed'
  BY DEF Ordered, Listed, Suits, ShownAtOnce, Owing, Vouched, Concluded, Listing,
     Complete, Clears, Running
<1>15. QED
  BY <1>12, <1>13, <1>14 DEF Ordered

\* The host is reached: the order.
LEMMA ConnectedOrdered ==
    ASSUME TypeOK, Replied, Ordered, Listed, TypeOK', Replied', ~hist'.overrun, Connected
    PROVE  Ordered' /\ Listed'
<1>1. Quiet
  BY DEF Connected, Begin
<1>2. /\ \A x : ~OnStack(x) /\ ~Below(x) /\ ~Deep(x) /\ ~Runs(x)
      /\ Len(calls) = 0
  BY <1>1, WhenQuiet
<1>3. net.link = "connecting"
  BY DEF Connected
<1>4. ftp.posted \in Nat /\ ftp'.posted \in Nat
  BY DEF TypeOK, Private
<1>5. Begin(<< <<"connectState", "Connected">> >>)
  BY DEF Connected, Return, Begin
<1>6. <<"connectState", "Connected">> \in Frame
  BY Frames DEF FtpStates, FtpErrors
<1>7. /\ calls' \in Seq(Frame) /\ Len(calls') = 1
      /\ \A x : OnStack(x)' <=> x = "connectState"
      /\ \A x : Below(x)' <=> FALSE
      /\ \A x : ~Deep(x)'
      /\ \A x : Runs(x)' <=> x = "connectState"
  BY <1>5, <1>6, BeginsOne
<1>8. Quiet' <=> Len(calls') = 0
  BY NotQuiet DEF TypeOK
<1>9. UNCHANGED <<ftp, pi, dtp, hist>>
  BY ConnectedAnswered DEF Ordered, Connected
<1>10. Current' = Current
  BY <1>9 DEF Current
<1>11. /\ Answered' /\ UNCHANGED <<net.outbox, net.buffer, net.data, net.fin>>
       /\ net'.link = "open" /\ pi.state = "Begin"
  BY ConnectedAnswered DEF Ordered
<1>12. Framed' /\ OneHolder' /\ OneCont' /\ Holding'
  BY <1>5, <1>6, <1>1, <1>2, <1>3, <1>9, <1>10, <1>11, BeginsOne DEF Ordered, Fits, Resumes,
     Reading, AboveRemove, AboveCont, Conts, Holders
<1> USE <1>1, <1>2, <1>3, <1>4, <1>7, <1>8, <1>9, <1>10, <1>11
<1>13. /\ Clearing' /\ Started' /\ Greeted' /\ Talk' /\ Answered' /\ Replying'
       /\ Progress' /\ Sending' /\ ClosesLast' /\ WaitsForEnd' /\ Connection' /\ FirstConnects'
       /\ Errors'
  BY DEF Ordered, Clearing, Started, Greeted, Talk, Answered, Replying, Progress, Sending,
     ClosesLast, WaitsForEnd, Connection, FirstConnects, Errors, Running, Reading, Silent,
     Open, Ends, Conts, Busy, Held
<1>14. Listed'
  BY DEF Ordered, Listed, Suits, ShownAtOnce, Owing, Vouched, Concluded, Listing,
     Complete, Clears, Running
<1>15. QED
  BY <1>12, <1>13, <1>14 DEF Ordered

\* Bytes of replies arrive: the order.
LEMMA ArrivesOrdered ==
    ASSUME TypeOK, Replied, Ordered, Listed, TypeOK', Replied', ~hist'.overrun, Arrives
    PROVE  Ordered' /\ Listed'
<1>1. Quiet
  BY DEF Arrives, Begin
<1>2. /\ \A x : ~OnStack(x) /\ ~Below(x) /\ ~Deep(x) /\ ~Runs(x)
      /\ Len(calls) = 0
  BY <1>1, WhenQuiet
<1>3. net.link = "open" /\ net.wire # <<>>
  BY DEF Arrives
<1>4. ftp.posted \in Nat /\ ftp'.posted \in Nat
  BY DEF TypeOK, Private
<1>5. Begin(<< <<"readyRead">> >>)
  BY DEF Arrives, Return, Begin
<1>6. <<"readyRead">> \in Frame
  BY Frames DEF FtpStates, FtpErrors
<1>7. /\ calls' \in Seq(Frame) /\ Len(calls') = 1
      /\ \A x : OnStack(x)' <=> x = "readyRead"
      /\ \A x : Below(x)' <=> FALSE
      /\ \A x : ~Deep(x)'
      /\ \A x : Runs(x)' <=> x = "readyRead"
  BY <1>5, <1>6, BeginsOne
<1>8. Quiet' <=> Len(calls') = 0
  BY NotQuiet DEF TypeOK
<1>9. UNCHANGED <<ftp, pi, dtp, hist>>
  BY DEF Arrives
<1>10. Current' = Current
  BY <1>9 DEF Current
<1>11. /\ Answered' /\ UNCHANGED <<net.link, net.outbox, net.data, net.fin>>
  BY ArrivesAnswered DEF Ordered
<1>12. Framed' /\ OneHolder' /\ OneCont' /\ Holding'
  BY <1>5, <1>6, <1>1, <1>2, <1>3, <1>9, <1>10, <1>11, BeginsOne DEF Ordered, Fits, Resumes,
     Reading, AboveRemove, AboveCont, Conts, Holders
<1> USE <1>1, <1>2, <1>3, <1>4, <1>7, <1>8, <1>9, <1>10, <1>11
<1>13. /\ Clearing' /\ Started' /\ Greeted' /\ Talk' /\ Answered' /\ Replying'
       /\ Progress' /\ Sending' /\ ClosesLast' /\ WaitsForEnd' /\ Connection' /\ FirstConnects'
       /\ Errors'
  BY DEF Ordered, Clearing, Started, Greeted, Talk, Answered, Replying, Progress, Sending,
     ClosesLast, WaitsForEnd, Connection, FirstConnects, Errors, Running, Reading, Silent,
     Open, Ends, Conts, Busy, Held
<1>14. Suits'
  BY DEF Ordered, Listed, Suits, Listing
<1>15. ShownAtOnce'
  BY DEF Ordered, Listed, ShownAtOnce
<1>16. Owing'
  BY DEF Ordered, Listed, Owing, Listing
<1>17. Vouched'
  BY ArrivesVouched DEF Ordered, Listed, Vouched, Listing
<1>18. Concluded'
  BY DEF Ordered, Listed, Concluded, Complete, Clears, Listing, Running
<1>19. Listed'
  BY <1>14, <1>15, <1>16, <1>17, <1>18 DEF Listed
<1>20. QED
  BY <1>12, <1>13, <1>19 DEF Ordered

\* The server closes: the order.
LEMMA ConnectionClosedOrdered ==
    ASSUME TypeOK, Replied, Ordered, Listed, TypeOK', Replied', ~hist'.overrun, ConnectionClosed
    PROVE  Ordered' /\ Listed'
<1>1. Quiet
  BY DEF ConnectionClosed, Begin
<1>2. /\ \A x : ~OnStack(x) /\ ~Below(x) /\ ~Deep(x) /\ ~Runs(x)
      /\ Len(calls) = 0
  BY <1>1, WhenQuiet
<1>3. net.link = "open"
  BY DEF ConnectionClosed
<1>4. ftp.posted \in Nat /\ ftp'.posted \in Nat
  BY DEF TypeOK, Private
<1>5. Begin(<< <<"connectState", "Unconnected">> >>)
  BY DEF ConnectionClosed, Return, Begin
<1>6. <<"connectState", "Unconnected">> \in Frame
  BY Frames DEF FtpStates, FtpErrors
<1>7. /\ calls' \in Seq(Frame) /\ Len(calls') = 1
      /\ \A x : OnStack(x)' <=> x = "connectState"
      /\ \A x : Below(x)' <=> FALSE
      /\ \A x : ~Deep(x)'
      /\ \A x : Runs(x)' <=> x = "connectState"
  BY <1>5, <1>6, BeginsOne
<1>8. Quiet' <=> Len(calls') = 0
  BY NotQuiet DEF TypeOK
<1>9. UNCHANGED <<ftp, pi, dtp, hist>>
  BY DEF ConnectionClosed
<1>10. /\ net'.link = "closed" /\ net'.outbox = <<>> /\ net'.wire = <<>> /\ net'.buffer = <<>>
       /\ net'.port = net.port /\ net'.data = net.data /\ net'.fin = net.fin
       /\ net'.quit = net.quit
  BY DEF ConnectionClosed, Closed, TypeOK, Connections
<1>11. Current' = Current
  BY <1>9 DEF Current
<1>12. Framed' /\ OneHolder' /\ OneCont' /\ Holding'
  BY <1>5, <1>6, <1>1, <1>2, <1>3, <1>9, <1>10, <1>11, BeginsOne DEF Ordered, Fits, Resumes,
     Reading, AboveRemove, AboveCont, Conts, Holders
<1> USE <1>1, <1>2, <1>3, <1>4, <1>7, <1>8, <1>9, <1>10, <1>11
<1>13. /\ Clearing' /\ Started' /\ Greeted' /\ Talk' /\ Answered' /\ Replying'
       /\ Progress' /\ Sending' /\ ClosesLast' /\ WaitsForEnd' /\ Connection' /\ FirstConnects'
       /\ Errors'
  BY DEF Ordered, Clearing, Started, Greeted, Talk, Answered, Replying, Progress, Sending,
     ClosesLast, WaitsForEnd, Connection, FirstConnects, Errors, Running, Reading, Silent,
     Open, Ends, Conts, Busy, Held
<1>14. Listed'
  BY DEF Ordered, Listed, Suits, ShownAtOnce, Owing, Vouched, Concluded, Listing,
     Complete, Clears, Running
<1>15. QED
  BY <1>12, <1>13, <1>14 DEF Ordered

\* The connection breaks: the order.
LEMMA ConnectionLostOrdered ==
    ASSUME TypeOK, Replied, Ordered, Listed, TypeOK', Replied', ~hist'.overrun, ConnectionLost
    PROVE  Ordered' /\ Listed'
<1>1. Quiet
  BY DEF ConnectionLost, Begin
<1>2. /\ \A x : ~OnStack(x) /\ ~Below(x) /\ ~Deep(x) /\ ~Runs(x)
      /\ Len(calls) = 0
  BY <1>1, WhenQuiet
<1>3. net.link = "open"
  BY DEF ConnectionLost
<1>4. ftp.posted \in Nat /\ ftp'.posted \in Nat
  BY DEF TypeOK, Private
<1>5. Begin(<< <<"connectState", "Unconnected">> >>)
  BY DEF ConnectionLost, Return, Begin
<1>6. <<"connectState", "Unconnected">> \in Frame
  BY Frames DEF FtpStates, FtpErrors
<1>7. /\ calls' \in Seq(Frame) /\ Len(calls') = 1
      /\ \A x : OnStack(x)' <=> x = "connectState"
      /\ \A x : Below(x)' <=> FALSE
      /\ \A x : ~Deep(x)'
      /\ \A x : Runs(x)' <=> x = "connectState"
  BY <1>5, <1>6, BeginsOne
<1>8. Quiet' <=> Len(calls') = 0
  BY NotQuiet DEF TypeOK
<1>9. UNCHANGED <<ftp, pi, dtp>>
  BY DEF ConnectionLost
<1>10. /\ net'.link = "closed" /\ net'.outbox = <<>> /\ net'.wire = <<>> /\ net'.buffer = <<>>
       /\ net'.port = net.port /\ net'.data = net.data /\ net'.fin = net.fin
       /\ net'.quit = net.quit
  BY DEF ConnectionLost, Closed, TypeOK, Connections
<1>11. /\ hist'.id = hist.id /\ hist'.current = hist.current /\ hist'.sent = hist.sent
       /\ hist'.overrun = hist.overrun /\ hist'.dataError = hist.dataError
       /\ hist'.owed = hist.owed /\ hist'.files = hist.files /\ hist'.done = hist.done
  BY DEF ConnectionLost, Closed, TypeOK, History
<1>12. Current' = Current
  BY <1>9 DEF Current
<1>13. Framed' /\ OneHolder' /\ OneCont' /\ Holding'
  BY <1>5, <1>6, <1>1, <1>2, <1>3, <1>9, <1>10, <1>11, <1>12, BeginsOne DEF Ordered, Fits,
     Resumes, Reading, AboveRemove, AboveCont, Conts, Holders
<1> USE <1>1, <1>2, <1>3, <1>4, <1>7, <1>8, <1>9, <1>10, <1>11, <1>12
<1>14. /\ Clearing' /\ Started' /\ Greeted' /\ Talk' /\ Answered' /\ Replying'
       /\ Progress' /\ Sending' /\ ClosesLast' /\ WaitsForEnd' /\ Connection' /\ FirstConnects'
       /\ Errors'
  BY DEF Ordered, Clearing, Started, Greeted, Talk, Answered, Replying, Progress, Sending,
     ClosesLast, WaitsForEnd, Connection, FirstConnects, Errors, Running, Reading, Silent,
     Open, Ends, Conts, Busy, Held
<1>15. Listed'
  BY DEF Ordered, Listed, Suits, ShownAtOnce, Owing, Vouched, Concluded, Listing,
     Complete, Clears, Running
<1>16. QED
  BY <1>13, <1>14, <1>15 DEF Ordered

\* The socket of the data connection is connected: the order.
LEMMA SocketConnectedOrdered ==
    ASSUME TypeOK, Replied, Ordered, Listed, TypeOK', Replied', ~hist'.overrun, SocketConnected
    PROVE  Ordered' /\ Listed'
<1>1. Quiet
  BY DEF SocketConnected, Begin
<1>2. /\ \A x : ~OnStack(x) /\ ~Below(x) /\ ~Deep(x) /\ ~Runs(x)
      /\ Len(calls) = 0
  BY <1>1, WhenQuiet
<1>3. dtp.state = "connecting"
  BY DEF SocketConnected
<1>4. ftp.posted \in Nat /\ ftp'.posted \in Nat
  BY DEF TypeOK, Private
<1>5. Begin(<< <<"dtpConnected">> >>)
  BY DEF SocketConnected, Return, Begin
<1>6. <<"dtpConnected">> \in Frame
  BY Frames DEF FtpStates, FtpErrors
<1>7. /\ calls' \in Seq(Frame) /\ Len(calls') = 1
      /\ \A x : OnStack(x)' <=> x = "dtpConnected"
      /\ \A x : Below(x)' <=> FALSE
      /\ \A x : ~Deep(x)'
      /\ \A x : Runs(x)' <=> x = "dtpConnected"
  BY <1>5, <1>6, BeginsOne
<1>8. Quiet' <=> Len(calls') = 0
  BY NotQuiet DEF TypeOK
<1>9. UNCHANGED <<ftp, pi, net, hist>>
  BY DEF SocketConnected
<1>10. dtp'.state = "connected" /\ dtp'.lines = dtp.lines /\ dtp'.err = dtp.err
  BY DEF SocketConnected, TypeOK, DataConnection
<1>11. Current' = Current
  BY <1>9 DEF Current
<1>12. Framed' /\ OneHolder' /\ OneCont' /\ Holding'
  BY <1>5, <1>6, <1>1, <1>2, <1>3, <1>9, <1>10, <1>11, BeginsOne DEF Ordered, Fits, Resumes,
     Reading, AboveRemove, AboveCont, Conts, Holders
<1> USE <1>1, <1>2, <1>3, <1>4, <1>7, <1>8, <1>9, <1>10, <1>11
<1>13. /\ Clearing' /\ Started' /\ Greeted' /\ Talk' /\ Answered' /\ Replying'
       /\ Progress' /\ Sending' /\ ClosesLast' /\ WaitsForEnd' /\ Connection' /\ FirstConnects'
       /\ Errors'
  BY DEF Ordered, Clearing, Started, Greeted, Talk, Answered, Replying, Progress, Sending,
     ClosesLast, WaitsForEnd, Connection, FirstConnects, Errors, Running, Reading, Silent,
     Open, Ends, Conts, Busy, Held
<1>14. Listed'
  BY DEF Ordered, Listed, Suits, ShownAtOnce, Owing, Vouched, Concluded, Listing,
     Complete, Clears, Running
<1>15. QED
  BY <1>12, <1>13, <1>14 DEF Ordered

\* The socket of the data connection is refused: the order.
LEMMA SocketRefusedOrdered ==
    ASSUME TypeOK, Replied, Ordered, Listed, TypeOK', Replied', ~hist'.overrun, SocketRefused
    PROVE  Ordered' /\ Listed'
<1>1. Quiet
  BY DEF SocketRefused, Begin
<1>2. /\ \A x : ~OnStack(x) /\ ~Below(x) /\ ~Deep(x) /\ ~Runs(x)
      /\ Len(calls) = 0
  BY <1>1, WhenQuiet
<1>3. dtp.state = "connecting"
  BY DEF SocketRefused
<1>4. ftp.posted \in Nat /\ ftp'.posted \in Nat
  BY DEF TypeOK, Private
<1>5. CASE Begin(<< <<"dtpRefused">> >>)
  <2>1. Begin(<< <<"dtpRefused">> >>)
    BY <1>5 DEF SocketRefused, Return, Begin
  <2>2. <<"dtpRefused">> \in Frame
    BY Frames DEF FtpStates, FtpErrors
  <2>3. /\ calls' \in Seq(Frame) /\ Len(calls') = 1
        /\ \A x : OnStack(x)' <=> x = "dtpRefused"
        /\ \A x : Below(x)' <=> FALSE
        /\ \A x : ~Deep(x)'
        /\ \A x : Runs(x)' <=> x = "dtpRefused"
    BY <2>1, <2>2, BeginsOne
  <2>4. Quiet' <=> Len(calls') = 0
    BY NotQuiet DEF TypeOK
  <2>5. UNCHANGED <<ftp, pi, hist>>
    BY <1>5 DEF SocketRefused
  <2>6. dtp'.state = "closed" /\ dtp'.lines = dtp.lines /\ dtp'.err = dtp.err
    BY <1>5 DEF SocketRefused, TypeOK, DataConnection
  <2>7. /\ net'.link = net.link /\ net'.outbox = net.outbox /\ net'.wire = net.wire
        /\ net'.buffer = net.buffer /\ net'.port = FALSE /\ net'.data = net.data
        /\ net'.fin = net.fin /\ net'.quit = net.quit
    BY <1>5 DEF SocketRefused, TypeOK, Connections
  <2>8. Current' = Current
    BY <2>5 DEF Current
  <2>9. Framed' /\ OneHolder' /\ OneCont' /\ Holding'
    BY <2>1, <2>2, <1>1, <1>2, <1>3, <2>5, <2>6, <2>7, <2>8, <1>5, BeginsOne DEF Ordered,
       Fits, Resumes, Reading, AboveRemove, AboveCont, Conts, Holders
  <2> USE <1>1, <1>2, <1>3, <1>4, <2>3, <2>4, <2>5, <2>6, <2>7, <2>8, <1>5
  <2>10. /\ Clearing' /\ Started' /\ Greeted' /\ Talk' /\ Answered' /\ Replying'
         /\ Progress' /\ Sending' /\ ClosesLast' /\ WaitsForEnd' /\ Connection' /\ FirstConnects'
         /\ Errors'
    BY DEF Ordered, Clearing, Started, Greeted, Talk, Answered, Replying, Progress, Sending,
       ClosesLast, WaitsForEnd, Connection, FirstConnects, Errors, Running, Reading, Silent,
       Open, Ends, Conts, Busy, Held
  <2>11. Listed'
    BY DEF Ordered, Listed, Suits, ShownAtOnce, Owing, Vouched, Concluded, Listing,
       Complete, Clears, Running
  <2>12. QED
    BY <2>9, <2>10, <2>11 DEF Ordered
<1>6. CASE Begin(<<>>)
  <2>1. Begin(<<>>)
    BY <1>6 DEF SocketRefused, Return, Begin
  <2>2. /\ calls' \in Seq(Frame) /\ Len(calls') = 0
        /\ \A x : OnStack(x)' <=> FALSE
        /\ \A x : Below(x)' <=> FALSE
        /\ \A x : ~Deep(x)'
        /\ \A x : Runs(x)' <=> FALSE
    BY <2>1, BeginsNone
  <2>3. Quiet' <=> Len(calls') = 0
    BY NotQuiet DEF TypeOK
  <2>4. UNCHANGED <<ftp, pi, hist>>
    BY <1>6 DEF SocketRefused
  <2>5. dtp'.state = "closed" /\ dtp'.lines = dtp.lines /\ dtp'.err = dtp.err
    BY <1>6 DEF SocketRefused, TypeOK, DataConnection
  <2>6. /\ net'.link = net.link /\ net'.outbox = net.outbox /\ net'.wire = net.wire
        /\ net'.buffer = net.buffer /\ net'.port = FALSE /\ net'.data = net.data
        /\ net'.fin = net.fin /\ net'.quit = net.quit
    BY <1>6 DEF SocketRefused, TypeOK, Connections
  <2>7. Current' = Current
    BY <2>4 DEF Current
  <2>8. Framed' /\ OneHolder' /\ OneCont' /\ Holding'
    BY <2>1, <1>1, <1>2, <1>3, <2>4, <2>5, <2>6, <2>7, <1>6, BeginsNone DEF Ordered, Fits,
       Resumes, Reading, AboveRemove, AboveCont, Conts, Holders
  <2> USE <1>1, <1>2, <1>3, <1>4, <2>2, <2>3, <2>4, <2>5, <2>6, <2>7, <1>6
  <2>9. /\ Clearing' /\ Started' /\ Greeted' /\ Talk' /\ Answered' /\ Replying'
        /\ Progress' /\ Sending' /\ ClosesLast' /\ WaitsForEnd' /\ Connection' /\ FirstConnects'
        /\ Errors'
    BY DEF Ordered, Clearing, Started, Greeted, Talk, Answered, Replying, Progress, Sending,
       ClosesLast, WaitsForEnd, Connection, FirstConnects, Errors, Running, Reading, Silent,
       Open, Ends, Conts, Busy, Held
  <2>10. Listed'
    BY DEF Ordered, Listed, Suits, ShownAtOnce, Owing, Vouched, Concluded, Listing,
       Complete, Clears, Running
  <2>11. QED
    BY <2>8, <2>9, <2>10 DEF Ordered
<1>7. QED
  BY <1>5, <1>6 DEF SocketRefused

\* Bytes of the listing arrive: the order.
LEMMA SocketReadyReadOrdered ==
    ASSUME TypeOK, Replied, Ordered, Listed, TypeOK', Replied', ~hist'.overrun, SocketReadyRead
    PROVE  Ordered' /\ Listed'
<1>1. Quiet
  BY DEF SocketReadyRead, Begin
<1>2. /\ \A x : ~OnStack(x) /\ ~Below(x) /\ ~Deep(x) /\ ~Runs(x)
      /\ Len(calls) = 0
  BY <1>1, WhenQuiet
<1>3. dtp.state = "connected" /\ net.data # <<>>
  BY DEF SocketReadyRead
<1>4. ftp.posted \in Nat /\ ftp'.posted \in Nat
  BY DEF TypeOK, Private
<1>5. Begin(<< <<"dataReadyRead">> >>)
  BY DEF SocketReadyRead, Return, Begin
<1>6. <<"dataReadyRead">> \in Frame
  BY Frames DEF FtpStates, FtpErrors
<1>7. /\ calls' \in Seq(Frame) /\ Len(calls') = 1
      /\ \A x : OnStack(x)' <=> x = "dataReadyRead"
      /\ \A x : Below(x)' <=> FALSE
      /\ \A x : ~Deep(x)'
      /\ \A x : Runs(x)' <=> x = "dataReadyRead"
  BY <1>5, <1>6, BeginsOne
<1>8. Quiet' <=> Len(calls') = 0
  BY NotQuiet DEF TypeOK
<1>9. UNCHANGED <<ftp, pi, hist>>
  BY DEF SocketReadyRead
<1>10. dtp'.state = dtp.state /\ dtp'.lines = dtp.lines \o net.data /\ dtp'.err = dtp.err
  BY DEF SocketReadyRead, TypeOK, DataConnection
<1>11. /\ net'.link = net.link /\ net'.outbox = net.outbox /\ net'.wire = net.wire
       /\ net'.buffer = net.buffer /\ net'.port = net.port /\ net'.data = <<>>
       /\ net'.fin = net.fin /\ net'.quit = net.quit
  BY DEF SocketReadyRead, TypeOK, Connections
<1>12. Current' = Current
  BY <1>9 DEF Current
<1>13. /\ Missing(dtp'.lines) => Missing(dtp.lines) \/ Missing(net.data)
       /\ ~Missing(net'.data)
  BY <1>1, <1>2, <1>3, <1>4, <1>7, <1>8, <1>9, <1>10, <1>11, <1>12, JoinMissing, NoneMissing
     DEF TypeOK, DataConnection, Connections
<1>14. pi.todo = <<>>
  BY <1>1, <1>2, <1>3, <1>4, <1>7, <1>8, <1>9, <1>10, <1>11, <1>12, <1>13 DEF Ordered,
     Connection, Progress, Rest
<1>15. Framed' /\ OneHolder' /\ OneCont' /\ Holding'
  BY <1>5, <1>6, <1>1, <1>2, <1>3, <1>9, <1>10, <1>11, <1>12, <1>13, <1>14, BeginsOne DEF
     Ordered, Fits, Resumes, Reading, AboveRemove, AboveCont, Conts, Holders
<1> USE <1>1, <1>2, <1>3, <1>4, <1>7, <1>8, <1>9, <1>10, <1>11, <1>12, <1>13, <1>14
<1>16. /\ Clearing' /\ Started' /\ Greeted' /\ Talk' /\ Answered' /\ Replying'
       /\ Progress' /\ Sending' /\ ClosesLast' /\ WaitsForEnd' /\ Connection' /\ FirstConnects'
       /\ Errors'
  BY DEF Ordered, Clearing, Started, Greeted, Talk, Answered, Replying, Progress, Sending,
     ClosesLast, WaitsForEnd, Connection, FirstConnects, Errors, Running, Reading, Silent,
     Open, Ends, Conts, Busy, Held
<1>17. pi.cmd = "LIST" => dtp.lines = <<>> /\ dtp'.lines = net.data
  <2>1. \A S : \A s \in Seq(S) : <<>> \o s = s
    OBVIOUS
  <2>2. net.data \in Seq(Lines)
    BY DEF TypeOK, Connections
  <2>3. ~Runs("dataReadyRead") /\ ~OnStack("listLines")
    BY DEF Runs, OnStack
  <2>4. QED  BY <2>1, <2>2, <2>3 DEF Listed, ShownAtOnce
<1>18. Entries(net.data) \in Nat /\ RegularFiles(net.data) \in Nat
  BY Counted DEF TypeOK, Connections
<1>19. Suits'
  BY DEF Ordered, Listed, Suits, Listing
<1>20. ShownAtOnce'
  BY DEF Ordered, Listed, ShownAtOnce
<1>21. Owing'
  <2>1. ~Runs("sendCommands")' /\ ~Runs("listInfo")' /\ ~Runs("listInfo") /\ pi'.todo = <<>>
    BY DEF Runs
  <2>2. Listing' /\ pi'.cmd = "LIST" /\ pi'.state = "Waiting" =>
          /\ hist.owed = Entries(net.data) + Entries(dtp.lines)
          /\ hist.files = RegularFiles(net.data) + RegularFiles(dtp.lines) + 0
    <3>1. Entries(dtp.lines) \in Nat /\ RegularFiles(dtp.lines) \in Nat
      BY Counted DEF TypeOK, DataConnection
    <3>2. QED  BY <1>18, <2>1, <3>1 DEF Listed, Owing, Listing
  <2>3. pi.cmd = "LIST" => dtp.lines = <<>> /\ dtp'.lines = net.data /\ net'.data = <<>>
    BY <1>17
  <2>4. Listing' /\ pi'.cmd = "LIST" /\ pi'.state = "Waiting" =>
          /\ hist'.owed = Entries(net'.data) + Entries(dtp'.lines)
          /\ hist'.files = RegularFiles(net'.data) + RegularFiles(dtp'.lines)
                             + (IF Runs("listInfo")' /\ Arg'.file THEN 1 ELSE 0)
    <3> DEFINE d == net.data
               e == Entries(d)
               r == RegularFiles(d)
    <3>1. e \in Nat /\ r \in Nat
      BY <1>18
    <3> SUFFICES ASSUME Listing', pi'.cmd = "LIST", pi'.state = "Waiting"
                 PROVE  /\ hist'.owed = 0 + e /\ net'.data = <<>> /\ dtp'.lines = d
                        /\ hist'.files = 0 + r + 0
      BY <2>1, CountedNone
    <3>2. hist.owed = e + 0 /\ hist.files = r + 0 + 0
      BY <2>2, <2>3, CountedNone
    <3>3. hist' = hist /\ net'.data = <<>> /\ dtp'.lines = d
      BY <2>3
    <3> HIDE DEF d, e, r
    <3>4. QED  BY <3>1, <3>2, <3>3
  <2>5. QED  BY <2>1, <2>4 DEF Owing
<1>22. Vouched'
  BY DEF Ordered, Listed, Vouched, Listing
<1>23. Concluded'
  BY DEF Ordered, Listed, Concluded, Complete, Clears, Listing, Running
<1>24. Listed'
  BY <1>19, <1>20, <1>21, <1>22, <1>23 DEF Listed
<1>25. QED
  BY <1>15, <1>16, <1>24 DEF Ordered

\* The server closes the data connection: the order.
LEMMA SocketConnectionClosedOrdered ==
    ASSUME TypeOK, Replied, Ordered, Listed, TypeOK', Replied', ~hist'.overrun, SocketConnectionClosed
    PROVE  Ordered' /\ Listed'
<1>1. Quiet
  BY DEF SocketConnectionClosed, Begin
<1>2. /\ \A x : ~OnStack(x) /\ ~Below(x) /\ ~Deep(x) /\ ~Runs(x)
      /\ Len(calls) = 0
  BY <1>1, WhenQuiet
<1>3. dtp.state = "connected" /\ net.fin /\ net.data = <<>>
  BY DEF SocketConnectionClosed
<1>4. ftp.posted \in Nat /\ ftp'.posted \in Nat
  BY DEF TypeOK, Private
<1>5. Begin(<< <<"dtpClosed">> >>)
  BY DEF SocketConnectionClosed, Return, Begin
<1>6. <<"dtpClosed">> \in Frame
  BY Frames DEF FtpStates, FtpErrors
<1>7. /\ calls' \in Seq(Frame) /\ Len(calls') = 1
      /\ \A x : OnStack(x)' <=> x = "dtpClosed"
      /\ \A x : Below(x)' <=> FALSE
      /\ \A x : ~Deep(x)'
      /\ \A x : Runs(x)' <=> x = "dtpClosed"
  BY <1>5, <1>6, BeginsOne
<1>8. Quiet' <=> Len(calls') = 0
  BY NotQuiet DEF TypeOK
<1>9. UNCHANGED <<ftp, pi, hist>>
  BY DEF SocketConnectionClosed
<1>10. dtp'.state = "closed" /\ dtp'.lines = <<>> /\ dtp'.err = dtp.err
  BY DEF SocketConnectionClosed, TypeOK, DataConnection
<1>11. /\ net'.link = net.link /\ net'.outbox = net.outbox /\ net'.wire = net.wire
       /\ net'.buffer = net.buffer /\ net'.port = net.port /\ net'.data = net.data
       /\ net'.fin = FALSE /\ net'.quit = net.quit
  BY DEF SocketConnectionClosed, TypeOK, Connections
<1>12. Current' = Current
  BY <1>9 DEF Current
<1>13. ~Missing(dtp'.lines) /\ ~Missing(net'.data)
  BY <1>1, <1>2, <1>3, <1>4, <1>7, <1>8, <1>9, <1>10, <1>11, <1>12, NoneMissing
<1>14. Framed' /\ OneHolder' /\ OneCont' /\ Holding'
  BY <1>5, <1>6, <1>1, <1>2, <1>3, <1>9, <1>10, <1>11, <1>12, <1>13, BeginsOne DEF Ordered,
     Fits, Resumes, Reading, AboveRemove, AboveCont, Conts, Holders
<1> USE <1>1, <1>2, <1>3, <1>4, <1>7, <1>8, <1>9, <1>10, <1>11, <1>12, <1>13
<1>15. /\ Clearing' /\ Started' /\ Greeted' /\ Talk' /\ Answered' /\ Replying'
       /\ Progress' /\ Sending' /\ ClosesLast' /\ WaitsForEnd' /\ Connection' /\ FirstConnects'
       /\ Errors'
  BY DEF Ordered, Clearing, Started, Greeted, Talk, Answered, Replying, Progress, Sending,
     ClosesLast, WaitsForEnd, Connection, FirstConnects, Errors, Running, Reading, Silent,
     Open, Ends, Conts, Busy, Held
<1>16. Listed'
  BY DEF Ordered, Listed, Suits, ShownAtOnce, Owing, Vouched, Concluded, Listing,
     Complete, Clears, Running
<1>17. QED
  BY <1>14, <1>15, <1>16 DEF Ordered

\* The server answers: the order.
LEMMA ServeOrdered ==
    ASSUME TypeOK, Replied, Ordered, Listed, TypeOK', Replied', ~hist'.overrun, Serve
    PROVE  Ordered' /\ Listed'
<1>1. Quiet
  BY DEF Serve, Begin
<1>2. /\ \A x : ~OnStack(x) /\ ~Below(x) /\ ~Deep(x) /\ ~Runs(x)
      /\ Len(calls) = 0
  BY <1>1, WhenQuiet
<1>3. net.link = "open" /\ net.outbox # <<>>
  BY DEF Serve
<1>4. ftp.posted \in Nat /\ ftp'.posted \in Nat
  BY DEF TypeOK, Private
<1>5. UNCHANGED calls
  BY DEF Serve, Return, Begin
<1>6. /\ \A x : (OnStack(x)' <=> OnStack(x)) /\ (Below(x)' <=> Below(x)) /\ (Deep(x)' <=> Deep(x))
      /\ \A x : Runs(x)' <=> Runs(x)
      /\ Len(calls') = Len(calls) /\ Quiet' = Quiet /\ calls' \in Seq(Frame)
  BY <1>5, Stays DEF TypeOK
<1>7. Quiet' <=> Len(calls') = 0
  BY NotQuiet DEF TypeOK
<1>8. UNCHANGED <<ftp, pi, dtp>>
  BY DEF Serve
<1>9. Current' = Current
  BY <1>8 DEF Current
<1>10. /\ Answered'
       /\ pi.state = "Waiting" /\ net'.outbox = <<>> /\ net'.buffer = <<>>
       /\ net'.link = net.link /\ net.link = "open"
       /\ hist'.current = hist.current /\ hist'.sent = hist.sent
       /\ hist.dataError => hist'.dataError
       /\ \/ UNCHANGED <<net.data, net.fin>>
          \/ /\ pi.cmd \in {"LIST", "RETR"} /\ dtp.state = "connected"
             /\ pi.cmd = "LIST" /\ Missing(net'.data) => hist'.dataError
  BY ServeAnswered DEF Ordered
<1>11. Framed' /\ OneHolder' /\ OneCont' /\ Holding'
  BY <1>5, <1>1, <1>2, <1>3, <1>4, <1>6, <1>7, <1>8, <1>9, <1>10, Stays DEF Ordered
<1> USE <1>1, <1>2, <1>3, <1>4, <1>6, <1>7, <1>8, <1>9, <1>10
<1>12. /\ Clearing' /\ Started' /\ Greeted' /\ Talk' /\ Answered' /\ Replying'
       /\ Progress' /\ Sending' /\ ClosesLast' /\ WaitsForEnd' /\ Connection' /\ FirstConnects'
       /\ Errors'
  BY DEF Ordered, Clearing, Started, Greeted, Talk, Answered, Replying, Progress, Sending,
     ClosesLast, WaitsForEnd, Connection, FirstConnects, Errors, Running, Reading, Silent,
     Open, Ends, Conts, Busy, Held
<1>13. Greeted /\ Talk
  BY DEF Ordered
<1>14. pi.cmd = "LIST" => dtp.lines = <<>> /\ pi.todo = <<>> /\ ~pi.toClose
  BY RestOfListing DEF Ordered, Progress, Listed, ShownAtOnce, WaitsForEnd, Held, Silent
<1>15. Entries(net'.data) \in Nat /\ RegularFiles(net'.data) \in Nat
  BY Counted DEF TypeOK, Connections
<1>16. Suits'
  BY DEF Ordered, Listed, Suits, Listing
<1>17. ShownAtOnce'
  BY DEF Ordered, Listed, ShownAtOnce
<1>18. Owing'
  BY <1>13, <1>14, <1>15, ServeLists, ServeKeeps, CountedNone DEF Ordered, Listed,
     Owing, Listing, Suits
<1>19. Vouched'
  BY <1>13, <1>14, ServeLists DEF Ordered, Listed, Vouched, Listing, Suits
<1>20. Concluded'
  BY DEF Ordered, Listed, Concluded, Complete, Clears, Listing, Running
<1>21. Listed'
  BY <1>16, <1>17, <1>18, <1>19, <1>20 DEF Listed
<1>22. QED
  BY <1>11, <1>12, <1>21 DEF Ordered

\* processReply() holds a reply back: the order.
LEMMA HoldReplyOrdered ==
    ASSUME TypeOK, Replied, Ordered, Listed, TypeOK', Replied', ~hist'.overrun, HoldReply
    PROVE  Ordered' /\ Listed'
<1>1. Runs("processReply") /\ Framed /\ OneHolder /\ OneCont
  BY DEF HoldReply, Ordered
<1>2. /\ ~Quiet /\ calls \in Seq(Frame) /\ Fits("processReply", Under(1))
      /\ Fn(1) = "processReply"
      /\ \A x : Runs(x) <=> x = "processReply"
      /\ \A x : OnStack(x) <=> x = "processReply" \/ Below(x)
      /\ Under(1) # "none" => Below(Under(1))
      /\ Under(1) = "none" <=> Len(calls) = 1
      /\ Len(calls) = 1 => \A x : ~Below(x)
  BY <1>1, Before
<1>3. Under(1) \in {"replyDone"}
  BY <1>2 DEF Fits, Resumes, Reading
<1>4. /\ \A x : Below(x) => x \in {"replyDone", "readLines", "dtpSettled"}
      /\ Below("readLines") \/ Below("dtpSettled") => OnStack("replyDone")
  BY <1>1, <1>2, Before, Belows DEF Ordered, Clearing, AboveRemove, AboveCont, Conts,
     Reading
<1>5. MustWait
  BY DEF HoldReply
<1>6. ftp.posted \in Nat /\ ftp'.posted \in Nat
  BY DEF TypeOK, Private
<1>7. /\ calls' \in Seq(Frame) /\ Len(calls') = 1
      /\ \A x : OnStack(x)' <=> x = "readLines"
      /\ \A x : ~Below(x)' /\ ~Deep(x)'
      /\ \A x : Runs(x)' <=> x = "readLines"
      /\ ~pi.toClose /\ ~OnStack("dtpSettled")
  BY HeldStack DEF Ordered
<1>8. Quiet' <=> Len(calls') = 0
  BY NotQuiet DEF TypeOK
<1>9. UNCHANGED <<ftp, dtp, net, hist>>
  BY DEF HoldReply
<1>10. /\ pi'.state = pi.state /\ pi'.todo = pi.todo /\ pi'.cmd = pi.cmd
       /\ pi'.reply = pi.reply /\ pi'.text = pi.text /\ pi'.extended = pi.extended
       /\ pi'.toConnect = pi.toConnect /\ pi'.toClose = TRUE
  BY DEF HoldReply, TypeOK, Interpreter
<1>11. Current' = Current
  BY <1>9 DEF Current
<1>12. /\ pi.state = "Waiting" /\ pi.text /\ Silent /\ pi.reply.to = hist.sent
       /\ pi.reply.code \in {226, 250} /\ pi.reply.code \in CodesFor(pi.cmd)
  BY <1>2, <1>3, <1>4, <1>5, <1>6, <1>7, <1>8, <1>9, <1>10, <1>11 DEF Ordered, Replying,
     Greeted, MustWait, TransferOver, Code, Interim
<1>13. Framed' /\ OneHolder' /\ OneCont' /\ Holding'
  BY HeldStack DEF Ordered
<1> USE <1>2, <1>3, <1>4, <1>5, <1>6, <1>7, <1>8, <1>9, <1>10, <1>11, <1>12
<1>14. /\ Clearing' /\ Started' /\ Greeted' /\ Talk' /\ Answered' /\ Replying'
       /\ Progress' /\ Sending' /\ ClosesLast' /\ WaitsForEnd' /\ Connection' /\ FirstConnects'
       /\ Errors'
  BY DEF Ordered, Clearing, Started, Greeted, Talk, Answered, Replying, Progress, Sending,
     ClosesLast, WaitsForEnd, Connection, FirstConnects, Errors, Running, Reading, Silent,
     Open, Ends, Conts, Busy, Held
<1>15. Listed'
  BY DEF Ordered, Listed, Suits, ShownAtOnce, Owing, Vouched, Concluded, Listing,
     Complete, Clears, Running
<1>16. QED
  BY <1>13, <1>14, <1>15 DEF Ordered

-----------------------------------------------------------------------------
(***************************************************************************)
(* What the actions do to the queue and to the history of errors.          *)
(***************************************************************************)

\* What most steps leave alone.
QueueKept == ftp'.pending = ftp.pending /\ hist'.current = hist.current /\ hist'.id = hist.id

\* No error is forgotten, and none is made but by StartNextCmd.
ErrorsKept ==
    /\ hist'.overrun = hist.overrun
    /\ hist.dataError => hist'.dataError

\* Most calls leave the queue, the command in execution and the errors alone.
LEMMA CallsKeepQueue ==
    ASSUME TypeOK,
           PiFinished \/ PiError \/ PiConnectState \/ SendCommands \/ ClearPendingCommands
           \/ ReadyRead \/ ReadLines \/ ReplyDone \/ HoldReply \/ ProcessGreeting
           \/ ProcessReply \/ IgnoreReply \/ ReactSuccess \/ ReactFailure \/ ReactWaiting
           \/ AfterFailure \/ ClearError \/ DtpConnected \/ DtpRefused \/ AfterRefusal
           \/ DtpClosed \/ DtpSettled \/ DataReadyRead \/ ListLines
    PROVE  QueueKept /\ ErrorsKept
<1> USE DEF QueueKept, ErrorsKept, TypeOK, Private, History
<1>1. CASE PiFinished \/ PiError \/ PiConnectState
  BY <1>1 DEF PiFinished, PiError, PiConnectState
<1>2. CASE SendCommands \/ ClearPendingCommands \/ ReadyRead \/ ReadLines \/ ReplyDone
  BY <1>2 DEF SendCommands, ClearPendingCommands, ReadyRead, ReadLines, ReplyDone
<1>3. CASE HoldReply \/ ProcessGreeting \/ ProcessReply \/ IgnoreReply
  BY <1>3 DEF HoldReply, ProcessGreeting, ProcessReply, IgnoreReply
<1>4. CASE ReactSuccess \/ ReactFailure \/ ReactWaiting \/ AfterFailure \/ ClearError
  BY <1>4 DEF ReactSuccess, ReactFailure, ReactWaiting, AfterFailure, ClearError
<1>5. CASE DtpConnected \/ DtpRefused \/ AfterRefusal \/ DtpClosed \/ DtpSettled
  BY <1>5 DEF DtpConnected, DtpRefused, AfterRefusal, DtpClosed, DtpSettled
<1>6. CASE DataReadyRead \/ ListLines
  BY <1>6 DEF DataReadyRead, ListLines
<1>7. QED  BY <1>1, <1>2, <1>3, <1>4, <1>5, <1>6

\* So do the events of the network; the server may send a listing that is an error.
LEMMA NetworkKeepsQueue ==
    ASSUME TypeOK, Network \/ ConnectionLost \/ UNCHANGED vars
    PROVE  QueueKept /\ ErrorsKept
<1> USE DEF QueueKept, ErrorsKept, TypeOK, Private, History
<1>1. CASE PostedStart \/ HostFound \/ SocketError \/ Connected \/ Arrives
  BY <1>1 DEF PostedStart, HostFound, SocketError, Connected, Arrives
<1>2. CASE ConnectionClosed \/ SocketConnected \/ SocketRefused \/ SocketReadyRead
           \/ SocketConnectionClosed
  BY <1>2 DEF ConnectionClosed, SocketConnected, SocketRefused, SocketReadyRead,
     SocketConnectionClosed
<1>3. CASE Serve
  <2>1. CASE UNCHANGED hist
    BY <1>3, <2>1 DEF Serve
  <2>2. CASE ServerTransfers
    <3>1. PICK lines \in Listings, code \in {226, 250, 426} :
             /\ IsListing(lines)
             /\ code = 250 => Served.cmd = "RETR"
             /\ lines = <<"missing">> => code # 426
             /\ net' = [net EXCEPT !.outbox = Tail(net.outbox),
                                   !.wire = net.wire \o <<Reply1(150), Reply1(code)>>,
                                   !.data = lines, !.fin = TRUE, !.port = FALSE]
             /\ hist' = [hist EXCEPT !.done = code # 426,
                            !.owed = IF Served.cmd = "LIST" THEN Entries(lines) ELSE hist.owed,
                            !.files = IF Served.cmd = "LIST" THEN RegularFiles(lines)
                                ELSE hist.files,
                            !.dataError = hist.dataError
                                \/ (lines = <<"missing">> /\ Served.cmd = "LIST")]
      BY Zenon, <2>2 DEF ServerTransfers
    <3> DEFINE d0 == code # 426
               e0 == hist.dataError \/ (lines = <<"missing">> /\ Served.cmd = "LIST")
               o0 == IF Served.cmd = "LIST" THEN Entries(lines) ELSE hist.owed
               f0 == IF Served.cmd = "LIST" THEN RegularFiles(lines) ELSE hist.files
    <3>2. /\ hist' = [hist EXCEPT !.done = d0, !.owed = o0, !.files = f0, !.dataError = e0]
          /\ hist.dataError => e0
      BY Zenon, <3>1
    <3>3. ftp' = ftp
      BY <1>3 DEF Serve
    <3> HIDE DEF d0, o0, f0, e0
    <3>4. QED  BY <3>2, <3>3
  <2>3. QED  BY <1>3, <2>1, <2>2 DEF Serve, ServerReplies, ServerRefuses
<1>4. CASE ConnectionLost
  BY <1>4 DEF ConnectionLost
<1>5. CASE UNCHANGED vars
  BY <1>5 DEF vars
<1>6. QED  BY <1>1, <1>2, <1>3, <1>4, <1>5 DEF Network

\* The calls that start and remove commands; only startNextCmd() overruns,
\* when it is called in a state that is not Idle.
LEMMA StartsKeepErrors ==
    ASSUME TypeOK, StartNextCommand \/ StartNextCmd \/ RemoveFirst \/ PendingCleared
    PROVE  /\ hist.overrun => hist'.overrun
           /\ hist'.dataError = hist.dataError
           /\ ~StartNextCmd => ErrorsKept
           /\ StartNextCmd => QueueKept
           /\ StartNextCmd /\ hist'.overrun /\ ~hist.overrun => ~pi.toConnect /\ pi.state # "Idle"
<1> USE DEF QueueKept, ErrorsKept, TypeOK, Private, History
<1>1. CASE StartNextCommand
  BY <1>1 DEF StartNextCommand, StartNextCmd, Runs
<1>2. CASE StartNextCmd
  BY <1>2 DEF StartNextCmd
<1>3. CASE RemoveFirst \/ PendingCleared
  BY <1>3 DEF RemoveFirst, PendingCleared, StartNextCmd, Runs
<1>4. QED  BY <1>1, <1>2, <1>3

\* What a slot adds.
LEMMA SlotsAdd ==
    ASSUME TypeOK, CommandFinishedSlot \/ CommandFailedSlot \/ ListInfoSlot \/ ClientCloses
    PROVE  /\ ErrorsKept
           /\ \/ QueueKept
              \/ \E c \in AllCommands :
                    /\ hist'.id = hist.id + 1 /\ hist'.current = hist.current
                    /\ ftp'.pending = Append(ftp.pending, [id |-> hist.id + 1, cmd |-> c])
<1> DEFINE counted == [hist EXCEPT !.files = IF Arg.file THEN hist.files - 1 ELSE hist.files]
           P(c) == /\ ErrorsKept
                   /\ hist'.id = hist.id + 1 /\ hist'.current = hist.current
                   /\ ftp'.pending = Append(ftp.pending, [id |-> hist.id + 1, cmd |-> c])
           Q == ErrorsKept /\ QueueKept
<1>1. counted.id = hist.id /\ counted.current = hist.current /\ counted.overrun = hist.overrun
      /\ counted.dataError = hist.dataError /\ counted \in History
  BY DEF TypeOK, History
<1>2. ASSUME UNCHANGED ftp, hist' \in {hist, counted} PROVE Q
  BY <1>1, <1>2 DEF QueueKept, ErrorsKept
<1>3. ASSUME NEW h \in {hist, counted}, NEW c, AddCommandTo(h, c) PROVE P(c)
  <2>1. /\ h.id = hist.id /\ h.current = hist.current /\ h.overrun = hist.overrun
        /\ h.dataError = hist.dataError /\ h \in History
    BY <1>1 DEF TypeOK
  <2>2. hist' = [h EXCEPT !.id = h.id + 1]
    BY <1>3 DEF AddCommandTo
  <2>3. hist'.id = h.id + 1 /\ hist'.current = h.current /\ hist'.overrun = h.overrun
        /\ hist'.dataError = h.dataError
    BY <2>1, <2>2 DEF History
  <2>4. ftp'.pending = Append(ftp.pending, [id |-> h.id + 1, cmd |-> c])
    BY <1>3 DEF AddCommandTo, TypeOK, Private
  <2>5. QED  BY <2>1, <2>3, <2>4 DEF ErrorsKept
<1> HIDE DEF counted, P, Q
<1>4. Commands \subseteq AllCommands /\ "Close" \in AllCommands
  BY CommandsKnown DEF AllCommands
<1>5. Q \/ \E c \in AllCommands : P(c)
  <2>1. CASE ClientCloses
    BY <1>3, <1>4, <2>1 DEF ClientCloses, AddCommand
  <2>2. CASE ListInfoSlot
    <3>1. (\E c \in Commands : AddCommandTo(counted, c)) \/ (hist' = counted /\ UNCHANGED ftp)
      BY <2>2 DEF ListInfoSlot, counted
    <3>2. QED  BY <1>2, <1>3, <1>4, <3>1
  <2>3. CASE CommandFinishedSlot \/ CommandFailedSlot
    <3>1. (\E c \in Commands : AddCommandTo(hist, c)) \/ UNCHANGED <<ftp, hist>>
      BY <2>3 DEF CommandFinishedSlot, CommandFailedSlot, Schedules, AddCommand
    <3>2. QED  BY <1>2, <1>3, <1>4, <3>1
  <2>4. QED  BY <2>1, <2>2, <2>3
<1>6. QED  BY <1>5 DEF P, Q

-----------------------------------------------------------------------------

\* Every step leaves the queue alone or is one of CommandQueue.
LEMMA QueueSteps ==
    ASSUME TypeOK, Ordered, [Next]_vars
    PROVE  QueueKept \/ Queue!Next
<1> DEFINE T == [id : 1 .. MaxCommands, cmd : AllCommands]
<1>1. ftp.pending \in Seq(T)
  BY DEF TypeOK, Private
<1>2. \/ StartNextCommand \/ RemoveFirst \/ PendingCleared
      \/ CommandFinishedSlot \/ CommandFailedSlot \/ ListInfoSlot \/ ClientCloses
      \/ QueueKept
  BY CallsKeepQueue, NetworkKeepsQueue, StartsKeepErrors DEF Next, Call
<1> USE DEF Queue!Next
<1> DEFINE q == Ids(ftp.pending)
<1>3. CASE StartNextCommand
  <2>1. hist.current = 0
    BY <1>3 DEF Ordered, Started, StartNextCommand
  <2>2. CASE ftp.pending = <<>>
    BY <1>3, <2>2 DEF StartNextCommand, QueueKept
  <2>3. CASE ftp.pending # <<>>
    <3>1. ftp'.pending = ftp.pending /\ hist'.current = Head(ftp.pending).id /\ hist'.id = hist.id
      BY <1>3, <2>3 DEF StartNextCommand, Current, TypeOK, Private, History
    <3>2. q # <<>> /\ Head(q) = Head(ftp.pending).id
      BY <1>1, <2>3, IdsMapped
    <3>3. Queue!Start
      BY <2>1, <3>1, <3>2 DEF Queue!Start, Ids
    <3>4. QED  BY <3>3
  <2>4. QED  BY <2>2, <2>3
<1>4. CASE RemoveFirst
  <2>1. /\ ftp.pending # <<>> /\ hist.current # 0 /\ Head(ftp.pending).id = hist.current
    <3>1. Len(calls) \in Nat \ {0} /\ Fn(1) = "removeFirst" /\ calls[1][2] = Arg
      BY <1>4 DEF RemoveFirst, Runs, Quiet, Fn, Arg, TypeOK
    <3>2. hist.current # 0 /\ Arg = hist.current
      BY <3>1 DEF Ordered, Holding, Holders
    <3>3. QED  BY <1>4, <3>2 DEF RemoveFirst, Holds, Current
  <2>2. ftp'.pending = Tail(ftp.pending) /\ hist'.current = 0 /\ hist'.id = hist.id
    BY <1>4 DEF RemoveFirst, TypeOK, Private, History
  <2>3. Head(q) = Head(ftp.pending).id /\ Ids(Tail(ftp.pending)) = Tail(q)
    BY <1>1, <2>1, IdsMapped
  <2>4. Queue!Finish
    BY <2>1, <2>2, <2>3 DEF Queue!Finish, Ids
  <2>5. QED  BY <2>4
<1>5. CASE PendingCleared
  <2>1. hist'.current = hist.current /\ hist'.id = hist.id
        /\ ftp'.pending = IF ftp.pending = <<>> THEN ftp.pending ELSE <<Head(ftp.pending)>>
    BY <1>5 DEF PendingCleared, TypeOK, Private
  <2>2. CASE ftp.pending = <<>>
    BY <2>1, <2>2 DEF QueueKept
  <2>3. CASE ftp.pending # <<>>
    <3>1. Runs("pendingCleared")
      BY <1>5 DEF PendingCleared
    <3>2. Len(calls) \in Nat \ {0} /\ Fn(1) = "pendingCleared"
      BY <3>1 DEF Runs, Quiet, Fn, TypeOK
    <3>3. Under(1) = "commandFailed"
      BY <3>2 DEF Ordered, Framed, Fits
    <3>4. 2 \in 1 .. Len(calls) /\ Fn(2) = "commandFailed"
      BY <3>2, <3>3 DEF Under, Fn
    <3>5. hist.current # 0
      BY <3>4 DEF Ordered, Holding, Holders
    <3>6. Head(ftp.pending).id = hist.current
      BY <3>5 DEF Ordered, Started, Current
    <3>7. Ids(<<Head(ftp.pending)>>) = <<hist.current>>
      BY <1>1, <2>3, <3>6, IdsMapped
    <3>8. Queue!Drop
      BY <2>1, <2>3, <3>5, <3>7 DEF Queue!Drop, Ids
    <3>9. QED  BY <3>8
  <2>4. QED  BY <2>2, <2>3
<1>6. CASE CommandFinishedSlot \/ CommandFailedSlot \/ ListInfoSlot \/ ClientCloses
  <2>1. CASE QueueKept
    BY <2>1
  <2>2. ASSUME NEW c \in AllCommands,
               hist'.id = hist.id + 1 /\ hist'.current = hist.current
               /\ ftp'.pending = Append(ftp.pending, [id |-> hist.id + 1, cmd |-> c])
        PROVE  Queue!Schedule
    <3> DEFINE e == [id |-> hist.id + 1, cmd |-> c]
    <3>1. ftp.pending \in Seq(T \cup {e}) /\ e \in T \cup {e}
      <4>1. \A S, x : Seq(S) \subseteq Seq(S \cup {x}) /\ x \in S \cup {x}
        OBVIOUS
      <4> HIDE DEF T, e
      <4>2. QED  BY <1>1, <4>1
    <3>2. e.id = hist.id + 1
      OBVIOUS
    <3> HIDE DEF e
    <3>3. Ids(Append(ftp.pending, e)) = Append(q, e.id)
      BY <3>1, IdsMapped
    <3>4. Ids(ftp'.pending) = Append(q, hist'.id)
      BY <2>2, <3>2, <3>3 DEF e
    <3>5. QED  BY <2>2, <3>4 DEF Queue!Schedule, Ids
  <2>3. QED  BY <1>6, <2>1, <2>2, SlotsAdd
<1>7. QED  BY <1>2, <1>3, <1>4, <1>5, <1>6

-----------------------------------------------------------------------------
(***************************************************************************)
(* The inductive invariant, and the theorems.                              *)
(***************************************************************************)

\* Every step keeps the order that it finds.
LEMMA OrderedStep ==
    ASSUME TypeOK, Replied, Ordered, Listed, TypeOK', Replied', ~hist'.overrun, [Next]_vars
    PROVE  Ordered' /\ Listed'
<1>1. CASE Call
  BY <1>1, StartNextCommandOrdered, PiFinishedOrdered, PiErrorOrdered, RemoveFirstOrdered,
     PiConnectStateOrdered, SendCommandsOrdered, StartNextCmdOrdered,
     ClearPendingCommandsOrdered, PendingClearedOrdered, ReadyReadOrdered,
     ReadLinesOrdered, ReplyDoneOrdered, HoldReplyOrdered, ProcessGreetingOrdered,
     ProcessReplyOrdered, IgnoreReplyOrdered, ReactSuccessOrdered, ReactFailureOrdered,
     ReactWaitingOrdered, AfterFailureOrdered, ClearErrorOrdered, DtpConnectedOrdered,
     DtpRefusedOrdered, AfterRefusalOrdered, DtpClosedOrdered, DtpSettledOrdered,
     DataReadyReadOrdered, ListLinesOrdered, CommandFinishedSlotOrdered,
     CommandFailedSlotOrdered, ListInfoSlotOrdered DEF Call
<1>2. CASE Network
  BY <1>2, PostedStartOrdered, HostFoundOrdered, SocketErrorOrdered, ConnectedOrdered,
     ArrivesOrdered, ConnectionClosedOrdered, SocketConnectedOrdered,
     SocketRefusedOrdered, SocketReadyReadOrdered, SocketConnectionClosedOrdered,
     ServeOrdered DEF Network
<1>3. CASE ConnectionLost \/ ClientCloses
  BY <1>3, ConnectionLostOrdered, ClientClosesOrdered
<1>4. CASE UNCHANGED vars
  BY <1>4, OrderedStays
<1>5. QED  BY <1>1, <1>2, <1>3, <1>4 DEF Next

\* The inductive invariant: until the first overrun everything is in order and
\* nothing of a listing is lost.
Inv ==
    /\ TypeOK /\ Replied
    /\ ~hist.overrun => Ordered /\ Listed
    /\ hist.overrun => hist.dataError

\* The invariant holds at first.
LEMMA InvStarts == Init => Inv
<1> SUFFICES ASSUME Init PROVE Inv  OBVIOUS
<1>1. TypeOK /\ Replied
  BY InitTyped
<1>2. hist.overrun = FALSE
  BY DEF Init
<1>3. QED  BY <1>1, <1>2, InitOrdered DEF Inv

\* Every step keeps it.
LEMMA InvStep ==
    ASSUME Inv, [Next]_vars
    PROVE  Inv'
<1>1. TypeOK' /\ Replied'
  BY Typed DEF Inv
<1>2. /\ hist.overrun => hist'.overrun
      /\ hist.dataError => hist'.dataError
      /\ ~hist.overrun /\ hist'.overrun => StartNextCmd /\ ~pi.toConnect /\ pi.state # "Idle"
  BY CallsKeepQueue, NetworkKeepsQueue, StartsKeepErrors, SlotsAdd DEF Inv, Next, Call,
     ErrorsKept
<1>3. ~hist'.overrun => Ordered' /\ Listed'
  BY <1>1, <1>2, OrderedStep DEF Inv
<1>4. hist'.overrun => hist'.dataError
  <2>1. CASE hist.overrun
    BY <1>2, <2>1 DEF Inv
  <2>2. CASE ~hist.overrun
    BY <1>2, <2>2 DEF Inv, Ordered, Errors, StartNextCmd
  <2>3. QED  BY <2>1, <2>2
<1>5. QED  BY <1>1, <1>3, <1>4 DEF Inv

\* It always holds.
LEMMA Invariance == Spec => []Inv
  BY InvStarts, InvStep, PTL DEF Spec

\* Until an overrun, the command whose slot runs, or that is about to be removed, is the
\* first of the queue: _q_piFinished() and _q_piError() never use a command that was
\* deleted, whatever the slots schedule and in whatever order the events come.
THEOREM CommandsOutliveSlots == Spec => []CommandOutlivesSlots
<1>1. Inv => CommandOutlivesSlots
  <2> SUFFICES ASSUME Inv, ~hist.overrun, NEW i \in DOMAIN calls,
                      calls[i][1] \in {"commandFinished", "commandFailed", "removeFirst"}
               PROVE  ftp.pending # <<>> /\ calls[i][2] = Current.id
    BY DEF CommandOutlivesSlots
  <2>1. i \in 1 .. Len(calls) /\ Fn(i) \in Holders
    BY DEF Inv, TypeOK, Fn, Holders
  <2>2. hist.current # 0 /\ calls[i][2] = hist.current
    BY <2>1 DEF Inv, Ordered, Holding
  <2>3. QED  BY <2>2 DEF Inv, Ordered, Started
<1>2. QED  BY <1>1, Invariance, PTL

\* Until an overrun, no reply is taken for the answer to another raw command: each is read
\* in the state that the raw command it answers has set.
THEOREM RepliesAreForCommands == Spec => []ReplyIsForCommand
<1>1. Inv => ReplyIsForCommand
  BY DEF Inv, Ordered, Replying, ReplyIsForCommand
<1>2. QED  BY <1>1, Invariance, PTL

\* A raw command is sent too early only after a listing that was the text of an error: the
\* error's slot sends the next one, and processReply() sends another.
THEOREM OverrunsNeedDataErrors == Spec => []OverrunNeedsDataError
<1>1. Inv => OverrunNeedsDataError
  BY DEF Inv, OverrunNeedsDataError
<1>2. QED  BY <1>1, Invariance, PTL

\* A List that ends with commandFinished(.., false) has been served and, until an overrun,
\* has shown every entry that was sent of it, and exactly the files among them as files:
\* no entry is lost between the two connections, in whatever order they bring the 226 and
\* the data.
THEOREM ListingsComplete == Spec => []ListingComplete
<1>1. Inv => ListingComplete
  <2> SUFFICES ASSUME Inv, Runs("commandFinished"), Current.cmd = "List", ~hist.overrun
               PROVE  hist.done /\ hist.owed = 0 /\ hist.files = 0
    BY DEF ListingComplete
  <2>1. Ordered /\ Listed
    BY DEF Inv
  <2>2. Fn(1) = "commandFinished" /\ 1 \in 1 .. Len(calls)
    BY DEF Inv, TypeOK, Runs, Quiet, Fn
  <2>3. hist.current # 0
    BY <2>1, <2>2 DEF Ordered, Holding, Holders
  <2>4. pi.state = "Idle" /\ pi.todo = <<>>
    BY <2>1 DEF Ordered, Sending, Ends, Running
  <2>5. \A f : Runs(f) <=> f = "commandFinished"
    BY DEF Runs
  <2>6. ~Running({"sendCommands", "commandFailed", "removeFirst"} \cup Clears)
    BY <2>5 DEF Running, Clears
  <2>7. ~Below("pendingCleared")
    BY <2>1, <2>5 DEF Ordered, Clearing, Running, Reading
  <2>8. Complete
    BY <2>1, <2>3, <2>4, <2>6, <2>7 DEF Listed, Concluded, Listing
  <2>9. QED  BY <2>8 DEF Complete
<1>2. QED  BY <1>1, Invariance, PTL

\* The queue of QFtp implements CommandQueue: until an overrun, commands are scheduled under
\* new identifiers, started first in first out, one at a time, and removed when they end.
THEOREM QueueInOrder == Spec => QueueSpec
<1>1. Init => Queue!Init
  BY DEF Init, Queue!Init
<1>2. Inv /\ [Next]_vars
      => [hist.overrun \/ Queue!Next]_<<ftp.pending, hist.current, hist.id>>
  BY QueueSteps DEF Inv, QueueKept
<1>3. QED  BY <1>1, <1>2, Invariance, PTL DEF Spec, QueueSpec

=============================================================================
