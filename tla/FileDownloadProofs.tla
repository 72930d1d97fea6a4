------------------------- MODULE FileDownloadProofs -------------------------
(***************************************************************************)
(* Theorems about FileDownload, for any size of file, any read buffer and  *)
(* any surroundings.                                                       *)
(***************************************************************************)
EXTENDS FileDownload, SequenceTheorems, TLAPS

Queued(i, slot) == i \in 1 .. Len(events) /\ events[i][1] = slot

\* Bytes that have been read from the reply.
Read == reply.recv - reply.avail

\* A reply, its timer and its queue come and go together, and finished() is the
\* last call in the queue.
QueueInv ==
    /\ reply.live <=> stage = "active"
    /\ reply.open => reply.live
    /\ timer => reply.live
    /\ ~reply.live => events = <<>>
    /\ \A i : Queued(i, "finished") => i = Len(events) /\ ~reply.open

\* The counters of a transfer, and what its signals told of them.
CountInv ==
    /\ reply.avail <= reply.recv
    /\ \A i : Queued(i, "downloadProgress") =>
          events[i][2] <= reply.recv /\ (reply.sized => events[i][3] = Size)

\* A server that tells sizes tells this one.
SizedInv == stage = "active" /\ "unsized" \notin Faults => reply.sized

StatusInv ==
    /\ stage # "ended" => status = "DEFAULT"
    /\ kind # "revision" => status # "DOWNLOAD_FAIL"

\* Only music is ever appended to what an earlier download left.
FreshInv ==
    kind # "music" =>
        /\ stage = "listed" => file = NoFile
        /\ stage = "active" => begun = NoFile

\* Whatever goes wrong, the file has grown by no more than was read.
GrownInv ==
    stage = "active" =>
        \/ file = begun
        \/ \E n \in 0 .. Read, c \in {FALSE, begun.clean} :
              file = [len |-> Capped(OnDisk(begun) + n), clean |-> c]

\* On a disk that writes, it has grown by all that was read.
SavedInv ==
    Reliable /\ stage = "active" =>
        \/ file = begun /\ Read = 0
        \/ file = Appended(begun, 0, Read)

\* Unread data is still to be saved, and is saved before its progress is told.
UnreadInv ==
    Reliable /\ stage = "active" =>
        /\ reply.avail > 0 => \E i : Queued(i, "readyRead")
        /\ \A i : Queued(i, "downloadProgress") =>
              Read >= events[i][2] \/ \E j : j < i /\ Queued(j, "readyRead")

\* What says that a download is complete is right when the size was told;
\* otherwise mFullDownloadBytes only says that something was received.
CompleteInv ==
    Reliable /\ stage = "active" =>
        /\ ~reply.open /\ ~reply.error => reply.recv = Size
        /\ full => Read > 0 /\ (reply.sized => Read = Size)

\* A download that is complete is seen to be, or will be.
DueInv ==
    Reliable /\ stage = "active" /\ kind = "advert" /\ reply.sized /\ reply.recv = Size =>
        full \/ \E i : Queued(i, "downloadProgress") /\ events[i][2] = Size

TrustInv ==
    kind # "music" /\ Reliable /\ Told /\ stage = "ended" /\ status = "DOWNLOAD_OK" => Intact(file)

\* What a transfer is about.
TransferInv == QueueInv /\ CountInv /\ SizedInv /\ UnreadInv /\ CompleteInv

IInv == TypeOK /\ TransferInv /\ StatusInv /\ FreshInv /\ GrownInv /\ SavedInv /\ DueInv /\ TrustInv

-----------------------------------------------------------------------------
(***************************************************************************)
(* Queues of calls.                                                        *)
(***************************************************************************)

LEMMA EventForm ==
    ASSUME NEW e \in Event
    PROVE  /\ e[1] \in {"readyRead", "error", "finished", "downloadProgress"}
           /\ e[1] = "downloadProgress" => e[2] \in 0 .. Size /\ e[3] \in -1 .. Size
  BY DEF Event

LEMMA Popped ==
    ASSUME NEW s \in Seq(Event), s # <<>>
    PROVE  /\ Len(s) \in Nat /\ Len(s) >= 1 /\ Head(s) = s[1]
           /\ Tail(s) \in Seq(Event) /\ Len(Tail(s)) = Len(s) - 1
           /\ \A i \in 1 .. Len(s) - 1 : Tail(s)[i] = s[i + 1]
  OBVIOUS

LEMMA PushedOne ==
    ASSUME NEW s \in Seq(Event), NEW a \in Event
    PROVE  /\ Append(s, a) \in Seq(Event) /\ Len(Append(s, a)) = Len(s) + 1
           /\ Len(s) \in Nat
           /\ \A i \in 1 .. Len(s) : Append(s, a)[i] = s[i]
           /\ Append(s, a)[Len(s) + 1] = a
  OBVIOUS

LEMMA PushedTwo ==
    ASSUME NEW s \in Seq(Event), NEW a \in Event, NEW b \in Event
    PROVE  /\ s \o <<a, b>> \in Seq(Event) /\ Len(s \o <<a, b>>) = Len(s) + 2
           /\ Len(s) \in Nat
           /\ \A i \in 1 .. Len(s) : (s \o <<a, b>>)[i] = s[i]
           /\ (s \o <<a, b>>)[Len(s) + 1] = a
           /\ (s \o <<a, b>>)[Len(s) + 2] = b
  OBVIOUS

LEMMA ProgressIsEvent ==
    ASSUME NEW r, r.recv \in 0 .. Size, NEW total \in -1 .. Size
    PROVE  /\ Progress(r, total) \in Event
           /\ Progress(r, total)[1] = "downloadProgress"
           /\ Progress(r, total)[2] = r.recv /\ Progress(r, total)[3] = total
  BY DEF Progress, Event

\* A transfer that ends has finished() queued last, and at most its progress
\* before it.
LEMMA EndingForm ==
    ASSUME NEW s \in Seq(Event), NEW r, r.recv \in 0 .. Size, r.sized \in BOOLEAN,
           NEW t \in Ending(s, r)
    PROVE  /\ t \in Seq(Event) /\ Len(t) \in Nat /\ Len(s) \in Nat /\ Len(t) > Len(s)
           /\ \A i \in 1 .. Len(s) : t[i] = s[i]
           /\ t[Len(t)][1] = "finished"
           /\ \A i \in Len(s) + 1 .. Len(t) - 1 :
                 /\ t[i][1] = "downloadProgress" /\ t[i][2] = r.recv
                 /\ r.sized => t[i][3] = Size
<1>1. <<"finished">> \in Event /\ <<"finished">>[1] = "finished"
  BY DEF Event
<1>2. CASE t = s \o <<>> \o << <<"finished">> >>
  <2>1. t = Append(s, <<"finished">>)
    BY <1>2
  <2>2. QED  BY <1>1, <2>1, PushedOne
<1>3. CASE \E total \in -1 .. Size :
               /\ t = s \o <<Progress(r, total)>> \o << <<"finished">> >>
               /\ r.sized => total = Size
  <2>1. PICK total \in -1 .. Size :
               /\ t = s \o <<Progress(r, total)>> \o << <<"finished">> >>
               /\ r.sized => total = Size
    BY <1>3
  <2>2. PICK p \in Event : p = Progress(r, total)
    BY ProgressIsEvent
  <2>3. t = s \o <<p, <<"finished">>>>
    BY SMTT(20), <2>1, <2>2
  <2>4. p[1] = "downloadProgress" /\ p[2] = r.recv /\ p[3] = total
    BY <2>2, ProgressIsEvent
  <2>5. QED  BY <1>1, <2>1, <2>3, <2>4, PushedTwo
<1>4. QED
  <2>1. Size \in -1 .. Size /\ r.recv \in -1 .. Size
    BY LocalFileAssumption
  <2>2. QED  BY <2>1, <1>2, <1>3 DEF Ending

-----------------------------------------------------------------------------
(***************************************************************************)
(* Files.                                                                  *)
(***************************************************************************)

LEMMA AppendedIsFile ==
    ASSUME NEW f \in File, NEW offset \in Int, NEW n \in Nat
    PROVE  Appended(f, offset, n) \in File
  BY LocalFileAssumption DEF Appended, File, Capped, OnDisk, Exists

\* Two appends at the offsets of one transfer are one.
LEMMA AppendedTwice ==
    ASSUME NEW f \in File, NEW n \in 0 .. Size, NEW m \in 0 .. Size, n + m <= Size
    PROVE  Appended(Appended(f, 0, n), n, m) = Appended(f, 0, n + m)
<1> DEFINE g == Appended(f, 0, n)
<1>1. g.len = Capped(OnDisk(f) + n) /\ g.clean = (f.clean /\ (n = 0 \/ OnDisk(f) = 0))
  BY DEF Appended
<1>2. OnDisk(f) \in Nat /\ f.clean \in BOOLEAN
  BY DEF OnDisk, Exists, File
<1>3. g.len \in Nat /\ OnDisk(g) = g.len
  BY <1>1, <1>2, LocalFileAssumption DEF OnDisk, Exists, Capped
<1>4. Capped(OnDisk(g) + m) = Capped(OnDisk(f) + (n + m))
  BY <1>1, <1>2, <1>3, LocalFileAssumption DEF Capped
<1>5. (g.clean /\ (m = 0 \/ OnDisk(g) = n)) = (f.clean /\ (n + m = 0 \/ OnDisk(f) = 0))
  <2>1. CASE m = 0
    <3>1. (n + m = 0) <=> (n = 0)
      BY <2>1
    <3>2. QED  BY <2>1, <3>1, <1>1, <1>2
  <2>2. CASE m > 0 /\ OnDisk(f) = 0
    <3>1. OnDisk(g) = n /\ n + m # 0 /\ m # 0
      BY <2>2, <1>1, <1>3, LocalFileAssumption DEF Capped
    <3>2. QED  BY <2>2, <3>1, <1>1, <1>2
  <2>3. CASE m > 0 /\ OnDisk(f) > 0
    <3>1. n + m # 0 /\ m # 0 /\ OnDisk(f) # 0 /\ (n = 0 => OnDisk(g) # n)
      BY <2>3, <1>1, <1>2, <1>3, LocalFileAssumption DEF Capped
    <3>2. QED  BY <3>1, <1>1, <1>2
  <2>4. QED  BY <2>1, <2>2, <2>3, <1>2
<1> HIDE DEF g
<1>6. QED  BY <1>4, <1>5 DEF Appended, g

LEMMA FreshAppended ==
    ASSUME NEW n \in 0 .. Size
    PROVE  /\ Appended(NoFile, 0, n).clean /\ Appended(NoFile, 0, n).len = n
           /\ NoFile \in File
<1>1. NoFile \in File /\ OnDisk(NoFile) = 0 /\ NoFile.clean = TRUE
  BY LocalFileAssumption DEF NoFile, OnDisk, Exists, File
<1>2. Capped(OnDisk(NoFile) + n) = n
  BY <1>1, LocalFileAssumption DEF Capped
<1>3. QED  BY <1>1, <1>2 DEF Appended

\* A reply as it must be.
LEMMA ReplyFacts ==
    ASSUME TypeOK
    PROVE  /\ reply.recv \in 0 .. Size /\ reply.avail \in 0 .. Size
           /\ reply.live \in BOOLEAN /\ reply.open \in BOOLEAN
           /\ reply.sized \in BOOLEAN /\ reply.error \in BOOLEAN
           /\ env.kind \in AllKinds /\ env.faults \in SUBSET AllFaults /\ env.buffer \in Nat
           /\ Size \in Nat /\ Size > 0
  BY LocalFileAssumption, FileDownloadAssumption DEF TypeOK, Reply

-----------------------------------------------------------------------------
(***************************************************************************)
(* saveDownloadedFile().                                                   *)
(***************************************************************************)

\* All the same but for the unread bytes.
SameTransfer ==
    /\ reply'.live = reply.live /\ reply'.open = reply.open
    /\ reply'.sized = reply.sized /\ reply'.error = reply.error
    /\ reply'.recv = reply.recv
    /\ reply'.avail = reply.avail \/ reply'.avail = 0

LEMMA SaveEffect ==
    ASSUME TypeOK, CountInv, Save
    PROVE  /\ file' \in File /\ reply' \in Reply /\ timer' = TRUE
           /\ SameTransfer
           /\ \/ file' = file /\ reply'.avail = reply.avail
              \/ /\ reply'.avail = 0
                 /\ \E n \in 0 .. reply.avail : file' = Appended(file, Read, n)
           /\ Reliable => /\ file' = Appended(file, Read, reply.avail)
                          /\ reply'.avail = 0
<1> USE ReplyFacts
<1>1. CASE Faults \cap {"open", "readonly"} # {} /\ UNCHANGED <<file, reply>>
  BY <1>1 DEF TypeOK, Save, Reliable, SameTransfer
<1>2. CASE /\ reply' = [reply EXCEPT !.avail = 0]
           /\ \E n \in 0 .. reply.avail :
                 /\ n = reply.avail \/ "write" \in Faults
                 /\ file' = Appended(file, reply.recv - reply.avail, n)
  <2>1. /\ reply' \in Reply /\ reply'.avail = 0 /\ SameTransfer
    BY <1>2 DEF TypeOK, Reply, SameTransfer
  <2>2. PICK n \in 0 .. reply.avail :
            /\ n = reply.avail \/ "write" \in Faults
            /\ file' = Appended(file, Read, n)
    BY <1>2 DEF Read
  <2>3. n \in Nat /\ Read \in Int
    BY DEF Read
  <2>4. file' \in File
    BY <2>2, <2>3, AppendedIsFile DEF TypeOK
  <2>5. Reliable => file' = Appended(file, Read, reply.avail)
    BY <2>2 DEF Reliable
  <2>6. QED  BY <2>1, <2>2, <2>4, <2>5 DEF Save
<1>3. QED  BY <1>1, <1>2 DEF Save

\* What was read is appended to what was read before.
LEMMA SaveGrows ==
    ASSUME IInv, Save, stage = "active", UNCHANGED <<env, stage, begun>>
    PROVE  GrownInv' /\ SavedInv'
<1>1. TypeOK /\ CountInv
  BY DEF IInv, TransferInv
<1> USE ReplyFacts, <1>1
<1>2. Read \in 0 .. Size /\ Read + reply.avail = reply.recv /\ begun \in File /\ file \in File
  BY DEF TypeOK, CountInv, Read
<1>3. SameTransfer /\ Read' \in 0 .. Size /\ Read' >= Read
  <2>1. SameTransfer
    BY SaveEffect
  <2>2. Read' = reply.recv - reply.avail \/ Read' = reply.recv
    BY <2>1 DEF Read, SameTransfer
  <2>3. QED  BY <1>2, <2>1, <2>2 DEF Read
<1>4. OnDisk(begun) \in Nat /\ begun.clean \in BOOLEAN /\ file.clean \in BOOLEAN
  BY <1>2 DEF OnDisk, Exists, File
<1>5. GrownInv'
  <2>1. CASE file' = file
    BY <2>1, <1>2, <1>3 DEF GrownInv, IInv
  <2>2. CASE reply'.avail = 0 /\ \E n \in 0 .. reply.avail : file' = Appended(file, Read, n)
    <3>1. PICK n \in 0 .. reply.avail : file' = Appended(file, Read, n)
      BY <2>2
    <3>2. Read' = reply.recv
      BY <2>2, <1>3 DEF Read, SameTransfer
    <3>3. /\ file' = [len |-> file'.len, clean |-> file'.clean]
          /\ file'.len = Capped(OnDisk(file) + n)
          /\ file'.clean \in {FALSE, file.clean}
      <4>1. file'.clean = (file.clean /\ (n = 0 \/ OnDisk(file) = Read))
        BY <3>1 DEF Appended
      <4>2. file'.clean \in {FALSE, file.clean}
        BY <4>1, <1>4
      <4>3. QED  BY <3>1, <4>2 DEF Appended
    <3>4. PICK k \in 0 .. Read :
              /\ Capped(OnDisk(file) + n) = Capped(OnDisk(begun) + k + n)
              /\ file.clean \in {FALSE, begun.clean}
      <4>1. CASE file = begun
        BY <4>1, <1>2, <1>4
      <4>2. CASE \E k \in 0 .. Read, c \in {FALSE, begun.clean} :
                    file = [len |-> Capped(OnDisk(begun) + k), clean |-> c]
        <5>1. PICK k \in 0 .. Read, c \in {FALSE, begun.clean} :
                    file = [len |-> Capped(OnDisk(begun) + k), clean |-> c]
          BY <4>2
        <5>2. OnDisk(file) = Capped(OnDisk(begun) + k) /\ file.clean \in {FALSE, begun.clean}
          <6>1. Capped(OnDisk(begun) + k) \in Nat
            BY <1>2, <1>4, LocalFileAssumption DEF Capped
          <6>2. file.len = Capped(OnDisk(begun) + k) /\ file.clean = c
            BY <5>1
          <6>3. OnDisk(file) = file.len
            BY <6>1, <6>2 DEF OnDisk, Exists
          <6>4. QED  BY <6>2, <6>3
        <5>3. Capped(OnDisk(file) + n) = Capped(OnDisk(begun) + k + n)
          BY <5>2, <1>4, LocalFileAssumption DEF Capped
        <5>4. QED  BY <5>2, <5>3
      <4>3. QED  BY <4>1, <4>2 DEF IInv, GrownInv
    <3>5. k + n \in 0 .. Read' /\ file'.clean \in {FALSE, begun.clean}
      <4>1. k + n \in 0 .. Read'
        BY <3>2, <1>2
      <4>2. QED  BY <4>1, <3>3, <3>4
    <3>6. file' = [len |-> Capped(OnDisk(begun) + (k + n)), clean |-> file'.clean]
      BY <3>3, <3>4, <1>4
    <3>7. QED  BY <3>5, <3>6 DEF GrownInv
  <2>3. QED  BY <2>1, <2>2, SaveEffect
<1>6. SavedInv'
  <2> SUFFICES ASSUME Reliable PROVE file' = Appended(begun, 0, Read')
    BY DEF SavedInv, Reliable, Faults
  <2>1. file' = Appended(file, Read, reply.avail) /\ Read' = Read + reply.avail
    BY <1>2, <1>3, SaveEffect DEF Read, SameTransfer
  <2>2. CASE file = begun /\ Read = 0
    BY <2>1, <2>2
  <2>3. CASE file = Appended(begun, 0, Read)
    BY <2>1, <2>3, <1>2, AppendedTwice
  <2>4. QED  BY <2>2, <2>3 DEF IInv, SavedInv
<1>7. QED  BY <1>5, <1>6

-----------------------------------------------------------------------------
(***************************************************************************)
(* The queue moves.                                                        *)
(***************************************************************************)

\* A slot has run; readyRead() may have left nothing unread.
LEMMA SlotRuns ==
    ASSUME TypeOK, TransferInv, events # <<>>, events' = Tail(events),
           SameTransfer, UNCHANGED <<env, stage>>,
           Reliable /\ events[1][1] = "readyRead" => reply'.avail = 0
    PROVE  QueueInv' /\ CountInv' /\ SizedInv' /\ UnreadInv'
<1> USE ReplyFacts
<1> DEFINE n == Len(events)
<1>1. /\ n \in Nat /\ n >= 1 /\ Len(events') = n - 1
      /\ \A i \in 1 .. n - 1 : events'[i] = events[i + 1]
  BY Popped DEF TypeOK
<1>2. reply.live /\ stage = "active"
  BY DEF TransferInv, QueueInv
<1>3. \A i, slot : Queued(i, slot)' =>
          i \in 1 .. n - 1 /\ events'[i] = events[i + 1] /\ Queued(i + 1, slot)
  BY <1>1 DEF Queued
<1>4. \A i, slot : Queued(i, slot) /\ i > 1 => Queued(i - 1, slot)'
  BY <1>1 DEF Queued
<1>5. Read \in Int /\ Read' \in Int /\ Read' >= Read /\ (reply'.avail = 0 => Read' = reply.recv)
      /\ reply'.avail \in Int
  BY DEF Read, SameTransfer, TransferInv, CountInv
<1> HIDE DEF n
<1>6. QueueInv'
  <2>1. \A i : Queued(i, "finished")' => i = Len(events') /\ ~reply'.open
    <3> SUFFICES ASSUME NEW i, Queued(i, "finished")'
                 PROVE  i = Len(events') /\ ~reply'.open
      OBVIOUS
    <3>1. i \in 1 .. n - 1 /\ Queued(i + 1, "finished")
      BY <1>3
    <3>2. i + 1 = n /\ ~reply.open
      BY <3>1 DEF TransferInv, QueueInv, n
    <3>3. QED  BY <3>1, <3>2, <1>1 DEF SameTransfer
  <2>2. QED  BY <1>2, <2>1 DEF TransferInv, QueueInv, SameTransfer
<1>7. CountInv'
  <2>1. \A i : Queued(i, "downloadProgress")' =>
            events'[i][2] <= reply'.recv /\ (reply'.sized => events'[i][3] = Size)
    <3> SUFFICES ASSUME NEW i, Queued(i, "downloadProgress")'
                 PROVE  events'[i][2] <= reply'.recv /\ (reply'.sized => events'[i][3] = Size)
      OBVIOUS
    <3>1. events'[i] = events[i + 1] /\ Queued(i + 1, "downloadProgress")
      BY <1>3
    <3>2. events[i + 1][2] <= reply.recv /\ (reply.sized => events[i + 1][3] = Size)
      BY <3>1 DEF TransferInv, CountInv
    <3>3. reply'.recv = reply.recv /\ reply'.sized = reply.sized
      BY DEF SameTransfer
    <3>4. QED  BY <3>1, <3>2, <3>3
  <2>2. reply'.avail <= reply'.recv
    BY DEF TransferInv, CountInv, SameTransfer
  <2>3. QED  BY <2>1, <2>2 DEF CountInv
<1>8. UnreadInv'
  <2> SUFFICES ASSUME Reliable
               PROVE  /\ reply'.avail > 0 => \E i : Queued(i, "readyRead")'
                      /\ \A i : Queued(i, "downloadProgress")' =>
                            \/ Read' >= events'[i][2]
                            \/ \E j : j < i /\ Queued(j, "readyRead")'
    BY DEF UnreadInv, Reliable, Faults
  <2>1. \A i : Queued(i, "readyRead") => (i = 1 /\ reply'.avail = 0) \/ Queued(i - 1, "readyRead")'
    BY <1>4 DEF Queued
  <2>2. reply'.avail > 0 => \E i : Queued(i, "readyRead")'
    BY <2>1, <1>2 DEF TransferInv, UnreadInv, SameTransfer
  <2>3. ASSUME NEW i, Queued(i, "downloadProgress")'
        PROVE  Read' >= events'[i][2] \/ \E j : j < i /\ Queued(j, "readyRead")'
    <3>1. /\ i \in 1 .. n - 1 /\ events'[i] = events[i + 1]
          /\ Queued(i + 1, "downloadProgress") /\ i \in Int
      BY <2>3, <1>1, <1>3
    <3>2. events[i + 1][2] \in Int /\ events[i + 1][2] <= reply.recv
      BY SMTT(30), <3>1, EventForm DEF TypeOK, Queued, TransferInv, CountInv
    <3>3. CASE Read >= events[i + 1][2]
      <4>1. events'[i][2] = events[i + 1][2]
        BY <3>1
      <4>2. \A v \in Int : Read >= v => Read' >= v
        BY <1>5
      <4>3. Read' >= events[i + 1][2]
        BY <4>2, <3>2, <3>3
      <4>4. QED  BY <4>1, <4>3
    <3>4. CASE \E j : j < i + 1 /\ Queued(j, "readyRead")
      <4>1. PICK j : j < i + 1 /\ Queued(j, "readyRead")
        BY <3>4
      <4>2. CASE j = 1 /\ reply'.avail = 0
        BY <4>2, <3>1, <3>2, <1>5
      <4>3. CASE Queued(j - 1, "readyRead")'
        <5>1. j \in Int
          BY <4>1 DEF Queued
        <5>2. j - 1 < i
          BY <4>1, <5>1, <3>1
        <5>3. QED  BY <4>3, <5>2
      <4>4. QED  BY <4>1, <4>2, <4>3, <2>1
    <3>5. QED  BY <3>1, <3>3, <3>4, <1>2 DEF TransferInv, UnreadInv
  <2>4. QED  BY <2>2, <2>3
<1>9. SizedInv'
  BY <1>2 DEF TransferInv, SizedInv, SameTransfer, Faults
<1>10. QED  BY <1>6, <1>7, <1>8, <1>9

\* The transfer ends: finished() is queued, and error() before it if it failed.
LEMMA TransferEnds ==
    ASSUME TypeOK, TransferInv, reply.open, UNCHANGED <<env, stage>>,
           ~reply'.open, reply'.live = reply.live, reply'.sized = reply.sized,
           reply'.recv = reply.recv, reply'.avail = reply.avail,
           events' \in Ending(events, reply) \/ events' \in Failure(reply),
           timer' => timer
    PROVE  /\ events' \in Seq(Event)
           /\ QueueInv' /\ CountInv' /\ SizedInv' /\ UnreadInv'
           /\ \A i \in 1 .. Len(events) : i \in 1 .. Len(events') /\ events'[i] = events[i]
<1> USE ReplyFacts
<1> DEFINE n == Len(events)
           m == Len(events')
           Last(i) == /\ events'[i][1] = "downloadProgress" /\ events'[i][2] = reply.recv
                      /\ reply.sized => events'[i][3] = Size
<1>1. /\ events' \in Seq(Event) /\ n \in Nat /\ m \in Nat /\ m > n
      /\ \A i \in 1 .. n : events'[i] = events[i]
      /\ events'[m][1] = "finished"
      /\ \A i \in n + 1 .. m - 1 : events'[i][1] = "error" \/ Last(i)
  <2>1. CASE events' \in Ending(events, reply)
    BY <2>1, EndingForm DEF TypeOK
  <2>2. CASE events' \in Failure(reply)
    <3>1. <<"error">> \in Event /\ <<"error">>[1] = "error"
      BY DEF Event
    <3>2. PICK s \in Seq(Event) : s = Append(events, <<"error">>)
      BY <3>1, PushedOne DEF TypeOK
    <3>3. /\ Len(s) = n + 1 /\ n \in Nat /\ s[n + 1][1] = "error"
          /\ \A i \in 1 .. n : s[i] = events[i]
      BY <3>1, <3>2, PushedOne DEF TypeOK
    <3>4. events' \in Ending(s, reply)
      BY <2>2, <3>2 DEF Failure
    <3>5. /\ events' \in Seq(Event) /\ m \in Nat /\ m > n + 1
          /\ \A i \in 1 .. n + 1 : events'[i] = s[i]
          /\ events'[m][1] = "finished"
          /\ \A i \in n + 2 .. m - 1 : Last(i)
      <4>1. Len(s) + 1 = n + 2
        BY <3>3
      <4>2. QED  BY <3>3, <3>4, <4>1, EndingForm
    <3>6. \A i \in n + 1 .. m - 1 : events'[i][1] = "error" \/ Last(i)
      <4>1. \A i \in n + 1 .. m - 1 : i = n + 1 \/ i \in n + 2 .. m - 1
        BY <3>3, <3>5
      <4>2. events'[n + 1][1] = "error"
        BY <3>3, <3>5
      <4>3. QED  BY <3>5, <4>1, <4>2
    <3>7. QED  BY <3>3, <3>5, <3>6
  <2>3. QED  BY <2>1, <2>2
<1> HIDE DEF Last
<1>2. reply.live /\ stage = "active"
  BY DEF TransferInv, QueueInv
<1>3. \A i, slot : Queued(i, slot) => Queued(i, slot)' /\ i \in 1 .. n /\ events'[i] = events[i]
  BY <1>1 DEF Queued
<1>4. \A i, slot : Queued(i, slot)' =>
          \/ Queued(i, slot) /\ events'[i] = events[i]
          \/ i = m /\ slot = "finished"
          \/ slot = "error"
          \/ slot = "downloadProgress" /\ i \in n + 1 .. m - 1 /\ Last(i)
  <2>1. ASSUME NEW i, NEW slot, Queued(i, slot)', i \in n + 1 .. m - 1
        PROVE  slot = "error" \/ (slot = "downloadProgress" /\ Last(i))
    BY <1>1, <2>1 DEF Queued, Last
  <2>2. \A i \in 1 .. m : i \in 1 .. n \/ i = m \/ i \in n + 1 .. m - 1
    BY <1>1
  <2>3. QED  BY <1>1, <2>1, <2>2 DEF Queued
<1>5. \A i : ~Queued(i, "finished")
  BY DEF TransferInv, QueueInv
<1>6. Read' = Read
  BY DEF Read
<1>7. QueueInv'
  <2>1. \A i : Queued(i, "finished")' => i = m /\ ~reply'.open
    BY <1>4, <1>5
  <2>2. QED  BY <1>2, <2>1 DEF TransferInv, QueueInv
<1>8. CountInv'
  <2>1. \A i : Queued(i, "downloadProgress")' =>
            events'[i][2] <= reply'.recv /\ (reply'.sized => events'[i][3] = Size)
    BY <1>4 DEF TransferInv, CountInv, Last
  <2>2. QED  BY <2>1 DEF TransferInv, CountInv
<1>9. UnreadInv'
  <2> SUFFICES ASSUME Reliable
               PROVE  /\ reply'.avail > 0 => \E i : Queued(i, "readyRead")'
                      /\ \A i : Queued(i, "downloadProgress")' =>
                            \/ Read' >= events'[i][2]
                            \/ \E j : j < i /\ Queued(j, "readyRead")'
    BY DEF UnreadInv, Reliable, Faults
  <2>1. reply'.avail > 0 => \E i : Queued(i, "readyRead")'
    BY <1>2, <1>3 DEF TransferInv, UnreadInv
  <2>2. ASSUME NEW i, Queued(i, "downloadProgress")'
        PROVE  Read' >= events'[i][2] \/ \E j : j < i /\ Queued(j, "readyRead")'
    <3>1. CASE Queued(i, "downloadProgress") /\ events'[i] = events[i]
      <4>1. Read >= events[i][2] \/ \E j : j < i /\ Queued(j, "readyRead")
        BY <3>1, <1>2 DEF TransferInv, UnreadInv
      <4>2. QED  BY <3>1, <4>1, <1>3, <1>6
    <3>2. CASE i \in n + 1 .. m - 1 /\ Last(i) /\ reply.avail = 0
      BY <3>2, <1>6 DEF Last, Read
    <3>3. CASE i \in n + 1 .. m - 1 /\ reply.avail > 0
      <4>1. PICK j : Queued(j, "readyRead")
        BY <3>3, <1>2 DEF TransferInv, UnreadInv
      <4>2. j < i /\ Queued(j, "readyRead")'
        BY <1>1, <1>3, <3>3, <4>1
      <4>3. QED  BY <4>2
    <3>4. QED  BY <2>2, <1>4, <3>1, <3>2, <3>3
  <2>3. QED  BY <2>1, <2>2
<1>10. SizedInv'
  BY <1>2 DEF TransferInv, SizedInv, Faults
<1>11. \A i \in 1 .. n : i \in 1 .. m /\ events'[i] = events[i]
  BY <1>1
<1>12. QED  BY <1>1, <1>7, <1>8, <1>9, <1>10, <1>11

\* A chunk arrives: readyRead() is queued, and downloadProgress() behind it.
LEMMA ChunkArrives ==
    ASSUME TypeOK, TransferInv, ReceiveData
    PROVE  /\ events' \in Seq(Event) /\ reply' \in Reply
           /\ QueueInv' /\ CountInv' /\ SizedInv' /\ UnreadInv'
           /\ \E i : Queued(i, "downloadProgress")' /\ events'[i][2] = reply'.recv
           /\ \A i : Queued(i, "downloadProgress") =>
                  Queued(i, "downloadProgress")' /\ events'[i] = events[i]
           /\ Read' = Read
<1> USE ReplyFacts
<1>0. PICK n \in Nat : n = Len(events)
  BY DEF TypeOK
<1>1. reply.open /\ reply.live /\ stage = "active" /\ UNCHANGED <<env, stage, timer>>
  BY DEF TransferInv, QueueInv, ReceiveData
<1>2. /\ reply' \in Reply
      /\ reply'.recv = reply.recv + 1 /\ reply'.avail = reply.avail + 1
      /\ reply'.live = reply.live /\ reply'.open = reply.open /\ reply'.sized = reply.sized
  <2>1. reply.recv + 1 \in 0 .. Size /\ reply.avail + 1 \in 0 .. Size
    BY SMTT(30) DEF ReceiveData, TransferInv, CountInv
  <2>2. reply' = [reply EXCEPT !.recv = reply.recv + 1, !.avail = reply.avail + 1]
    BY DEF ReceiveData
  <2>3. QED  BY <2>1, <2>2 DEF TypeOK, Reply
<1>3. Read' = Read
  BY <1>2 DEF Read
<1>4. <<"readyRead">> \in Event
  BY DEF Event
<1>5. PICK progress \in Event :
          /\ progress = Progress(reply', Total(reply))
          /\ progress[1] = "downloadProgress" /\ progress[2] = reply'.recv
          /\ reply.sized => progress[3] = Size
  <2>1. PICK total \in -1 .. Size : total = Total(reply) /\ (reply.sized => total = Size)
    BY DEF Total
  <2>2. PICK r \in Reply : r = reply'
    BY <1>2
  <2>3. r.recv \in 0 .. Size
    BY <2>2 DEF Reply
  <2>4. /\ Progress(r, total) \in Event
        /\ Progress(r, total)[1] = "downloadProgress"
        /\ Progress(r, total)[2] = r.recv /\ Progress(r, total)[3] = total
    BY <2>3, ProgressIsEvent
  <2>5. QED  BY <2>1, <2>2, <2>4
<1>6. /\ events' \in Seq(Event) /\ n \in Nat /\ Len(events') = n + 2
      /\ \A i \in 1 .. n : events'[i] = events[i]
      /\ events'[n + 1] = <<"readyRead">> /\ events'[n + 2] = progress
      /\ <<"readyRead">>[1] = "readyRead"
  <2>1. events' = events \o << <<"readyRead">>, progress >>
    BY <1>5 DEF ReceiveData
  <2>2. QED  BY <1>0, <1>4, <2>1, PushedTwo DEF TypeOK
<1>7. \A i, slot : Queued(i, slot) => Queued(i, slot)' /\ i \in 1 .. n /\ events'[i] = events[i]
  BY <1>0, <1>6 DEF Queued
<1>8. \A i, slot : Queued(i, slot)' =>
          \/ Queued(i, slot) /\ events'[i] = events[i]
          \/ i = n + 1 /\ slot = "readyRead"
          \/ i = n + 2 /\ slot = "downloadProgress" /\ events'[i] = progress
  BY SMTT(30), <1>0, <1>5, <1>6 DEF Queued
<1>9. Queued(n + 1, "readyRead")' /\ Queued(n + 2, "downloadProgress")'
  <2>1. events'[n + 1][1] = "readyRead" /\ events'[n + 2][1] = "downloadProgress"
    BY <1>5, <1>6
  <2>2. n + 1 \in 1 .. Len(events') /\ n + 2 \in 1 .. Len(events')
    BY <1>6
  <2>3. QED  BY <2>1, <2>2 DEF Queued
<1>10. QueueInv'
  <2>1. \A i : ~Queued(i, "finished")'
    BY <1>1, <1>8 DEF TransferInv, QueueInv
  <2>2. QED  BY <1>1, <1>2, <2>1 DEF TransferInv, QueueInv
<1>11. CountInv'
  <2>1. ASSUME NEW i, Queued(i, "downloadProgress")'
        PROVE  events'[i][2] <= reply'.recv /\ (reply'.sized => events'[i][3] = Size)
    <3>1. CASE Queued(i, "downloadProgress") /\ events'[i] = events[i]
      <4>1. /\ events'[i][2] = events[i][2] /\ events'[i][3] = events[i][3]
            /\ events[i][2] \in Int /\ events[i][2] <= reply.recv
            /\ reply.sized => events[i][3] = Size
        BY <3>1, EventForm DEF TypeOK, Queued, TransferInv, CountInv
      <4>2. QED  BY <4>1, <1>2
    <3>2. CASE events'[i] = progress
      BY <3>2, <1>2, <1>5
    <3>3. QED  BY <2>1, <3>1, <3>2, <1>8
  <2>2. reply'.avail <= reply'.recv
    BY <1>2 DEF TransferInv, CountInv
  <2>3. QED  BY <2>1, <2>2 DEF CountInv
<1>12. UnreadInv'
  <2> SUFFICES ASSUME Reliable
               PROVE  /\ \E i : Queued(i, "readyRead")'
                      /\ \A i : Queued(i, "downloadProgress")' =>
                            \/ Read' >= events'[i][2]
                            \/ \E j : j < i /\ Queued(j, "readyRead")'
    BY <1>1 DEF UnreadInv, Reliable, Faults
  <2>1. ASSUME NEW i, Queued(i, "downloadProgress")'
        PROVE  Read' >= events'[i][2] \/ \E j : j < i /\ Queued(j, "readyRead")'
    <3>1. CASE Queued(i, "downloadProgress") /\ events'[i] = events[i]
      <4>1. Read >= events[i][2] \/ \E j : j < i /\ Queued(j, "readyRead")
        BY <3>1, <1>1 DEF TransferInv, UnreadInv
      <4>2. events'[i][2] = events[i][2]
        BY <3>1
      <4>3. QED  BY <4>1, <4>2, <1>3, <1>7
    <3>2. CASE i = n + 2
      <4>1. n + 1 < i
        BY <3>2, <1>6
      <4>2. QED  BY <4>1, <1>9
    <3>3. QED  BY <2>1, <3>1, <3>2, <1>8
  <2>2. QED  BY <1>9, <2>1
<1>13. Queued(n + 2, "downloadProgress")' /\ events'[n + 2][2] = reply'.recv
  BY <1>5, <1>6, <1>9
<1>14. SizedInv'
  BY <1>1, <1>2 DEF TransferInv, SizedInv, Faults
<1>15. QED  BY <1>2, <1>3, <1>6, <1>7, <1>10, <1>11, <1>12, <1>13, <1>14

-----------------------------------------------------------------------------
(***************************************************************************)
(* The actions.                                                            *)
(***************************************************************************)

\* Nothing that is said of the file changes.
LEMMA FileUnmoved ==
    ASSUME IInv, UNCHANGED <<env, stage, file, status, begun>>, Read' = Read
    PROVE  StatusInv' /\ FreshInv' /\ GrownInv' /\ SavedInv' /\ TrustInv'
<1>1. StatusInv' /\ FreshInv' /\ TrustInv'
  BY DEF IInv, StatusInv, FreshInv, TrustInv, Reliable, Told, Faults, kind
<1>2. GrownInv' /\ SavedInv'
  BY DEF IInv, GrownInv, SavedInv, Reliable, Faults
<1>3. QED  BY <1>1, <1>2

LEMMA Running ==
    ASSUME TypeOK, TransferInv, NEW slot, Runs(slot)
    PROVE  /\ events # <<>> /\ Queued(1, slot) /\ stage = "active" /\ reply.live
           /\ Head(events) = events[1] /\ Tail(events) \in Seq(Event)
<1>1. events # <<>> /\ Head(events)[1] = slot
  BY DEF Runs
<1>2. 1 \in 1 .. Len(events) /\ Head(events) = events[1] /\ Tail(events) \in Seq(Event)
  BY <1>1, Popped DEF TypeOK
<1>3. stage = "active" /\ reply.live
  BY <1>1 DEF TransferInv, QueueInv
<1>4. QED  BY <1>1, <1>2, <1>3 DEF Queued

\* A complete download that is still to be seen, is still to be seen or was.
LEMMA StillDue ==
    ASSUME TypeOK, DueInv, events # <<>>, events' = Tail(events),
           SameTransfer, UNCHANGED <<env, stage>>, full => full',
           Queued(1, "downloadProgress") /\ events[1][2] = Size
               /\ Reliable /\ stage = "active" /\ kind = "advert" /\ reply.sized
               => full'
    PROVE  DueInv'
<1> SUFFICES ASSUME Reliable, stage = "active", kind = "advert", reply.sized,
                    reply.recv = Size, ~full'
             PROVE  \E i : Queued(i, "downloadProgress")' /\ events'[i][2] = Size
  BY DEF DueInv, SameTransfer, Reliable, Faults, kind
<1>1. PICK i : Queued(i, "downloadProgress") /\ events[i][2] = Size
  BY DEF DueInv
<1>2. i # 1 /\ i \in 1 .. Len(events)
  BY <1>1 DEF Queued
<1>3. Len(events) \in Nat /\ Len(events') = Len(events) - 1
      /\ \A k \in 1 .. Len(events) - 1 : events'[k] = events[k + 1]
  BY Popped DEF TypeOK
<1>4. i - 1 \in 1 .. Len(events') /\ events'[i - 1] = events[i]
  BY <1>2, <1>3
<1>5. QED  BY <1>1, <1>4 DEF Queued

LEMMA NextDownloadKeeps == ASSUME IInv, NextDownload PROVE IInv'
<1>1. TypeOK /\ TransferInv
  BY DEF IInv
<1> USE ReplyFacts, <1>1
<1>2. PICK sized \in BOOLEAN :
          /\ "unsized" \notin Faults => sized
          /\ reply' = [NoReply EXCEPT !.live = TRUE, !.open = TRUE, !.sized = sized]
  <2>1. (IF "unsized" \in Faults THEN BOOLEAN ELSE {TRUE}) \subseteq BOOLEAN
    OBVIOUS
  <2>2. QED  BY <2>1 DEF NextDownload
<1>3. /\ reply' = [live |-> TRUE, open |-> TRUE, sized |-> sized, error |-> FALSE,
                   recv |-> 0, avail |-> 0]
      /\ events' = <<>> /\ stage' = "active" /\ full' = FALSE /\ Read' = 0
  <2>1. ~reply.live
    BY DEF NextDownload, TransferInv, QueueInv
  <2>2. events = <<>>
    BY <2>1 DEF TransferInv, QueueInv
  <2>3. reply' = [live |-> TRUE, open |-> TRUE, sized |-> sized, error |-> FALSE,
                  recv |-> 0, avail |-> 0]
    BY <1>2 DEF NoReply
  <2>4. Read' = 0
    BY <2>3 DEF Read
  <2>5. events' = <<>> /\ stage' = "active" /\ full' = FALSE
    BY <2>2 DEF NextDownload
  <2>6. QED  BY <2>3, <2>4, <2>5
<1>4. TypeOK'
  <2>1. reply' \in Reply
    BY <1>3 DEF Reply
  <2>2. QED  BY <2>1, <1>3 DEF TypeOK, NextDownload
<1>5. \A i, slot : ~Queued(i, slot)'
  BY <1>3 DEF Queued
<1>6. QueueInv' /\ CountInv' /\ SizedInv' /\ UnreadInv' /\ CompleteInv'
  <2>1. UNCHANGED env
    BY DEF NextDownload
  <2>2. SizedInv'
    BY <1>2, <1>3, <2>1 DEF SizedInv, Faults
  <2>3. QED  BY <1>1, <1>3, <1>5, <2>2 DEF QueueInv, CountInv, UnreadInv, CompleteInv
<1>7. StatusInv' /\ FreshInv' /\ GrownInv' /\ SavedInv' /\ TrustInv'
  BY <1>3 DEF IInv, StatusInv, FreshInv, GrownInv, SavedInv, TrustInv, NextDownload, kind
<1>8. DueInv'
  BY <1>1, <1>3 DEF DueInv
<1>9. QED  BY <1>4, <1>6, <1>7, <1>8 DEF IInv, TransferInv

LEMMA ReceiveDataKeeps == ASSUME IInv, ReceiveData PROVE IInv'
<1>1. TypeOK /\ TransferInv
  BY DEF IInv
<1> USE ReplyFacts, <1>1
<1>2. stage = "active" /\ reply'.open
  BY DEF TransferInv, QueueInv, ReceiveData, TypeOK, Reply
<1>3. TypeOK'
  BY ChunkArrives DEF TypeOK, ReceiveData
<1>4. CompleteInv'
  BY <1>2, ChunkArrives DEF TransferInv, CompleteInv, ReceiveData, Reliable, Faults
<1>5. DueInv'
  BY ChunkArrives DEF DueInv
<1>6. StatusInv' /\ FreshInv' /\ GrownInv' /\ SavedInv' /\ TrustInv'
  BY FileUnmoved, ChunkArrives DEF ReceiveData
<1>7. QED  BY <1>3, <1>4, <1>5, <1>6, ChunkArrives DEF IInv, TransferInv

\* The ways a transfer ends.
LEMMA EndKeeps ==
    ASSUME IInv, reply.open, UNCHANGED <<env, stage, file, status, full, begun>>,
           \/ /\ reply.recv = Size \/ "short" \in Faults
              /\ reply' = [reply EXCEPT !.open = FALSE]
              /\ events' \in Ending(events, reply)
           \/ /\ reply' = Fail(reply)
              /\ events' \in Failure(reply),
           timer' \in BOOLEAN, timer' => timer, timedOut' \in BOOLEAN
    PROVE  IInv'
<1>1. TypeOK /\ TransferInv
  BY DEF IInv
<1> USE ReplyFacts, <1>1
<1>2. /\ reply' \in Reply /\ ~reply'.open /\ reply'.live = reply.live
      /\ reply'.recv = reply.recv /\ reply'.avail = reply.avail /\ reply'.sized = reply.sized
      /\ Reliable => reply.recv = Size \/ reply'.error
  BY DEF TypeOK, Reply, Fail, Reliable
<1>3. /\ events' \in Seq(Event) /\ QueueInv' /\ CountInv' /\ SizedInv' /\ UnreadInv'
      /\ \A i \in 1 .. Len(events) : i \in 1 .. Len(events') /\ events'[i] = events[i]
  BY <1>2, TransferEnds
<1>4. Read' = Read
  BY <1>2 DEF Read
<1>5. TypeOK'
  BY <1>2, <1>3 DEF TypeOK
<1>6. CompleteInv'
  BY <1>2, <1>4 DEF TransferInv, CompleteInv, Reliable, Faults
<1>7. DueInv'
  <2> SUFFICES ASSUME Reliable, stage = "active", kind = "advert", reply.sized,
                      reply.recv = Size, ~full
               PROVE  \E i : Queued(i, "downloadProgress")' /\ events'[i][2] = Size
    BY <1>2 DEF DueInv, Reliable, Faults, kind
  <2>1. PICK i : Queued(i, "downloadProgress") /\ events[i][2] = Size
    BY DEF IInv, DueInv
  <2>2. events'[i] = events[i] /\ i \in 1 .. Len(events')
    BY <1>3, <2>1 DEF Queued
  <2>3. QED  BY <2>1, <2>2 DEF Queued
<1>8. StatusInv' /\ FreshInv' /\ GrownInv' /\ SavedInv' /\ TrustInv'
  BY <1>4, FileUnmoved
<1>9. QED  BY <1>3, <1>5, <1>6, <1>7, <1>8 DEF IInv, TransferInv

LEMMA TransferDoneKeeps == ASSUME IInv, TransferDone PROVE IInv'
  BY EndKeeps DEF TransferDone, IInv, TypeOK

LEMMA TransferFailsKeeps == ASSUME IInv, TransferFails PROVE IInv'
  BY EndKeeps DEF TransferFails, IInv, TypeOK

LEMMA SaveDownloadedFileKeeps == ASSUME IInv, SaveDownloadedFile PROVE IInv'
<1>1. TypeOK /\ TransferInv /\ CountInv
  BY DEF IInv, TransferInv
<1> USE ReplyFacts, <1>1
<1>2. /\ events # <<>> /\ Queued(1, "readyRead") /\ stage = "active" /\ reply.live
      /\ events' = Tail(events) /\ Tail(events) \in Seq(Event)
      /\ Save /\ UNCHANGED <<env, stage, status, timedOut, full, begun>>
  BY Running DEF SaveDownloadedFile
<1>3. /\ file' \in File /\ reply' \in Reply /\ timer' = TRUE
      /\ SameTransfer /\ (Reliable => reply'.avail = 0)
  BY <1>2, SaveEffect
<1>4. TypeOK'
  BY <1>2, <1>3 DEF TypeOK
<1>5. QueueInv' /\ CountInv' /\ SizedInv' /\ UnreadInv'
  BY <1>2, <1>3, SlotRuns
<1>6. CompleteInv'
  <2>1. Reliable => /\ Read' = reply.recv /\ (Read = Size => reply.recv = Size)
                    /\ Read > 0 => reply.recv > 0
    BY <1>3 DEF Read, SameTransfer, CountInv
  <2>2. QED  BY <1>2, <1>3, <2>1 DEF TransferInv, CompleteInv, SameTransfer, Reliable, Faults
<1>7. DueInv'
  BY <1>2, <1>3, StillDue DEF Queued, IInv
<1>8. GrownInv' /\ SavedInv'
  BY <1>2, SaveGrows
<1>9. StatusInv' /\ FreshInv' /\ TrustInv'
  BY <1>2 DEF IInv, StatusInv, FreshInv, TrustInv, kind
<1>10. QED  BY <1>4, <1>5, <1>6, <1>7, <1>8, <1>9 DEF IInv, TransferInv

LEMMA ReplyErrorKeeps == ASSUME IInv, ReplyError PROVE IInv'
<1>1. TypeOK /\ TransferInv
  BY DEF IInv
<1> USE ReplyFacts, <1>1
<1>2. /\ events # <<>> /\ Queued(1, "error") /\ stage = "active"
      /\ events' = Tail(events) /\ Tail(events) \in Seq(Event) /\ timer' = FALSE
      /\ UNCHANGED <<env, stage, file, status, reply, timedOut, full, begun>>
  BY Running DEF ReplyError
<1>3. SameTransfer /\ Read' = Read
  BY <1>2 DEF SameTransfer, Read
<1>4. TypeOK'
  BY <1>2 DEF TypeOK
<1>5. QueueInv' /\ CountInv' /\ SizedInv' /\ UnreadInv'
  BY <1>2, <1>3, SlotRuns DEF Queued
<1>6. CompleteInv'
  BY <1>2, <1>3 DEF TransferInv, CompleteInv, Reliable, Faults
<1>7. DueInv'
  BY <1>2, <1>3, StillDue DEF Queued, IInv
<1>8. StatusInv' /\ FreshInv' /\ GrownInv' /\ SavedInv' /\ TrustInv'
  BY <1>2, <1>3, FileUnmoved
<1>9. QED  BY <1>4, <1>5, <1>6, <1>7, <1>8 DEF IInv, TransferInv

\* When all of the file was read and there was no file before, its size is right.
LEMMA AllRead ==
    ASSUME IInv, Reliable, stage = "active", Read = Size, kind # "music"
    PROVE  Intact(file)
<1>1. Size \in 0 .. Size /\ Size > 0
  BY LocalFileAssumption
<1>2. file = Appended(NoFile, 0, Size)
  BY <1>1 DEF IInv, SavedInv, FreshInv
<1>3. QED  BY <1>1, <1>2, FreshAppended DEF Intact

LEMMA DownloadProgressKeeps == ASSUME IInv, DownloadProgress PROVE IInv'
<1>1. TypeOK /\ TransferInv
  BY DEF IInv
<1> USE ReplyFacts, <1>1
<1>2. /\ events # <<>> /\ Queued(1, "downloadProgress") /\ stage = "active" /\ reply.live
      /\ Head(events) = events[1] /\ Tail(events) \in Seq(Event)
      /\ events' = Tail(events) /\ timer' = TRUE
      /\ UNCHANGED <<env, stage, file, status, reply, timedOut, begun>>
  BY Running DEF DownloadProgress
<1>3. full' = (full \/ /\ kind # "revision"
                       /\ events[1][2] >= events[1][3] /\ events[1][2] > 0
                       /\ events[1][3] # -1
                       /\ file.len = events[1][2])
  BY <1>2 DEF DownloadProgress
<1>4. SameTransfer /\ Read' = Read
  BY <1>2 DEF SameTransfer, Read
<1>5. /\ events[1][1] = "downloadProgress"
      /\ events[1][2] \in 0 .. Size /\ events[1][2] <= reply.recv
      /\ reply.sized => events[1][3] = Size
      /\ Reliable => Read >= events[1][2]
  <2>1. events[1][1] = "downloadProgress" /\ events[1] \in Event
    BY <1>2 DEF Queued, TypeOK
  <2>2. Reliable => Read >= events[1][2]
    BY <1>2 DEF TransferInv, UnreadInv, Queued
  <2>3. QED  BY <1>2, <2>1, <2>2, EventForm DEF TransferInv, CountInv
<1>6. Reliable /\ events[1][2] >= Size => Read = Size
  BY <1>5 DEF Read, TransferInv, CountInv
<1>7. TypeOK'
  BY <1>2, <1>3 DEF TypeOK
<1>8. QueueInv' /\ CountInv' /\ SizedInv' /\ UnreadInv'
  BY <1>2, <1>4, <1>5, SlotRuns
<1>9. CompleteInv'
  <2>1. ASSUME Reliable, full' PROVE Read > 0 /\ (reply.sized => Read = Size)
    <3>1. CASE full
      BY <1>2, <2>1, <3>1 DEF TransferInv, CompleteInv
    <3>2. CASE events[1][2] >= events[1][3] /\ events[1][2] > 0
      <4>1. Read >= events[1][2] /\ Read \in Int
        BY <1>5, <2>1 DEF Read
      <4>2. Read > 0
        BY <1>5, <3>2, <4>1
      <4>3. QED  BY <1>5, <1>6, <2>1, <3>2, <4>2
    <3>3. QED  BY <1>3, <2>1, <3>1, <3>2
  <2>2. QED  BY <1>2, <1>4, <2>1 DEF TransferInv, CompleteInv, Reliable, Faults
<1>10. DueInv'
  <2>1. ASSUME events[1][2] = Size, Reliable, stage = "active",
               kind = "advert", reply.sized
        PROVE  full'
    <3>1. file.len = Size
      BY <2>1, <1>6, AllRead DEF Intact
    <3>2. /\ kind # "revision" /\ events[1][2] >= events[1][3] /\ events[1][2] > 0
          /\ events[1][3] # -1
      BY <1>5, <2>1
    <3>3. QED  BY <1>3, <2>1, <3>1, <3>2
  <2>2. full => full'
    BY <1>3
  <2>3. QED  BY <1>2, <1>4, <2>1, <2>2, StillDue DEF IInv
<1>11. StatusInv' /\ FreshInv' /\ GrownInv' /\ SavedInv' /\ TrustInv'
  BY <1>2, <1>4, FileUnmoved
<1>12. QED  BY <1>7, <1>8, <1>9, <1>10, <1>11 DEF IInv, TransferInv

\* The verdict of a download, and where it comes from.
LEMMA VerdictIsRight ==
    ASSUME IInv, DownloadFinished
    PROVE  /\ reply.avail \in 0 .. Size /\ ~reply.open /\ events' = <<>> /\ stage = "active"
           /\ status' \in Status
           /\ kind # "revision" => status' # "DOWNLOAD_FAIL"
           /\ kind = "revision" => status' # "DEFAULT"
           /\ status' = "DOWNLOAD_OK" => Exists(file)
           /\ status' = "DOWNLOAD_OK" /\ Reliable => Read > 0 /\ (Told => Read = Size)
<1>1. TypeOK /\ TransferInv
  BY DEF IInv
<1> USE ReplyFacts, <1>1
<1>2. /\ events # <<>> /\ Queued(1, "finished") /\ stage = "active" /\ reply.live
      /\ events' = Tail(events)
  BY Running DEF DownloadFinished
<1>3. Len(events) = 1 /\ ~reply.open
  BY <1>2 DEF TransferInv, QueueInv
<1>4. events' = <<>>
  <2>1. events' \in Seq(Event) /\ Len(events') = 0
    BY <1>2, <1>3, Popped DEF TypeOK
  <2>2. QED  BY <2>1
<1>5. status' = Verdict /\ status = "DEFAULT"
  BY <1>2 DEF DownloadFinished, IInv, StatusInv
<1>6. \A i : ~Queued(i, "readyRead")
  <2>1. events[1][1] = "finished"
    BY <1>2 DEF Queued
  <2>2. QED  BY <1>3, <2>1 DEF Queued
<1>7. Reliable => reply.avail = 0
  BY <1>2, <1>6 DEF TransferInv, UnreadInv
<1>8. ~reply.error /\ Reliable => Read = Size
  BY <1>2, <1>3, <1>7 DEF TransferInv, CompleteInv, Read
<1>9. full /\ Reliable => Read > 0 /\ (reply.sized => Read = Size)
  BY <1>2 DEF TransferInv, CompleteInv
<1>10. status' = "DOWNLOAD_OK" => Clear \/ (Exists(file) /\ full /\ kind # "revision")
  BY <1>5 DEF Verdict
<1>11. status' = "DOWNLOAD_OK" => Exists(file) /\ (~reply.error \/ (full /\ kind # "revision"))
  BY <1>10 DEF Clear
<1>13. Told /\ kind # "revision" => reply.sized
  BY <1>2 DEF TransferInv, SizedInv, Told
<1>14. status' = "DOWNLOAD_OK" /\ Reliable => Read > 0 /\ (Told => Read = Size)
  BY <1>8, <1>9, <1>11, <1>13
<1>12. /\ status' \in Status
       /\ kind # "revision" => status' # "DOWNLOAD_FAIL"
       /\ kind = "revision" => status' # "DEFAULT"
  BY <1>5 DEF Verdict, Status
<1>15. QED  BY <1>2, <1>3, <1>4, <1>11, <1>12, <1>14

\* After a download there is no reply, and what is said of one says nothing.
LEMMA NothingUnderWay ==
    ASSUME reply' = NoReply, events' = <<>>, timer' = FALSE, stage' # "active"
    PROVE  /\ reply' \in Reply /\ events' \in Seq(Event)
           /\ TransferInv' /\ GrownInv' /\ SavedInv' /\ DueInv'
<1>1. \A i, slot : ~Queued(i, slot)'
  BY DEF Queued
<1>2. reply' \in Reply
  BY LocalFileAssumption DEF NoReply, Reply
<1>3. QueueInv' /\ CountInv'
  BY <1>1 DEF QueueInv, CountInv, NoReply
<1>4. QED  BY <1>2, <1>3 DEF TransferInv, SizedInv, UnreadInv, CompleteInv, GrownInv, SavedInv, DueInv

LEMMA DownloadFinishedKeeps == ASSUME IInv, DownloadFinished PROVE IInv'
<1>1. TypeOK /\ TransferInv
  BY DEF IInv
<1>2. /\ reply' = NoReply /\ events' = <<>> /\ timer' = FALSE /\ stage' = "ended"
      /\ UNCHANGED <<env, file, timedOut, full, begun>>
  BY VerdictIsRight DEF DownloadFinished
<1>3. TypeOK'
  BY <1>1, <1>2, VerdictIsRight, NothingUnderWay DEF TypeOK
<1>4. StatusInv' /\ FreshInv'
  BY <1>2, VerdictIsRight DEF StatusInv, FreshInv, kind
<1>5. TrustInv'
  BY <1>2, VerdictIsRight, AllRead DEF TrustInv, Reliable, Told, Faults, kind
<1>6. QED  BY <1>2, <1>3, <1>4, <1>5, NothingUnderWay DEF IInv

LEMMA DownloadTimeoutKeeps == ASSUME IInv, DownloadTimeout PROVE IInv'
<1>1. TypeOK /\ TransferInv /\ CountInv
  BY DEF IInv, TransferInv
<1> USE ReplyFacts, <1>1
<1>2. stage = "active" /\ reply.live /\ UNCHANGED <<env, stage, status, full, begun>>
  BY DEF DownloadTimeout, TransferInv, QueueInv
<1>3. CASE reply.avail > 0
  <2>1. Save /\ UNCHANGED <<events, timedOut>>
    BY <1>3 DEF DownloadTimeout
  <2>2. /\ file' \in File /\ reply' \in Reply /\ timer' = TRUE
        /\ SameTransfer /\ (Reliable => reply'.avail = 0)
    BY <2>1, SaveEffect
  <2>3. TypeOK'
    BY <1>2, <2>1, <2>2 DEF TypeOK
  <2>4. \A i, slot : Queued(i, slot)' <=> Queued(i, slot)
    BY <2>1 DEF Queued
  <2>5. QueueInv' /\ CountInv' /\ SizedInv'
    <3>1. QueueInv'
      BY <1>2, <2>1, <2>2, <2>4 DEF TransferInv, QueueInv, SameTransfer
    <3>2. reply'.avail <= reply'.recv
      BY <2>2 DEF CountInv, SameTransfer
    <3>3. SizedInv'
      BY <1>2, <2>2 DEF TransferInv, SizedInv, SameTransfer, Faults
    <3>4. QED  BY <3>1, <3>2, <3>3, <2>1, <2>2, <2>4 DEF CountInv, SameTransfer
  <2>6. Reliable => Read' = reply.recv /\ reply'.recv = reply.recv
    BY <2>2 DEF Read, SameTransfer
  <2>7. UnreadInv'
    <3> SUFFICES ASSUME Reliable
                 PROVE  /\ reply'.avail > 0 => \E i : Queued(i, "readyRead")'
                        /\ \A i : Queued(i, "downloadProgress")' =>
                              \/ Read' >= events'[i][2]
                              \/ \E j : j < i /\ Queued(j, "readyRead")'
      BY <1>2 DEF UnreadInv, Reliable, Faults
    <3>1. ASSUME NEW i, Queued(i, "downloadProgress") PROVE reply.recv >= events[i][2]
      <4>1. events[i] \in Event /\ events[i][1] = "downloadProgress"
        BY <3>1 DEF Queued, TypeOK
      <4>2. events[i][2] \in Int
        BY <4>1, EventForm
      <4>3. QED  BY <3>1, <4>2 DEF CountInv
    <3>2. QED  BY <3>1, <2>1, <2>2, <2>4, <2>6
  <2>8. CompleteInv'
    <3>1. Reliable => (Read = Size => reply.recv = Size) /\ (Read > 0 => reply.recv > 0)
      BY DEF Read, CountInv
    <3>2. QED
      BY <1>2, <2>2, <2>6, <3>1 DEF TransferInv, CompleteInv, SameTransfer, Reliable, Faults
  <2>9. DueInv'
    BY <1>2, <2>1, <2>2, <2>4 DEF IInv, DueInv, SameTransfer, Reliable, Faults, kind
  <2>10. GrownInv' /\ SavedInv'
    BY <1>2, <2>1, SaveGrows
  <2>11. StatusInv' /\ FreshInv' /\ TrustInv'
    BY <1>2 DEF IInv, StatusInv, FreshInv, TrustInv, kind
  <2>12. QED  BY <2>3, <2>5, <2>7, <2>8, <2>9, <2>10, <2>11 DEF IInv, TransferInv
<1>4. CASE ~(reply.avail > 0) /\ reply.open
  <2>1. /\ timer' = FALSE /\ timedOut' = TRUE
        /\ reply' = Fail(reply) /\ events' \in Failure(reply) /\ UNCHANGED file
    BY <1>4 DEF DownloadTimeout
  <2>2. QED  BY <1>2, <1>4, <2>1, EndKeeps
<1>5. CASE ~(reply.avail > 0) /\ ~reply.open
  <2>1. timer' = FALSE /\ timedOut' = TRUE /\ UNCHANGED <<reply, events, file>>
    BY <1>5 DEF DownloadTimeout
  <2>2. Read' = Read
    BY <2>1 DEF Read
  <2>3. \A i, slot : Queued(i, slot)' <=> Queued(i, slot)
    BY <2>1 DEF Queued
  <2>4. TypeOK'
    BY <1>2, <2>1 DEF TypeOK
  <2>5. QueueInv' /\ CountInv' /\ SizedInv' /\ UnreadInv' /\ CompleteInv'
    BY <1>2, <2>1, <2>2, <2>3
    DEF TransferInv, QueueInv, CountInv, SizedInv, UnreadInv, CompleteInv, Reliable, Faults
  <2>6. DueInv'
    BY <1>2, <2>1, <2>3 DEF IInv, DueInv, Reliable, Faults, kind
  <2>7. QED  BY <1>2, <2>1, <2>2, <2>4, <2>5, <2>6, FileUnmoved DEF IInv, TransferInv
<1>6. QED  BY <1>3, <1>4, <1>5

\* The process dies, or the file is listed again or moved away.
LEMMA OutsideKeeps ==
    ASSUME IInv, PowerLoss \/ Collect \/ MoveToMedia
    PROVE  IInv'
<1>1. TypeOK /\ TransferInv
  BY DEF IInv
<1> USE ReplyFacts, <1>1
<1>2. NoFile \in File
  BY LocalFileAssumption DEF NoFile, File
<1>3. CASE PowerLoss
  <2>1. /\ reply' = NoReply /\ events' = <<>> /\ timer' = FALSE /\ stage' = "ended"
        /\ status = "DEFAULT"
        /\ UNCHANGED <<env, file, status, timedOut, full, begun>>
    BY <1>3 DEF PowerLoss, IInv, StatusInv
  <2>2. TypeOK'
    BY <2>1, NothingUnderWay DEF TypeOK
  <2>3. StatusInv' /\ FreshInv' /\ TrustInv'
    BY <2>1 DEF IInv, StatusInv, FreshInv, TrustInv, kind
  <2>4. QED  BY <2>1, <2>2, <2>3, NothingUnderWay DEF IInv
<1>4. CASE Collect \/ MoveToMedia
  <2>1. /\ stage = "ended" /\ stage' # "active" /\ stage' \in {"listed", "ended"}
        /\ status' = "DEFAULT" /\ file' \in {file, NoFile}
        /\ kind # "music" => file' = NoFile
        /\ UNCHANGED <<env, reply, events, timer, timedOut, full, begun>>
    BY <1>4 DEF Collect, MoveToMedia
  <2>2. TypeOK'
    BY <1>2, <2>1 DEF TypeOK, Status
  <2>3. \A i, slot : Queued(i, slot)' <=> Queued(i, slot)
    BY <2>1 DEF Queued
  <2>4. TransferInv' /\ GrownInv' /\ SavedInv' /\ DueInv'
    BY <2>1, <2>3
    DEF TransferInv, QueueInv, CountInv, SizedInv, UnreadInv, CompleteInv, GrownInv, SavedInv, DueInv
  <2>5. StatusInv' /\ FreshInv' /\ TrustInv'
    BY <2>1 DEF StatusInv, FreshInv, TrustInv, kind
  <2>6. QED  BY <2>2, <2>4, <2>5 DEF IInv
<1>5. QED  BY <1>3, <1>4

LEMMA InitIInv == Init => IInv
<1> SUFFICES ASSUME Init PROVE IInv  OBVIOUS
<1>1. \A i, slot : ~Queued(i, slot)
  BY DEF Init, Queued
<1>2. NoFile \in File /\ NoReply \in Reply
  BY LocalFileAssumption DEF NoFile, File, NoReply, Reply
<1>3. TypeOK
  <2>1. events \in Seq(Event)
    BY DEF Init
  <2>2. QED  BY <1>2, <2>1 DEF Init, TypeOK, Status
<1>4. QueueInv /\ CountInv
  BY <1>1 DEF Init, QueueInv, CountInv, NoReply
<1>5. QED
  BY <1>3, <1>4 DEF Init, IInv, TransferInv, SizedInv, UnreadInv, CompleteInv, StatusInv, FreshInv, GrownInv,
     SavedInv, DueInv, TrustInv

LEMMA StutterKeeps == ASSUME IInv, UNCHANGED vars PROVE IInv'
<1>1. UNCHANGED <<env, stage, file, status, reply, events, timer, timedOut, full, begun>>
  BY DEF vars
<1>2. Read' = Read /\ \A i, slot : Queued(i, slot)' <=> Queued(i, slot)
  BY <1>1 DEF Read, Queued
<1>3. TypeOK'
  BY <1>1 DEF IInv, TypeOK
<1>4. TransferInv' /\ DueInv'
  BY <1>1, <1>2 DEF IInv, TransferInv, QueueInv, CountInv, SizedInv, UnreadInv, CompleteInv, DueInv,
                    Reliable, Faults, kind
<1>5. QED  BY <1>1, <1>2, <1>3, <1>4, FileUnmoved DEF IInv

LEMMA NextIInv == IInv /\ [Next]_vars => IInv'
<1> SUFFICES ASSUME IInv, [Next]_vars PROVE IInv'  OBVIOUS
<1>1. CASE NextDownload \/ ReceiveData \/ TransferDone \/ TransferFails
  BY <1>1, NextDownloadKeeps, ReceiveDataKeeps, TransferDoneKeeps, TransferFailsKeeps
<1>2. CASE SaveDownloadedFile \/ DownloadProgress \/ ReplyError \/ DownloadFinished
  BY <1>2, SaveDownloadedFileKeeps, DownloadProgressKeeps, ReplyErrorKeeps, DownloadFinishedKeeps
<1>3. CASE DownloadTimeout
  BY <1>3, DownloadTimeoutKeeps
<1>4. CASE PowerLoss \/ Collect \/ MoveToMedia
  BY <1>4, OutsideKeeps
<1>5. CASE UNCHANGED vars
  BY <1>5, StutterKeeps
<1>6. QED  BY <1>1, <1>2, <1>3, <1>4, <1>5 DEF Next

-----------------------------------------------------------------------------
(***************************************************************************)
(* The theorems.                                                           *)
(***************************************************************************)

\* What is said above of the reply, its queue and its file holds in any
\* surroundings: whatever the disk, the network and the timer do.
THEOREM DownloadInvariant == Spec => []IInv
<1>1. QED  BY InitIInv, NextIInv, PTL DEF Spec

\* Every variable of the download keeps its type, the length of the file among
\* them.
THEOREM TypeCorrect == Spec => []TypeOK
<1>1. IInv => TypeOK
  BY DEF IInv
<1>2. QED  BY <1>1, DownloadInvariant, PTL

\* No queued slot and no timeout of DownloadManager runs without the reply that
\* it dereferences.
THEOREM TimersNeedReplies == Spec => []TimerNeedsReply
<1>1. IInv => TimerNeedsReply
  BY DEF IInv, TransferInv, QueueInv, TimerNeedsReply
<1>2. QED  BY <1>1, DownloadInvariant, PTL

NoMusic == \A e \in Environments : e.kind # "music"

\* Revision files, and adverts whose size the server tells, are whole when
\* downloadFinished() accepts them, on a disk and with a network that report
\* their faults.  Music is not: its remains are appended to (run
\* file_download_append); nor is an advert of unknown size, which may have been
\* cut short (run file_download_unsized).
THEOREM TrustedAreComplete == NoMusic => (Spec => []TrustedIsComplete)
<1> SUFFICES ASSUME NoMusic PROVE Spec => []TrustedIsComplete  OBVIOUS
<1>1. IInv => TrustedIsComplete
  BY DEF NoMusic, IInv, TypeOK, TrustInv, TrustedIsComplete, kind
<1>2. QED  BY <1>1, DownloadInvariant, PTL

\* And an advert of which the server told the size and all was received is
\* trusted by downloadFinished(), timeout or not.
THEOREM CompleteAreTrusted == NoMusic => (Spec => CompleteIsTrusted)
<1> SUFFICES ASSUME NoMusic PROVE Spec => CompleteIsTrusted  OBVIOUS
<1>1. ASSUME IInv, DownloadFinished, Reliable, kind # "revision", reply.sized, Intact(file)
      PROVE  status' = "DOWNLOAD_OK"
  <2>1. TypeOK /\ TransferInv
    BY <1>1 DEF IInv
  <2>2. /\ stage = "active" /\ Queued(1, "finished")
        /\ status' = Verdict
    BY <1>1, <2>1, Running DEF DownloadFinished
  <2>3. kind = "advert"
    BY <1>1, <2>1, ReplyFacts DEF NoMusic, TypeOK, kind, AllKinds
  <2>4. \A i : ~Queued(i, "downloadProgress")
    <3>1. Len(events) = 1
      BY <2>1, <2>2 DEF TransferInv, QueueInv
    <3>2. QED  BY <2>2, <3>1 DEF Queued
  <2>5. Read \in 0 .. Size /\ Read <= reply.recv /\ reply.recv <= Size
    BY <2>1, ReplyFacts DEF Read, TransferInv, CountInv
  <2>6. Read = Size
    <3>1. CASE file = NoFile
      BY <1>1, <3>1, ReplyFacts, <2>1 DEF Intact, NoFile
    <3>2. CASE file = Appended(NoFile, 0, Read)
      BY <1>1, <3>2, <2>5, FreshAppended DEF Intact
    <3>3. QED  BY <1>1, <2>2, <2>3, <3>1, <3>2 DEF IInv, SavedInv, FreshInv
  <2>7. reply.recv = Size
    BY <2>1, <2>5, <2>6, ReplyFacts
  <2>8. full
    BY <1>1, <2>2, <2>3, <2>4, <2>7 DEF IInv, DueInv
  <2>9. Exists(file)
    BY <1>1, <2>1, ReplyFacts DEF Intact, Exists
  <2>10. QED  BY <2>2, <2>3, <2>8, <2>9 DEF Verdict
<1>2. QED  BY <1>1, DownloadInvariant, PTL DEF CompleteIsTrusted

-----------------------------------------------------------------------------
(***************************************************************************)
(* The slots implement FileFetch.                                          *)
(***************************************************************************)

\* The file seen from .sync, where the download is one step.
Seen == IF stage = "active" THEN begun ELSE file

\* FileFetch has the operators of LocalFile for constants of its own.
LEMMA SameFiles ==
    ASSUME NEW f, NEW lossy
    PROVE  /\ \A told : Fetch!Enough(told) = Enough(told)
           /\ Fetch!Grown(f, lossy) = Grown(f, lossy)
           /\ Fetch!NoFile = NoFile /\ Fetch!Exists(f) = Exists(f)
           /\ \A o, n : Fetch!Appended(f, o, n) = Appended(f, o, n)
  BY DEF Fetch!Enough, Enough, Fetch!Grown, Grown, Fetch!NoFile, NoFile, Fetch!Exists, Exists,
         Fetch!Appended, Appended, Fetch!Capped, Capped, Fetch!OnDisk, OnDisk

\* What a transfer has made of the file so far is what FileFetch says it may.
LEMMA FileIsGrown ==
    ASSUME IInv, stage = "active"
    PROVE  file \in Grown(begun, ~Reliable)
<1>1. Read \in 0 .. Size
  BY ReplyFacts DEF IInv, TransferInv, CountInv, Read
<1>2. CASE Reliable
  BY <1>1, <1>2 DEF IInv, SavedInv, Grown
<1>3. CASE ~Reliable
  <2>1. CASE file = begun
    BY <2>1 DEF Grown
  <2>2. CASE \E n \in 0 .. Read, c \in {FALSE, begun.clean} :
                file = [len |-> Capped(OnDisk(begun) + n), clean |-> c]
    <3>1. PICK n \in 0 .. Read, c \in {FALSE, begun.clean} :
                file = [len |-> Capped(OnDisk(begun) + n), clean |-> c]
      BY <2>2
    <3>2. 0 .. Read \subseteq 0 .. Size
      BY <1>1, LocalFileAssumption
    <3>3. n \in 0 .. Size
      BY <3>2
    <3> DEFINE Flags == {FALSE, begun.clean}
    <3>4. c \in Flags
      OBVIOUS
    <3> HIDE DEF Flags
    <3>5. file \in {[len |-> Capped(OnDisk(begun) + m), clean |-> d] :
                        m \in 0 .. Size, d \in Flags}
      BY <3>1, <3>3, <3>4
    <3>6. QED  BY <1>3, <3>5 DEF Grown, Flags
  <2>3. QED  BY <2>1, <2>2 DEF IInv, GrownInv
<1>4. QED  BY <1>2, <1>3

LEMMA FinishedIsFetch ==
    ASSUME IInv, DownloadFinished
    PROVE  Fetch!Fetch
<1>1. /\ stage = "active" /\ stage' = "ended" /\ status = "DEFAULT"
      /\ UNCHANGED <<env, file>>
  BY VerdictIsRight DEF DownloadFinished, IInv, StatusInv
<1> DEFINE r == [file |-> file, trusted |-> status' = "DOWNLOAD_OK"]
<1>2. file \in Fetch!Grown(begun, ~Reliable)
  BY <1>1, FileIsGrown, SameFiles
<1>3. r.trusted => Fetch!Exists(file)
  BY VerdictIsRight, SameFiles
<1>4. r.trusted /\ Reliable =>
          \E n \in Fetch!Enough(Told) : file = Fetch!Appended(begun, 0, n)
  <2> SUFFICES ASSUME status' = "DOWNLOAD_OK", Reliable
               PROVE  \E n \in Enough(Told) : file = Appended(begun, 0, n)
    BY SameFiles
  <2>1. Read \in 0 .. Size
    BY ReplyFacts DEF IInv, TransferInv, CountInv, Read
  <2>2. Read > 0 /\ (Told => Read = Size)
    BY VerdictIsRight
  <2>3. Read \in Enough(Told)
    BY <2>1, <2>2 DEF Enough
  <2>4. file = Appended(begun, 0, Read)
    BY <1>1, <2>1, <2>2 DEF IInv, SavedInv
  <2>5. QED  BY <2>3, <2>4
<1>5. r \in Fetch!FetchResults(begun, ~Reliable, Told)
  BY <1>2, <1>3, <1>4 DEF Fetch!FetchResults
<1>6. IF r.trusted THEN status' = "DOWNLOAD_OK" ELSE status' \in Fetch!Verdicts(kind)
  BY VerdictIsRight DEF Fetch!Verdicts, Status
<1>7. kind' = kind /\ (~Reliable)' = ~Reliable /\ Told' = Told /\ ("power" \in Faults)' = ("power" \in Faults)
  BY <1>1 DEF kind, Reliable, Told, Faults
<1>8. Fetch!surroundings' = Fetch!surroundings
  BY <1>7 DEF Fetch!surroundings
<1>9. r.file = file /\ (IF stage = "active" THEN begun ELSE file) = begun
      /\ (IF stage = "active" THEN begun ELSE file)' = file
  BY <1>1
<1> HIDE DEF r
<1>10. QED  BY <1>1, <1>5, <1>6, <1>8, <1>9 DEF Fetch!Fetch

\* A process that dies; a file that is listed again, or moved.
LEMMA OutsideIsFetch ==
    ASSUME IInv, PowerLoss \/ Collect \/ MoveToMedia
    PROVE  Fetch!Next
<1>1. UNCHANGED env /\ env.kind \in AllKinds
  BY ReplyFacts DEF PowerLoss, Collect, MoveToMedia, IInv
<1>2. kind' = kind /\ (~Reliable)' = ~Reliable /\ Told' = Told /\ ("power" \in Faults)' = ("power" \in Faults)
  BY <1>1 DEF kind, Reliable, Told, Faults
<1>3. Fetch!surroundings' = Fetch!surroundings
  BY <1>2 DEF Fetch!surroundings
<1>4. CASE PowerLoss
  <2>1. /\ (IF stage = "active" THEN begun ELSE file) = begun
        /\ (IF stage = "active" THEN begun ELSE file)' = file
        /\ stage = "active" /\ status = "DEFAULT" /\ status' = status /\ "power" \in Faults
    BY <1>4 DEF PowerLoss, IInv, StatusInv
  <2>2. file \in Fetch!Grown(begun, ~Reliable)
    BY <2>1, FileIsGrown, SameFiles
  <2>3. QED  BY <1>3, <2>1, <2>2 DEF Fetch!Next, Fetch!Die
<1>5. CASE Collect
  <2>1. /\ (IF stage = "active" THEN begun ELSE file) = file
        /\ (IF stage = "active" THEN begun ELSE file)' = file'
        /\ stage = "ended" /\ status' = "DEFAULT"
    BY <1>5 DEF Collect
  <2>2. kind = "revision" \/ status = "DEFAULT"
    BY <1>5 DEF Collect, IInv, StatusInv, TypeOK, Status
  <2>3. file' \in IF kind = "music" THEN {file, Fetch!NoFile} ELSE {Fetch!NoFile}
    BY <1>5, SameFiles DEF Collect
  <2>4. QED  BY <1>3, <2>1, <2>2, <2>3 DEF Fetch!Next, Fetch!Relist
<1>6. CASE MoveToMedia
  <2>1. /\ (IF stage = "active" THEN begun ELSE file)' = Fetch!NoFile
        /\ kind # "revision" /\ status = "DOWNLOAD_OK" /\ status' = "DEFAULT"
    BY <1>6, SameFiles DEF MoveToMedia
  <2>2. QED  BY <1>3, <2>1 DEF Fetch!Next, Fetch!Move
<1>7. QED  BY <1>4, <1>5, <1>6

\* While a transfer is under way nothing is seen of it.
LEMMA TransferIsUnseen ==
    ASSUME IInv,
           \/ NextDownload
           \/ ReceiveData \/ TransferDone \/ TransferFails
           \/ SaveDownloadedFile \/ DownloadProgress \/ ReplyError
           \/ DownloadTimeout
           \/ UNCHANGED vars
    PROVE  UNCHANGED <<kind, ~Reliable, Told, "power" \in Faults, Seen, status>>
<1>1. TypeOK /\ TransferInv
  BY DEF IInv
<1>2. UNCHANGED <<env, status>>
  BY DEF NextDownload, ReceiveData, TransferDone, TransferFails, SaveDownloadedFile,
         DownloadProgress, ReplyError, DownloadTimeout, vars
<1>3. ASSUME NextDownload
      PROVE  Seen' = Seen
  <2>1. stage = "listed" /\ stage' = "active" /\ begun' = file
    BY <1>3 DEF NextDownload
  <2>2. QED  BY <2>1 DEF Seen
<1>4. ASSUME ReceiveData \/ TransferDone \/ TransferFails \/ DownloadTimeout
      PROVE  Seen' = Seen
  <2>1. stage = "active" /\ stage' = stage /\ begun' = begun
    BY <1>1, <1>4 DEF ReceiveData, TransferDone, TransferFails, DownloadTimeout,
                      TransferInv, QueueInv
  <2>2. QED  BY <2>1 DEF Seen
<1>5. ASSUME SaveDownloadedFile \/ DownloadProgress \/ ReplyError
      PROVE  Seen' = Seen
  <2>1. stage = "active" /\ stage' = stage /\ begun' = begun
    BY <1>1, <1>5, Running DEF SaveDownloadedFile, DownloadProgress, ReplyError
  <2>2. QED  BY <2>1 DEF Seen
<1>6. ASSUME UNCHANGED vars
      PROVE  Seen' = Seen
  <2>1. stage' = stage /\ begun' = begun /\ file' = file
    BY <1>6 DEF vars
  <2>2. QED  BY <2>1 DEF Seen
<1>7. Seen' = Seen
  BY <1>3, <1>4, <1>5, <1>6
<1>8. QED  BY <1>2, <1>7 DEF kind, Reliable, Told, Faults

\* Seen from .sync and the two stores of verdicts, the slots of a download take
\* the steps of FileFetch and no others, whatever goes wrong: a file and a
\* verdict come at once, from the file the download began with.
THEOREM StepsOfTheFetch == Spec => FetchSpec
<1>1. Init => Fetch!Init
  <2> SUFFICES ASSUME Init PROVE Fetch!Init  OBVIOUS
  <2>1. kind \in {"revision", "advert", "music"}
    BY FileDownloadAssumption DEF Init, kind, AllKinds
  <2>2. (IF stage = "active" THEN begun ELSE file) = Fetch!NoFile
    BY SameFiles DEF Init
  <2>3. Told \in BOOLEAN
    BY DEF Told
  <2>4. QED  BY <2>1, <2>2, <2>3 DEF Init, Fetch!Init, Fetch!Kinds
<1>2. IInv /\ [Next]_vars => [Fetch!Next]_<<kind, ~Reliable, Told, "power" \in Faults, Seen, status>>
  <2> SUFFICES ASSUME IInv, [Next]_vars
               PROVE  Fetch!Next \/ UNCHANGED <<kind, ~Reliable, Told, "power" \in Faults, Seen, status>>
    OBVIOUS
  <2>1. CASE DownloadFinished
    BY <2>1, FinishedIsFetch DEF Fetch!Next
  <2>2. CASE PowerLoss \/ Collect \/ MoveToMedia
    BY <2>2, OutsideIsFetch
  <2>3. CASE \/ NextDownload
             \/ ReceiveData \/ TransferDone \/ TransferFails
             \/ SaveDownloadedFile \/ DownloadProgress \/ ReplyError
             \/ DownloadTimeout
             \/ UNCHANGED vars
    BY <2>3, TransferIsUnseen
  <2>4. QED  BY <2>1, <2>2, <2>3 DEF Next
<1>3. QED  BY <1>1, <1>2, DownloadInvariant, PTL DEF Spec, FetchSpec, Fetch!Spec, Seen

=============================================================================
