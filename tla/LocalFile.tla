------------------------------ MODULE LocalFile ------------------------------
(***************************************************************************)
(* A media file on the box's disk, as DownloadManager and Content see it.  *)
(*                                                                         *)
(* The program never looks into a file: it opens it for appending, asks    *)
(* whether it exists and compares its size.  What the properties need      *)
(* besides is whether the bytes on disk are the bytes of the server's      *)
(* file.  So a file is its length, in chunks, and a flag that says whether *)
(* what is there is a prefix of the server's file.  An append continues    *)
(* that prefix only when the length on disk equals the offset of the data  *)
(* in the transfer: QFile::Append writes at the end of whatever an earlier *)
(* transfer left behind.                                                   *)
(***************************************************************************)
EXTENDS Integers

CONSTANTS
    Size,       \* chunks in a file on the server
    MaxLen      \* bound: the length on disk is not counted beyond this

ASSUME LocalFileAssumption ==
    /\ Size \in Nat \ {0}
    /\ MaxLen \in Nat
    /\ MaxLen > Size

NoFile == [len |-> -1, clean |-> TRUE]

File == [len : -1 .. MaxLen, clean : BOOLEAN]

Exists(f) == f.len >= 0

\* All of the server's file and nothing else.
Intact(f) == f.clean /\ f.len = Size

OnDisk(f) == IF Exists(f) THEN f.len ELSE 0

Capped(n) == IF n > MaxLen THEN MaxLen ELSE n

\* QFile(f).open(QFile::Append) and write() of n chunks that begin at offset of
\* the transfer.  Opening creates the file even when there is nothing to write.
Appended(f, offset, n) ==
    [len   |-> Capped(OnDisk(f) + n),
     clean |-> f.clean /\ (n = 0 \/ OnDisk(f) = offset)]

-----------------------------------------------------------------------------
(***************************************************************************)
(* What one whole transfer into f may leave behind.  A transfer that loses *)
(* nothing appends a prefix of the data; one in which a write fails or the *)
(* server ends early may leave any shorter tail of it.                     *)
(***************************************************************************)
Grown(f, lossy) ==
    {f} \cup
    IF lossy
    THEN {[len |-> Capped(OnDisk(f) + n), clean |-> c] :
              n \in 0 .. Size, c \in {FALSE, f.clean}}
    ELSE {Appended(f, 0, n) : n \in 0 .. Size}

\* How much of a file must have come for it to be trusted.  When the server
\* does not tell the size, what came before the transfer broke off passes for it.
Enough(told) == IF told THEN {Size} ELSE 1 .. Size

\* The file and the verdict ("trusted" or not) a content download ends with.
FetchResults(f, lossy, told) ==
    {r \in [file : Grown(f, lossy), trusted : BOOLEAN] :
        r.trusted => /\ Exists(r.file)
                     /\ lossy \/ \E n \in Enough(told) : r.file = Appended(f, 0, n)}

=============================================================================
