--------------------------- MODULE MCFileDownload ---------------------------
(* FileDownload for TLC.  Every event queue is bounded by the transfer that *)
(* fills it, so no further bound is needed.                                 *)
EXTENDS FileDownload

In(kinds, faults, buffer) ==
    [kind : kinds, faults : {faults}, buffer : {buffer}]

\* A disk that writes, a server that may not tell the size of a file, a file
\* that never opens, and surroundings in which everything may go wrong.
Sound == In({"revision", "advert"}, {"power"}, 0)
Untold == In({"revision", "advert"}, {"power", "unsized"}, 0)
Lossy == In(AllKinds, {"write", "short", "open", "power", "unsized"}, 1)
Unopened == In({"revision", "advert"}, {"readonly"}, 0)
All   == Sound \cup Untold \cup Unopened \cup Lossy

Music    == In({"music"}, {}, 0)
Unsized  == In({"advert"}, {"unsized"}, 0)
=============================================================================
