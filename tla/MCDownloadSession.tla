------------------------- MODULE MCDownloadSession -------------------------
(* DownloadSession for TLC.  While a LIST has one answer at most, no queue  *)
(* grows without bound.                                                     *)
EXTENDS DownloadSession

Tables == {1, 2}
Media  == {3, 4, 5}
=============================================================================
