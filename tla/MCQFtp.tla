------------------------------- MODULE MCQFtp -------------------------------
(* QFtp for TLC.                                                            *)
EXTENDS QFtp

Every == {"List", "Get", "Cd", "Rename", "Close"}
=============================================================================
