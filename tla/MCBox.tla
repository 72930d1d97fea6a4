------------------------------- MODULE MCBox -------------------------------
(* Box for TLC: bytes of three bits, and a key of two bytes that are 0, as   *)
(* the program's are: getHash() reads a SHA-1 sum, which is not the text of  *)
(* a number, with toULongLong().  Full is the text that gets compressed.     *)
EXTENDS Box

Key         == <<{}, {}>>
FullText    == <<{0}, {0}, {0}>>
BareText    == <<{1}>>
RefusalText == <<{0, 1}, {}>>
GarbageText == <<{}>>
SomeRandoms == { {0, 2} }
=============================================================================
