------------------------------ MODULE MCService ------------------------------
(* ServiceLibrary for TLC.  LmMediaUpdaterService sets no flags; with the two *)
(* flags, a service on Windows has every branch of handler().                 *)
EXTENDS ServiceLibrary, TLC

CONSTANTS d1, d2, c1, c2

TwoDaemons   == {d1, d2}
TwoClients   == {c1, c2}
Asked        == {"start", "controllerStart", "terminate"}
NoFlags      == {}
AllControls  == {"CanBeSuspended", "NeedsStopOnShutdown"}
=============================================================================
