----------------------------- MODULE MCStopSignal -----------------------------
(***************************************************************************)
(* Instances of StopSignal for TLC.                                        *)
(***************************************************************************)
EXTENDS StopSignal

CONSTANTS sigterm, sigint

=============================================================================
