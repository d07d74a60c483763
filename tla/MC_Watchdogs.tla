---------------------------- MODULE MC_Watchdogs ----------------------------
(* Sustain windows of two polls; reloads until Throttled is counted twice. *)
EXTENDS Watchdogs
=============================================================================
