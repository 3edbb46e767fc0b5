------------------------------- MODULE MCWatchdog -------------------------------
(* The instances of Watchdog for TLC need no definitions of their own. *)
EXTENDS Watchdog
================================================================================
