---------------------------- MODULE MCAvailability ----------------------------
(* The instances of Availability for TLC need no definitions of their own. *)
EXTENDS Availability
================================================================================
