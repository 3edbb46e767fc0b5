------------------------------ MODULE MCMonitoring ------------------------------
(* Small instances of Monitoring for TLC. *)
EXTENDS Monitoring

\* A host list with one target, and a settings backup with another.
OneFile == {<<"k1">>}
OneBackup == {{"k2"}}
================================================================================
