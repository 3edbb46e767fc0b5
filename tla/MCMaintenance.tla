----------------------------- MODULE MCMaintenance -----------------------------
(* Small instances of Maintenance for TLC. *)
EXTENDS Maintenance

\* A host list of one target, and a backup of one.
OneList == {Bare({"k1"})}
OneBackup == {{"k1"}}

\* A list that was saved during a window: save_host_list() writes the windows too.
SavedList == {With(Bare({"k1"}), "k1", <<0, Manual, 1>>)}
================================================================================
