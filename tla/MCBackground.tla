----------------------------- MODULE MCBackground ------------------------------
(* Two scans, or two runs of a window: neither touches what the other does.   *)
EXTENDS Background

Each == {<<2, 0>>, <<0, 2>>}
================================================================================
