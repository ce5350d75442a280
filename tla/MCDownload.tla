------------------------------- MODULE MCDownload ------------------------------
(***************************************************************************)
(* Two downloads to one path, the second with --yes.                       *)
(***************************************************************************)
EXTENDS Download

CONSTANTS g1, g2
MCConsented == {g2}
MCInitially == {Absent, Directory, Theirs}
================================================================================
