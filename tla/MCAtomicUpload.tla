----------------------------- MODULE MCAtomicUpload ----------------------------
(***************************************************************************)
(* Two uploads and a third whose temporary name is taken.                  *)
(***************************************************************************)
EXTENDS AtomicUpload

CONSTANTS a1, a2, a3
MCTaken == {a3}
================================================================================
