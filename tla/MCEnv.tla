------------------------------- MODULE MCEnv -------------------------------
(***************************************************************************)
(* Env for TLC: files of one size.                                         *)
(***************************************************************************)
EXTENDS Env

FileSizes == <<1, 1>>
=============================================================================
