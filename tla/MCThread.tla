------------------------------ MODULE MCThread ------------------------------
(***************************************************************************)
(* Thread for TLC: the oldest file is larger than the second, which is     *)
(* smaller than the newest, so a pruning takes one file or several.        *)
(***************************************************************************)
EXTENDS Thread

FileSizes == <<2, 1, 2>>
=============================================================================
