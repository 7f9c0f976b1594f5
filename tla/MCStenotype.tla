---------------------------- MODULE MCStenotype ----------------------------
(***************************************************************************)
(* Stenotype for TLC: file names are interchangeable.                      *)
(***************************************************************************)
EXTENDS Stenotype, TLC

FileSymmetry == Permutations(Files)
=============================================================================
