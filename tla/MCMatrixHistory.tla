-------------------------- MODULE MCMatrixHistory --------------------------
(***************************************************************************)
(* MatrixHistory for TLC.  The runs are interchangeable.                   *)
(***************************************************************************)
EXTENDS MatrixHistory, TLC

Symmetry == Permutations(Runs)
=============================================================================
