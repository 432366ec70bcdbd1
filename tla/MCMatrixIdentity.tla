-------------------------- MODULE MCMatrixIdentity -------------------------
(***************************************************************************)
(* MatrixIdentity for TLC: the processes are interchangeable.              *)
(***************************************************************************)
EXTENDS MatrixIdentity, TLC

Symmetry == Permutations(Processes)

(* Bound: behaviours are followed until both properties are excused.  A    *)
(* race that has happened has happened for good, so that neither of them   *)
(* can be violated any more.                                               *)
NotYetExcused == ~(raced /\ spanned)
=============================================================================
