---------------------------- MODULE MCJobControl ----------------------------
(* Job control over a few process numbers, which are interchangeable.      *)
EXTENDS JobControl, TLC

CONSTANTS p1, p2, p3, p4

Symmetry == Permutations(Pid)
=============================================================================
