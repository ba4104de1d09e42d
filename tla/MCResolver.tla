----------------------------- MODULE MCResolver -----------------------------
(***************************************************************************)
(* Resolver on all dependency graphs of a few packages with at most two    *)
(* dependencies each, self-dependencies and repeated entries included.     *)
(***************************************************************************)
EXTENDS Resolver, SequencesExt

CONSTANT MaxDeps    \* bound on the length of a dependency array

MCDepLists == BoundedSeq(Package, MaxDeps)
=============================================================================
