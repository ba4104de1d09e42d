------------------------------ MODULE DepGraph ------------------------------
(***************************************************************************)
(* Dependency graphs of packages: what "topologically sorted" and "cycle"  *)
(* mean in resolver.h.  A graph g gives each package the array of its      *)
(* dependencies.                                                           *)
(***************************************************************************)
EXTENDS Naturals, Sequences, FiniteSets, Functions

CONSTANT Package    \* package names

(* order lists every package once, and each after all of its dependencies. *)
DependenciesFirst(g, order) ==
    /\ \A i, j \in DOMAIN order : order[i] = order[j] => i = j
    /\ \A i \in DOMAIN order : \A d \in Range(g[order[i]]) :
           \E j \in DOMAIN order : j < i /\ order[j] = d

(* Nothing is listed that the root does not need: a package that is not    *)
(* the root, which comes last, is a dependency of one listed after it.     *)
NothingExtra(g, root, order) ==
    /\ Len(order) > 0
    /\ order[Len(order)] = root
    /\ \A i \in DOMAIN order : i < Len(order) =>
           \E j \in DOMAIN order : i < j /\ order[i] \in Range(g[order[j]])

IsInstallOrder(g, root, order) ==
    DependenciesFirst(g, order) /\ NothingExtra(g, root, order)

(* A finite set each of whose members depends on a member holds a cycle.   *)
Cyclic(g) ==
    \E C \in SUBSET Package :
        /\ C # {}
        /\ IsFiniteSet(C)
        /\ \A p \in C : \E q \in C : q \in Range(g[p])

(* Every member of N is reached from root along edges inside N: a set that *)
(* holds root and is closed under those edges is all of N.                 *)
Reached(g, root, N) ==
    /\ root \in N
    /\ \A S \in SUBSET N :
           (root \in S /\ \A p \in S : \A d \in Range(g[p]) : d \in N => d \in S)
               => S = N
=============================================================================
