----------------------------- MODULE InstallPlan -----------------------------
(***************************************************************************)
(* What resolver.h promises: "Resolve the full dependency tree for a       *)
(* package. Returns a topologically sorted list of all packages that need  *)
(* to be installed", or an error "(e.g., cycle)".  The answer is given in  *)
(* a single step, about the manifests the resolver has read.               *)
(***************************************************************************)
EXTENDS DepGraph

CONSTANTS
    Root,       \* the package named on the command line
    DepLists,   \* dependency arrays a manifest may hold
    MaxNodes    \* MAX_RESOLVE_DEPTH

VARIABLES
    graph,      \* the dependency array read for each package
    answer      \* what resolver_resolve returned

planVars == <<graph, answer>>

-----------------------------------------------------------------------------

(* The root needs more packages than the node table holds. *)
TooLarge(g, root) ==
    \E N \in SUBSET Package :
        /\ IsFiniteSet(N)
        /\ Cardinality(N) > MaxNodes
        /\ Reached(g, root, N)

-----------------------------------------------------------------------------

NoGraph == [p \in Package |-> <<>>]
Pending == [status |-> "running", names |-> <<>>]

(* Before the call returns there is neither an answer nor a graph. *)
PlanInit ==
    /\ graph = NoGraph
    /\ answer = Pending

(* The call returns: an install order, or the reason why there is none. *)
Answer ==
    /\ answer = Pending
    /\ graph' \in [Package -> DepLists]
    /\ \/ /\ answer'.status = "ok"
          /\ IsInstallOrder(graph', Root, answer'.names)
       \/ /\ answer' = [status |-> "cycle", names |-> <<>>]
          /\ Cyclic(graph')
       \/ /\ answer' = [status |-> "full", names |-> <<>>]
          /\ TooLarge(graph', Root)

PlanSpec == PlanInit /\ [][Answer]_planVars
=============================================================================
