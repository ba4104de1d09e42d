------------------------------ MODULE Resolver ------------------------------
(***************************************************************************)
(* The dependency resolver of BotPkg (services/botpkg/src/resolver.c): a   *)
(* depth-first topological sort with three-colour marking.  The C stack of *)
(* dfs_visit is the variable stack, one frame per active call; a step is   *)
(* one iteration of the loop over a package's dependencies, up to the next *)
(* call or return.                                                         *)
(*                                                                         *)
(* load_package_deps reads a manifest from the database, the cache or the  *)
(* repository when its node turns gray, which happens once per package.    *)
(* What it finds (nothing, for a missing or malformed manifest) is chosen  *)
(* at that moment: other botpkg processes may rewrite the files meanwhile. *)
(***************************************************************************)
EXTENDS Naturals, Sequences, FiniteSets, Functions

CONSTANTS
    Package,    \* package names
    Root,       \* argument of resolver_resolve
    DepLists,   \* dependency arrays a manifest may hold
    MaxNodes    \* MAX_RESOLVE_DEPTH

ASSUME ResolverAssumption ==
    /\ Root \in Package
    /\ DepLists \subseteq Seq(Package)
    /\ <<>> \in DepLists
    /\ MaxNodes \in Nat \ {0}

VARIABLES
    stack,      \* active dfs_visit calls, the root's first
    color,      \* dfs_state_t.colors; a white package has no node yet
    loaded,     \* dependencies load_package_deps returned for a node
    output,     \* dfs_state_t.output, in order of emission
    cycleFrom,  \* dfs_state_t.cycle_from
    cycleTo,    \* dfs_state_t.cycle_to
    answer      \* status and names resolver_resolve returns

vars == <<stack, color, loaded, output, cycleFrom, cycleTo, answer>>

NoName == "none"

Frame == [name : Package, next : Nat \ {0}]

Nodes == {p \in Package : color[p] # "white"}
Emitted == {p \in Package : color[p] = "black"}

Running == answer.status = "running"
Top == stack[Len(stack)]

(* The dependency the loop of the innermost call reaches next. *)
InLoop == Running /\ Len(stack) > 0 /\ Top.next <= Len(loaded[Top.name])
Dep == loaded[Top.name][Top.next]

(* i++ of the innermost call's loop. *)
Advanced == [stack EXCEPT ![Len(stack)].next = @ + 1]

-----------------------------------------------------------------------------

Init ==
    /\ stack = <<>>
    /\ color = [p \in Package |-> "white"]
    /\ loaded = [p \in Package |-> <<>>]
    /\ output = <<>>
    /\ cycleFrom = NoName
    /\ cycleTo = NoName
    /\ answer = [status |-> "running", names |-> <<>>]

(* dfs_visit of a package without a node: dfs_get_node makes one, it turns *)
(* gray and its manifest is loaded.                                        *)
Enter(p) ==
    /\ color[p] = "white"
    /\ Cardinality(Nodes) < MaxNodes
    /\ color' = [color EXCEPT ![p] = "gray"]
    /\ cycleFrom' = p
    /\ \E deps \in DepLists : loaded' = [loaded EXCEPT ![p] = deps]
    /\ UNCHANGED <<output, cycleTo, answer>>

Start ==
    /\ Running
    /\ stack = <<>>
    /\ Enter(Root)
    /\ stack' = <<[name |-> Root, next |-> 1]>>

VisitNew ==
    /\ InLoop
    /\ Enter(Dep)
    /\ stack' = Append(Advanced, [name |-> Dep, next |-> 1])

(* Faults to test PlanSpec and Terminates with: a gray package passes for  *)
(* a resolved one; i is not incremented.                                   *)
VisitSeen ==
    /\ InLoop
    /\ color[Dep] # "white"
    /\ stack' = Advanced
    /\ UNCHANGED <<color, loaded, output, cycleFrom, cycleTo, answer>>

VisitAgain ==
    /\ InLoop
    /\ color[Dep] = "black"
    /\ UNCHANGED vars

VisitResolved ==
    /\ InLoop
    /\ color[Dep] = "black"
    /\ stack' = Advanced
    /\ UNCHANGED <<color, loaded, output, cycleFrom, cycleTo, answer>>

(* Every caller returns -1 in turn; resolver_resolve reports ELOOP and no  *)
(* list.  The frames, which the returns only free, are left as they were.  *)
Fail(status) ==
    /\ answer' = [status |-> status, names |-> <<>>]
    /\ UNCHANGED <<stack, color, loaded, output, cycleFrom>>

VisitCycle ==
    /\ InLoop
    /\ color[Dep] = "gray"
    /\ cycleTo' = Dep
    /\ Fail("cycle")

VisitFull ==
    /\ InLoop
    /\ color[Dep] = "white"
    /\ Cardinality(Nodes) >= MaxNodes
    /\ UNCHANGED cycleTo
    /\ Fail("full")

(* Faults to test InstallOrder and NothingDropped with: emission in        *)
(* reverse; an output array one entry short.                               *)
EmitFirst(name) ==
    IF name \in Range(output) \/ Len(output) >= MaxNodes
        THEN output
        ELSE <<name>> \o output

EmitShort(name) ==
    IF name \in Range(output) \/ Len(output) >= MaxNodes - 1
        THEN output
        ELSE Append(output, name)

(* dfs_emit leaves the output as it is when the name is in it already, and *)
(* also, without an error, when the output is full.                        *)
Emit(name) ==
    IF name \in Range(output) \/ Len(output) >= MaxNodes
        THEN output
        ELSE Append(output, name)

(* A fault to test IInv with: the node stays gray. *)
ReturnGray ==
    /\ Running
    /\ Len(stack) > 0
    /\ Top.next > Len(loaded[Top.name])
    /\ output' = Emit(Top.name)
    /\ stack' = SubSeq(stack, 1, Len(stack) - 1)
    /\ UNCHANGED <<color, loaded, cycleFrom, cycleTo, answer>>

Return ==
    /\ Running
    /\ Len(stack) > 0
    /\ Top.next > Len(loaded[Top.name])
    /\ output' = Emit(Top.name)
    /\ color' = [color EXCEPT ![Top.name] = "black"]
    /\ stack' = SubSeq(stack, 1, Len(stack) - 1)
    /\ UNCHANGED <<loaded, cycleFrom, cycleTo, answer>>

(* The end of resolver_resolve, with its fallback for an empty output. *)
Finish ==
    /\ Running
    /\ stack = <<>>
    /\ color[Root] # "white"
    /\ answer' = [status |-> "ok",
                  names |-> IF output # <<>> THEN output ELSE <<Root>>]
    /\ UNCHANGED <<stack, color, loaded, output, cycleFrom, cycleTo>>

(* resolver_resolve has returned. *)
Returned == ~Running /\ UNCHANGED vars

Next ==
    \/ Start
    \/ VisitNew
    \/ VisitResolved
    \/ VisitCycle
    \/ VisitFull
    \/ Return
    \/ Finish
    \/ Returned

Spec == Init /\ [][Next]_vars
FairSpec == Spec /\ WF_vars(Next)

-----------------------------------------------------------------------------

(* Types of the variables of dfs_state_t and of its callers' frames. *)
TypeOK ==
    /\ stack \in Seq(Frame)
    /\ color \in [Package -> {"white", "gray", "black"}]
    /\ loaded \in [Package -> DepLists]
    /\ output \in Seq(Package)
    /\ cycleFrom \in Package \cup {NoName}
    /\ cycleTo \in Package \cup {NoName}
    /\ answer \in [status : {"running", "ok", "cycle", "full"}, names : Seq(Package)]

(* The resolver meets its contract: the abstract answer about the graph of *)
(* the manifests read so far, visible once there is an answer.             *)
Plan == INSTANCE InstallPlan WITH
            graph <- IF Running THEN [p \in Package |-> <<>>] ELSE loaded,
            answer <- answer

PlanSpec == Plan!PlanSpec

(* A successful answer is an install order of the graph that was read, for *)
(* every graph: dependencies before dependents, nothing twice, nothing     *)
(* missing and nothing that the root does not need (resolver.h:25-33).     *)
InstallOrder ==
    answer.status = "ok" => Plan!IsInstallOrder(loaded, Root, answer.names)

(* An error is deserved: there is a dependency cycle, or more packages     *)
(* than the node table holds.                                              *)
ErrorDeserved ==
    /\ answer.status = "cycle" => Plan!Cyclic(loaded)
    /\ answer.status = "full" => Plan!TooLarge(loaded, Root)

(* dfs_emit's silent cap never drops a package: what is black has been     *)
(* emitted, although the output array is no larger than the node table.    *)
NothingDropped == Range(output) = Emitted

(* A package is on the C stack once at most and exactly while it is gray,  *)
(* so the recursion is no deeper than the node table.                      *)
StackIsGrayPath ==
    /\ \A i, j \in DOMAIN stack : stack[i].name = stack[j].name => i = j
    /\ {stack[i].name : i \in DOMAIN stack} = Nodes \ Emitted
    /\ Len(stack) <= MaxNodes

(***************************************************************************)
(* The inductive invariant behind InstallOrder and ErrorDeserved.          *)
(***************************************************************************)

(* The node table is within its bound, and every node is needed by the     *)
(* root through other nodes.                                               *)
NodesInv ==
    /\ IsFiniteSet(Nodes)
    /\ Cardinality(Nodes) <= MaxNodes
    /\ IF color[Root] = "white" THEN Nodes = {} ELSE Plan!Reached(loaded, Root, Nodes)

(* The stack is a path from the root: each call was made for the           *)
(* dependency its caller's loop has just passed.                           *)
PathInv ==
    /\ \A i, j \in DOMAIN stack : stack[i].name = stack[j].name => i = j
    /\ \A p \in Package : color[p] = "gray" <=> \E i \in DOMAIN stack : stack[i].name = p
    /\ Len(stack) > 0 => stack[1].name = Root
    /\ \A i \in DOMAIN stack : stack[i].next <= Len(loaded[stack[i].name]) + 1
    /\ \A i \in DOMAIN stack : i < Len(stack) =>
           /\ stack[i].next > 1
           /\ loaded[stack[i].name][stack[i].next - 1] = stack[i + 1].name

(* What a loop has passed is resolved, but for the call still active. *)
PassedInv ==
    \A i \in DOMAIN stack : \A k \in DOMAIN loaded[stack[i].name] :
        k < stack[i].next =>
            \/ color[loaded[stack[i].name][k]] = "black"
            \/ i < Len(stack) /\ k = stack[i].next - 1

(* The output holds the black packages, each once and after what it needs. *)
OutputInv ==
    /\ Range(output) = Emitted
    /\ Len(output) = Cardinality(Emitted)
    /\ Plan!DependenciesFirst(loaded, output)

(* Whatever is emitted is needed by a package emitted later or by one      *)
(* still on the stack; the root is emitted last.                           *)
NeededInv ==
    /\ \A i \in DOMAIN output :
           \/ i = Len(output) /\ output[i] = Root
           \/ \E j \in DOMAIN output : i < j /\ output[i] \in Range(loaded[output[j]])
           \/ \E k \in DOMAIN stack : output[i] \in Range(loaded[stack[k].name])
    /\ color[Root] = "black" => Len(output) > 0 /\ output[Len(output)] = Root

AnswerInv ==
    /\ answer.status # "ok" => answer.names = <<>>
    /\ answer.status = "ok" => /\ stack = <<>>
                               /\ color[Root] = "black"
                               /\ answer.names = output

IInv ==
    /\ TypeOK
    /\ NodesInv
    /\ PathInv
    /\ PassedInv
    /\ OutputInv
    /\ NeededInv
    /\ AnswerInv
    /\ ErrorDeserved

(* Every resolution ends, whatever the graph. *)
Terminates == <>(~Running)
=============================================================================
