--------------------------- MODULE ResolverProofs ---------------------------
(***************************************************************************)
(* Proofs about botpkg's Resolver, for every set of packages, every family *)
(* of dependency arrays and every size of the node table, and about its    *)
(* Manifest, for every package and every room of the parser's fields.      *)
(***************************************************************************)
EXTENDS Resolver, Manifest, RecursionProofs, FiniteSetTheorems, SequenceTheorems, WellFoundedInduction, TLAPS

(* The contract, an instance, speaks of finite sets as this module does. *)
LEMMA SameFiniteSets ==
    \A S : (Plan!IsFiniteSet(S) <=> IsFiniteSet(S)) /\ Plan!Cardinality(S) = Cardinality(S)
<1>1. \A S : Plan!IsFiniteSet(S) <=> IsFiniteSet(S)
  BY DEF Plan!IsFiniteSet, IsFiniteSet
<1>2. \A S : Plan!Cardinality(S) = Cardinality(S)
  BY DEF Plan!Cardinality, Cardinality
<1> QED BY <1>1, <1>2

(* DependenciesFirst, said with this module's Range. *)
LEMMA DependenciesFirstDef ==
    \A g, installed :
        Plan!DependenciesFirst(g, installed) <=>
            /\ \A i, j \in DOMAIN installed : installed[i] = installed[j] => i = j
            /\ \A i \in DOMAIN installed : \A d \in Range(g[installed[i]]) :
                   \E j \in DOMAIN installed : j < i /\ installed[j] = d
<1>1. \A f : Plan!Range(f) = Range(f)
  BY DEF Plan!Range, Range
<1> QED BY <1>1 DEF Plan!DependenciesFirst

(* Popping a frame: what SubSeq leaves of the stack. *)
LEMMA PopProperties ==
    ASSUME NEW S, NEW s \in Seq(S), Len(s) > 0
    PROVE  LET t == SubSeq(s, 1, Len(s) - 1)
           IN  /\ t \in Seq(S)
               /\ Len(t) = Len(s) - 1
               /\ DOMAIN t = 1 .. Len(s) - 1
               /\ \A i \in 1 .. Len(s) - 1 : t[i] = s[i]
<1> DEFINE t == SubSeq(s, 1, Len(s) - 1)
<1>1. Len(s) \in Nat /\ Len(s) # 0
  BY LenProperties
<1>2. \A i \in 1 .. Len(s) - 1 : s[i] \in S
  BY <1>1, ElementOfSeq
<1>3. /\ t \in Seq(S)
      /\ Len(t) = Len(s) - 1
      /\ \A i \in 1 .. Len(s) - 1 : t[i] = s[i]
  <2>1. PICK n \in Nat : n = Len(s) - 1
    BY <1>1
  <2>2. \A i \in 1 .. n : s[i] \in S
    BY <1>2, <2>1
  <2>3. /\ SubSeq(s, 1, n) \in Seq(S)
        /\ Len(SubSeq(s, 1, n)) = IF 1 <= n THEN n - 1 + 1 ELSE 0
        /\ \A i \in 1 .. n - 1 + 1 : SubSeq(s, 1, n)[i] = s[1 + i - 1]
    BY <2>2, SubSeqProperties
  <2> QED BY <2>1, <2>3
<1>4. DOMAIN t = 1 .. Len(s) - 1
  BY <1>3, LenProperties
<1> QED BY <1>3, <1>4

(* The innermost call and the dependency it reaches are well defined. *)
LEMMA LoopTypes ==
    ASSUME TypeOK, Len(stack) > 0
    PROVE  /\ Len(stack) \in Nat \ {0}
           /\ DOMAIN stack = 1 .. Len(stack)
           /\ \A i \in DOMAIN stack : /\ stack[i] \in Frame
                                      /\ stack[i].name \in Package
                                      /\ stack[i].next \in Nat \ {0}
                                      /\ loaded[stack[i].name] \in Seq(Package)
                                      /\ Len(loaded[stack[i].name]) \in Nat
                                      /\ DOMAIN loaded[stack[i].name] = 1 .. Len(loaded[stack[i].name])
           /\ Top = stack[Len(stack)]
           /\ Len(stack) \in DOMAIN stack
           /\ InLoop => /\ Top.next \in DOMAIN loaded[Top.name]
                        /\ Dep \in Package
                        /\ Dep \in Range(loaded[Top.name])
<1>1. Len(stack) \in Nat \ {0} /\ DOMAIN stack = 1 .. Len(stack) /\ Len(stack) \in DOMAIN stack
  BY LenProperties DEF TypeOK
<1>2. ASSUME NEW i \in DOMAIN stack
      PROVE  /\ stack[i] \in Frame
             /\ stack[i].name \in Package
             /\ stack[i].next \in Nat \ {0}
             /\ loaded[stack[i].name] \in Seq(Package)
             /\ Len(loaded[stack[i].name]) \in Nat
             /\ DOMAIN loaded[stack[i].name] = 1 .. Len(loaded[stack[i].name])
  <2>1. stack[i] \in Frame
    BY <1>1, ElementOfSeq DEF TypeOK
  <2>2. stack[i].name \in Package /\ stack[i].next \in Nat \ {0}
    BY <2>1 DEF Frame
  <2>3. loaded[stack[i].name] \in Seq(Package)
    BY <2>2, ResolverAssumption DEF TypeOK
  <2> QED BY <2>1, <2>2, <2>3, LenProperties
<1>3. ASSUME InLoop
      PROVE  /\ Top.next \in DOMAIN loaded[Top.name]
             /\ Dep \in Package
             /\ Dep \in Range(loaded[Top.name])
  <2>1. Top.next \in 1 .. Len(loaded[Top.name])
    BY <1>1, <1>2, <1>3 DEF InLoop, Top
  <2>2. Dep \in Package
    BY <1>1, <1>2, <2>1, ElementOfSeq DEF Dep, Top
  <2> QED BY <1>1, <1>2, <2>1, <2>2 DEF Dep, Top, Range
<1> QED BY <1>1, <1>2, <1>3 DEF Top

(* The depth of the recursion, as a number of its own. *)
LEMMA StackDepth ==
    ASSUME TypeOK, Len(stack) > 0
    PROVE  \E n \in Nat : n = Len(stack) /\ n >= 1 /\ DOMAIN stack = 1 .. n
<1>1. Len(stack) \in Nat /\ DOMAIN stack = 1 .. Len(stack)
  BY LenProperties DEF TypeOK
<1>2. Len(stack) >= 1
  BY <1>1
<1> QED BY <1>1, <1>2, Zenon

(* The stack after i++ of the innermost loop. *)
LEMMA AdvancedProperties ==
    ASSUME TypeOK, Len(stack) > 0
    PROVE  /\ Advanced \in Seq(Frame)
           /\ Len(Advanced) = Len(stack)
           /\ DOMAIN Advanced = DOMAIN stack
           /\ \A i \in DOMAIN stack :
                /\ Advanced[i].name = stack[i].name
                /\ Advanced[i].next = IF i = Len(stack) THEN stack[i].next + 1 ELSE stack[i].next
<1> DEFINE e == [stack[Len(stack)] EXCEPT !.next = @ + 1]
<1>1. e \in Frame /\ e.name = stack[Len(stack)].name /\ e.next = stack[Len(stack)].next + 1
  BY LoopTypes DEF Frame
<1>2. Advanced = [stack EXCEPT ![Len(stack)] = e]
  BY DEF Advanced
<1>3. stack \in Seq(Frame) /\ Len(stack) \in 1 .. Len(stack)
  BY LoopTypes DEF TypeOK
<1>4. /\ Advanced \in Seq(Frame)
      /\ Len(Advanced) = Len(stack)
      /\ \A j \in 1 .. Len(stack) : Advanced[j] = IF j = Len(stack) THEN e ELSE stack[j]
  <2> HIDE DEF e
  <2> QED BY <1>1, <1>2, <1>3, ExceptSeq
<1>5. DOMAIN Advanced = DOMAIN stack
  BY <1>4, LoopTypes, LenProperties
<1> QED BY <1>1, <1>4, <1>5, LoopTypes

(* The stack after the innermost call made a call of its own for Dep. *)
LEMMA CallProperties ==
    ASSUME TypeOK, InLoop,
           stack' = Append(Advanced, [name |-> Dep, next |-> 1])
    PROVE  /\ stack' \in Seq(Frame)
           /\ Len(stack') = Len(stack) + 1
           /\ DOMAIN stack' = 1 .. Len(stack) + 1
           /\ \A i \in DOMAIN stack :
                /\ stack'[i].name = stack[i].name
                /\ stack'[i].next = IF i = Len(stack) THEN stack[i].next + 1 ELSE stack[i].next
           /\ stack'[Len(stack) + 1] = [name |-> Dep, next |-> 1]
<1>1. Len(stack) > 0
  BY DEF InLoop
<1>2. [name |-> Dep, next |-> 1] \in Frame
  BY <1>1, LoopTypes DEF Frame
<1>3. Advanced \in Seq(Frame) /\ Len(Advanced) = Len(stack)
  BY <1>1, AdvancedProperties
<1>4. /\ stack' \in Seq(Frame)
      /\ Len(stack') = Len(stack) + 1
      /\ \A i \in 1 .. Len(stack) : stack'[i] = Advanced[i]
      /\ stack'[Len(stack) + 1] = [name |-> Dep, next |-> 1]
  BY <1>2, <1>3, AppendProperties
<1>5. DOMAIN stack' = 1 .. Len(stack) + 1
  BY <1>4, LenProperties
<1> QED BY <1>1, <1>4, <1>5, AdvancedProperties, LoopTypes

-----------------------------------------------------------------------------
(***************************************************************************)
(* Type correctness.                                                       *)
(***************************************************************************)

LEMMA InitTypeOK == Init => TypeOK
<1>1. <<>> \in Seq(Frame) /\ <<>> \in Seq(Package)
  BY EmptySeq
<1> QED BY <1>1, ResolverAssumption DEF Init, TypeOK

LEMMA EnterTypes ==
    ASSUME TypeOK, NEW p \in Package, Enter(p)
    PROVE  /\ color' \in [Package -> {"white", "gray", "black"}]
           /\ loaded' \in [Package -> DepLists]
           /\ cycleFrom' \in Package \cup {NoName}
           /\ UNCHANGED <<output, cycleTo, answer>>
BY DEF Enter, TypeOK

LEMMA ReturnProperties ==
    ASSUME TypeOK, Return
    PROVE  /\ stack' \in Seq(Frame)
           /\ Len(stack') = Len(stack) - 1
           /\ DOMAIN stack' = 1 .. Len(stack) - 1
           /\ \A i \in DOMAIN stack' : stack'[i] = stack[i]
           /\ Top.name \in Package
           /\ output' \in Seq(Package)
           /\ color' \in [Package -> {"white", "gray", "black"}]
<1>1. Len(stack) > 0 /\ stack \in Seq(Frame)
  BY DEF Return, TypeOK
<1>2. Top.name \in Package
  BY <1>1, LoopTypes DEF Top
<1>3. output' \in Seq(Package)
  BY <1>2, AppendProperties DEF Return, Emit, TypeOK
<1>4. stack' = SubSeq(stack, 1, Len(stack) - 1)
  BY DEF Return
<1>5. color' \in [Package -> {"white", "gray", "black"}]
  BY DEF Return, TypeOK
<1> QED BY <1>1, <1>2, <1>3, <1>4, <1>5, PopProperties

LEMMA StepTypeOK == TypeOK /\ [Next]_vars => TypeOK'
<1> SUFFICES ASSUME TypeOK, [Next]_vars
             PROVE  TypeOK'
  OBVIOUS
<1>1. CASE Start
  <2>1. Enter(Root) /\ Root \in Package /\ stack' = <<[name |-> Root, next |-> 1]>>
    BY <1>1, ResolverAssumption DEF Start
  <2>2. [name |-> Root, next |-> 1] \in Frame
    BY <2>1 DEF Frame
  <2>3. stack' \in Seq(Frame)
    BY <2>1, <2>2
  <2> QED BY <2>1, <2>3, EnterTypes DEF TypeOK
<1>2. CASE VisitNew
  <2>1. Enter(Dep) /\ Dep \in Package /\ stack' \in Seq(Frame)
    BY <1>2, LoopTypes, CallProperties DEF VisitNew, InLoop
  <2> QED BY <2>1, EnterTypes DEF TypeOK
<1>3. CASE VisitResolved
  <2>1. stack' \in Seq(Frame)
    BY <1>3, AdvancedProperties DEF VisitResolved, InLoop
  <2> QED BY <1>3, <2>1 DEF VisitResolved, TypeOK
<1>4. CASE VisitCycle
  <2>1. Dep \in Package
    BY <1>4, LoopTypes DEF VisitCycle, InLoop
  <2>2. <<>> \in Seq(Package)
    BY EmptySeq
  <2> QED BY <1>4, <2>1, <2>2 DEF VisitCycle, Fail, TypeOK
<1>5. CASE VisitFull
  <2>1. <<>> \in Seq(Package)
    BY EmptySeq
  <2> QED BY <1>5, <2>1 DEF VisitFull, Fail, TypeOK
<1>6. CASE Return
  BY <1>6, ReturnProperties DEF Return, TypeOK
<1>7. CASE Finish
  <2>1. <<Root>> \in Seq(Package)
    BY ResolverAssumption
  <2>2. answer' \in [status : {"running", "ok", "cycle", "full"}, names : Seq(Package)]
    BY <1>7, <2>1 DEF Finish, TypeOK
  <2> QED BY <1>7, <2>2 DEF Finish, TypeOK
<1>8. CASE UNCHANGED vars
  BY <1>8 DEF vars, TypeOK
<1> QED BY <1>1, <1>2, <1>3, <1>4, <1>5, <1>6, <1>7, <1>8 DEF Next, Returned

(* The variables of the resolver keep their types, whatever the manifests. *)
THEOREM TypeCorrect == Spec => []TypeOK
<1>1. Init => TypeOK
  BY InitTypeOK
<1>2. TypeOK /\ [Next]_vars => TypeOK'
  BY StepTypeOK
<1> QED BY <1>1, <1>2, PTL DEF Spec

-----------------------------------------------------------------------------
(***************************************************************************)
(* The inductive invariant, one lemma per action.                          *)
(***************************************************************************)

LEMMA InitIInv == Init => IInv
<1> SUFFICES ASSUME Init
             PROVE  IInv
  OBVIOUS
<1>1. TypeOK
  BY InitTypeOK
<1>2. stack = <<>> /\ output = <<>> /\ Len(stack) = 0 /\ Len(output) = 0
      /\ DOMAIN stack = {} /\ DOMAIN output = {} /\ Range(output) = {}
  BY DEF Init, Range
<1>3. Nodes = {} /\ Emitted = {} /\ color[Root] = "white"
  BY ResolverAssumption DEF Init, Nodes, Emitted
<1>4. IsFiniteSet({}) /\ Cardinality({}) = 0
  BY FS_EmptySet
<1>5. NodesInv
  BY <1>3, <1>4, ResolverAssumption DEF NodesInv
<1>6. PathInv /\ PassedInv /\ NeededInv
  BY <1>2, <1>3 DEF PathInv, PassedInv, NeededInv, Init
<1>7. OutputInv
  BY <1>2, <1>3, <1>4 DEF OutputInv, Plan!DependenciesFirst
<1>8. AnswerInv /\ ErrorDeserved
  BY DEF Init, AnswerInv, ErrorDeserved
<1> QED BY <1>1, <1>5, <1>6, <1>7, <1>8 DEF IInv

(* A new node: the node table gains one name, the output none. *)
LEMMA EnterNodes ==
    ASSUME TypeOK, NEW p \in Package, Enter(p)
    PROVE  /\ p \notin Nodes
           /\ Nodes' = Nodes \cup {p}
           /\ Emitted' = Emitted
           /\ color'[p] = "gray"
           /\ \A q \in Package : q # p => color'[q] = color[q] /\ loaded'[q] = loaded[q]
BY DEF Enter, Nodes, Emitted, TypeOK

LEMMA EnterFinite ==
    ASSUME TypeOK, IsFiniteSet(Nodes), NEW p \in Package, Enter(p)
    PROVE  /\ IsFiniteSet(Nodes')
           /\ Cardinality(Nodes') <= MaxNodes
<1>1. Nodes' = Nodes \cup {p} /\ p \notin Nodes
  BY EnterNodes
<1>2. IsFiniteSet(Nodes') /\ Cardinality(Nodes') = Cardinality(Nodes) + 1
  BY <1>1, FS_AddElement
<1>3. Cardinality(Nodes) \in Nat /\ Cardinality(Nodes) < MaxNodes
  BY FS_CardinalityType DEF Enter
<1> QED BY <1>2, <1>3, ResolverAssumption

(* A package needed by a node is reached with the nodes. *)
LEMMA ReachedExtends ==
    ASSUME NEW g, NEW h, NEW N \in SUBSET Package, NEW p \in Package, NEW t \in N,
           p \notin N,
           p \in Range(g[t]),
           \A q \in N : h[q] = g[q],
           Plan!Reached(g, Root, N)
    PROVE  Plan!Reached(h, Root, N \cup {p})
<1> USE DEF Plan!Reached, Plan!Range, Range
<1> SUFFICES ASSUME NEW S \in SUBSET (N \cup {p}),
                    Root \in S,
                    \A q \in S : \A d \in Range(h[q]) : d \in N \cup {p} => d \in S
             PROVE  S = N \cup {p}
  OBVIOUS
<1>1. S \cap N = N
  <2>1. Root \in S \cap N
    OBVIOUS
  <2>2. \A q \in S \cap N : \A d \in Range(g[q]) : d \in N => d \in S \cap N
    OBVIOUS
  <2> QED BY <2>1, <2>2
<1>2. p \in S
  BY <1>1
<1> QED BY <1>1, <1>2

LEMMA StartIInv == IInv /\ Start => IInv'
<1> SUFFICES ASSUME IInv, Start
             PROVE  IInv'
  OBVIOUS
<1> USE DEF IInv
<1>1. /\ Enter(Root) /\ Root \in Package /\ Running /\ stack = <<>>
      /\ stack' = <<[name |-> Root, next |-> 1]>>
      /\ color[Root] = "white"
  BY ResolverAssumption DEF Start, Enter
<1>2. TypeOK'
  BY StepTypeOK DEF Next
<1>3. Nodes = {} /\ Nodes' = {Root} /\ Emitted' = Emitted
  BY <1>1, EnterNodes DEF NodesInv
<1>4. Emitted = {} /\ Emitted' = {}
  BY <1>3 DEF Nodes, Emitted
<1>5. Len(output) = 0 /\ output = <<>> /\ output' = <<>> /\ answer' = answer
  BY <1>1, <1>4, FS_EmptySet, EmptySeq DEF OutputInv, Enter, TypeOK
<1>6. /\ Len(stack') = 1 /\ DOMAIN stack' = {1}
      /\ stack'[1].name = Root /\ stack'[1].next = 1
      /\ color'[Root] = "gray"
  BY <1>1, EnterNodes
<1>7. NodesInv'
  <2>1. Plan!Reached(loaded, Root, Nodes)'
    BY <1>3 DEF Plan!Reached
  <2> QED BY <1>1, <1>6, <2>1, EnterFinite DEF NodesInv
<1>8. PathInv'
  <2>1. \A p \in Package : color'[p] = "gray" <=> p = Root
    BY <1>1, <1>3, <1>6 DEF Nodes
  <2>2. Len(loaded'[Root]) \in Nat
    BY <1>2, ResolverAssumption, LenProperties DEF TypeOK
  <2> QED BY <1>6, <2>1, <2>2 DEF PathInv
<1>9. PassedInv'
  <2>1. DOMAIN loaded'[Root] = 1 .. Len(loaded'[Root]) /\ Len(loaded'[Root]) \in Nat
    BY <1>2, ResolverAssumption, LenProperties DEF TypeOK
  <2> QED BY <1>6, <2>1 DEF PassedInv
<1>10. OutputInv'
  <2>1. DOMAIN output' = {} /\ Range(output') = {} /\ Len(output') = 0
    BY <1>5 DEF Range
  <2> QED BY <1>4, <2>1, FS_EmptySet DEF OutputInv, Plan!DependenciesFirst
<1>11. NeededInv'
  BY <1>5, <1>6 DEF NeededInv
<1>12. AnswerInv' /\ ErrorDeserved'
  BY <1>1, <1>5 DEF AnswerInv, ErrorDeserved, Running
<1> QED BY <1>2, <1>7, <1>8, <1>9, <1>10, <1>11, <1>12

(* The innermost call belongs to a gray node, and an active call means that *)
(* the root is gray too.                                                    *)
LEMMA StackFacts ==
    ASSUME IInv, Len(stack) > 0
    PROVE  /\ Top.name \in Nodes
           /\ \A i \in DOMAIN stack : color[stack[i].name] = "gray" /\ stack[i].name \in Nodes
           /\ color[Root] = "gray"
           /\ Plan!Reached(loaded, Root, Nodes)
<1> USE DEF IInv
<1>1. \A i \in DOMAIN stack : color[stack[i].name] = "gray" /\ stack[i].name \in Nodes
  BY LoopTypes DEF PathInv, Nodes
<1>2. 1 \in DOMAIN stack /\ stack[1].name = Root
  BY LoopTypes DEF PathInv
<1> QED BY <1>1, <1>2, LoopTypes DEF NodesInv

LEMMA VisitNewIInv == IInv /\ VisitNew => IInv'
<1> SUFFICES ASSUME IInv, VisitNew
             PROVE  IInv'
  OBVIOUS
<1> USE DEF IInv
<1> DEFINE p == Dep
<1>1. /\ InLoop /\ Running /\ Len(stack) > 0 /\ Enter(p)
      /\ stack' = Append(Advanced, [name |-> p, next |-> 1])
  BY DEF VisitNew, InLoop
<1>2. TypeOK'
  BY StepTypeOK DEF Next
<1>n. PICK n \in Nat : n = Len(stack) /\ n >= 1 /\ DOMAIN stack = 1 .. n
  BY <1>1, StackDepth
<1>3. /\ p \in Package /\ p \in Range(loaded[Top.name])
      /\ DOMAIN stack = 1 .. n
      /\ Top = stack[n]
  BY <1>1, <1>n, LoopTypes
<1>4. /\ p \notin Nodes /\ Nodes' = Nodes \cup {p} /\ Emitted' = Emitted
      /\ color'[p] = "gray"
      /\ \A q \in Package : q # p => color'[q] = color[q] /\ loaded'[q] = loaded[q]
  BY <1>1, <1>3, EnterNodes
<1>5. /\ Len(stack') = n + 1 /\ DOMAIN stack' = 1 .. n + 1
      /\ \A i \in 1 .. n : /\ stack'[i].name = stack[i].name
                           /\ stack'[i].next = IF i = n THEN stack[i].next + 1 ELSE stack[i].next
      /\ stack'[n + 1].name = p /\ stack'[n + 1].next = 1
  BY <1>1, <1>n, <1>3, CallProperties
<1>6. \A i \in 1 .. n : /\ stack[i].name \in Nodes
                        /\ stack[i].name \in Package
                        /\ stack[i].name # p
                        /\ color'[stack[i].name] = "gray"
                        /\ loaded'[stack[i].name] = loaded[stack[i].name]
  BY <1>1, <1>n, <1>3, <1>4, StackFacts, LoopTypes
<1>7. output' = output /\ answer' = answer
  BY <1>1 DEF Enter
<1>8. NodesInv'
  <2>1. Plan!Reached(loaded', Root, Nodes')
    <3>1. Plan!Reached(loaded, Root, Nodes) /\ Top.name \in Nodes
      BY <1>1, StackFacts
    <3>2. \A q \in Nodes : loaded'[q] = loaded[q]
      BY <1>4 DEF Nodes
    <3>3. Nodes \in SUBSET Package
      BY DEF Nodes
    <3> QED BY <1>3, <1>4, <3>1, <3>2, <3>3, ReachedExtends
  <2>2. color'[Root] # "white"
    BY <1>1, <1>4, StackFacts, ResolverAssumption
  <2>3. IsFiniteSet(Nodes') /\ Cardinality(Nodes') <= MaxNodes
    BY <1>1, <1>3, EnterFinite DEF NodesInv
  <2> QED BY <2>1, <2>2, <2>3 DEF NodesInv
<1>9. PathInv'
  <2>1. \A i, j \in 1 .. n + 1 : stack'[i].name = stack'[j].name => i = j
    <3> SUFFICES ASSUME NEW i \in 1 .. n + 1, NEW j \in 1 .. n + 1,
                        stack'[i].name = stack'[j].name
                 PROVE  i = j
      OBVIOUS
    <3>1. (i \in 1 .. n \/ i = n + 1) /\ (j \in 1 .. n \/ j = n + 1)
      BY <1>3
    <3>2. CASE i \in 1 .. n /\ j \in 1 .. n
      BY <1>n, <1>3, <1>5, <3>2 DEF PathInv
    <3>3. CASE i \in 1 .. n /\ j = n + 1
      BY <1>5, <1>6, <3>3
    <3>4. CASE i = n + 1 /\ j \in 1 .. n
      BY <1>5, <1>6, <3>4
    <3>5. CASE i = n + 1 /\ j = n + 1
      BY <3>5
    <3> QED BY <3>1, <3>2, <3>3, <3>4, <3>5
  <2>2. \A q \in Package : color'[q] = "gray" <=> \E i \in 1 .. n + 1 : stack'[i].name = q
    <3> SUFFICES ASSUME NEW q \in Package
                 PROVE  color'[q] = "gray" <=> \E i \in 1 .. n + 1 : stack'[i].name = q
      OBVIOUS
    <3>1. n + 1 \in 1 .. n + 1 /\ \A i \in 1 .. n + 1 : i \in 1 .. n \/ i = n + 1
      BY <1>3
    <3>2. CASE q = p
      BY <1>4, <1>5, <3>1, <3>2
    <3>3. CASE q # p
      <4>1. color'[q] = "gray" <=> \E i \in 1 .. n : stack[i].name = q
        BY <1>n, <1>3, <1>4, <3>3 DEF PathInv
      <4>2. \A i \in 1 .. n : i \in 1 .. n + 1 /\ stack'[i].name = stack[i].name
        BY <1>3, <1>5
      <4> QED BY <1>5, <3>1, <3>3, <4>1, <4>2
    <3> QED BY <3>2, <3>3
  <2>3. stack'[1].name = Root
    BY <1>n, <1>3, <1>5 DEF PathInv
  <2>4. \A i \in 1 .. n + 1 : stack'[i].next <= Len(loaded'[stack'[i].name]) + 1
    <3> SUFFICES ASSUME NEW i \in 1 .. n + 1
                 PROVE  stack'[i].next <= Len(loaded'[stack'[i].name]) + 1
      OBVIOUS
    <3>1. CASE i = n + 1
      <4>1. Len(loaded'[p]) \in Nat
        BY <1>2, <1>3, LenProperties, ResolverAssumption DEF TypeOK
      <4> QED BY <1>5, <3>1, <4>1
    <3>2. CASE i # n + 1
      <4>1. /\ i \in 1 .. n /\ i \in DOMAIN stack
            /\ stack[i].next \in Nat /\ Len(loaded[stack[i].name]) \in Nat
        BY <1>1, <1>3, <3>2, LoopTypes
      <4>2. stack'[i].name = stack[i].name /\ loaded'[stack[i].name] = loaded[stack[i].name]
        BY <1>5, <1>6, <4>1
      <4>3. CASE i = n
        <5>1. stack[i].next <= Len(loaded[stack[i].name])
          BY <1>1, <1>n, <1>3, <4>3 DEF InLoop
        <5>2. stack'[i].next = stack[i].next + 1
          BY <1>5, <4>1, <4>3
        <5> QED BY <4>1, <4>2, <5>1, <5>2
      <4>4. CASE i # n
        <5>1. stack'[i].next = stack[i].next
          BY <1>5, <4>1, <4>4
        <5>2. stack[i].next <= Len(loaded[stack[i].name]) + 1
          BY <4>1 DEF PathInv
        <5> QED BY <4>2, <5>1, <5>2
      <4> QED BY <4>3, <4>4
    <3> QED BY <3>1, <3>2
  <2>5. \A i \in 1 .. n + 1 : i < n + 1 =>
            /\ stack'[i].next > 1
            /\ loaded'[stack'[i].name][stack'[i].next - 1] = stack'[i + 1].name
    <3> SUFFICES ASSUME NEW i \in 1 .. n
                 PROVE  /\ stack'[i].next > 1
                        /\ loaded'[stack'[i].name][stack'[i].next - 1] = stack'[i + 1].name
      BY <1>3
    <3>1. i \in DOMAIN stack /\ stack[i].next \in Nat \ {0}
      BY <1>1, <1>3, LoopTypes
    <3>2. stack'[i].name = stack[i].name /\ loaded'[stack[i].name] = loaded[stack[i].name]
      BY <1>5, <1>6
    <3>3. CASE i = n
      <4>1. stack'[i].next = stack[i].next + 1
        BY <1>5, <3>3
      <4>2. stack'[i].next - 1 = stack[i].next /\ stack'[i].next > 1
        BY <3>1, <4>1
      <4>3. loaded[stack[i].name][stack[i].next] = p
        BY <1>3, <3>3 DEF Dep
      <4> QED BY <1>5, <3>2, <3>3, <4>2, <4>3
    <3>4. CASE i # n
      <4>1. stack'[i].next = stack[i].next /\ i + 1 \in 1 .. n /\ i < n
        BY <1>3, <1>5, <3>4
      <4>2. stack[i].next > 1 /\ loaded[stack[i].name][stack[i].next - 1] = stack[i + 1].name
        BY <1>n, <3>1, <4>1 DEF PathInv
      <4> QED BY <1>5, <3>2, <4>1, <4>2
    <3> QED BY <3>3, <3>4
  <2> QED BY <1>n, <1>5, <2>1, <2>2, <2>3, <2>4, <2>5 DEF PathInv
<1>10. PassedInv'
  <2>1. ASSUME NEW i \in 1 .. n, NEW k \in DOMAIN loaded[stack[i].name], k < stack'[i].next
        PROVE  color'[loaded[stack[i].name][k]] = "black" \/ k = stack'[i].next - 1
    <3>1. /\ i \in DOMAIN stack
          /\ stack[i].next \in Nat \ {0}
          /\ loaded[stack[i].name] \in Seq(Package)
          /\ k \in 1 .. Len(loaded[stack[i].name])
          /\ Len(loaded[stack[i].name]) \in Nat
      BY <1>1, <1>3, LoopTypes
    <3>2. k \in Nat /\ loaded[stack[i].name][k] \in Package
      BY <3>1, ElementOfSeq
    <3>3. color[loaded[stack[i].name][k]] = "black" => color'[loaded[stack[i].name][k]] = "black"
      BY <1>1, <1>4, <3>2 DEF Enter
    <3>4. CASE i = n
      <4>1. stack'[i].next = stack[i].next + 1
        BY <1>5, <3>4
      <4>2. CASE k = stack[i].next
        BY <3>1, <4>1, <4>2
      <4>3. CASE k # stack[i].next
        <5>1. k < stack[i].next
          BY <2>1, <3>1, <3>2, <4>1, <4>3
        <5> QED BY <1>3, <3>1, <3>3, <3>4, <5>1, <1>n DEF PassedInv
      <4> QED BY <4>2, <4>3
    <3>5. CASE i # n
      <4>1. stack'[i].next = stack[i].next
        BY <1>5, <3>5
      <4> QED BY <1>n, <2>1, <3>1, <3>3, <4>1 DEF PassedInv
    <3> QED BY <3>4, <3>5
  <2>2. ASSUME NEW k \in DOMAIN loaded'[p], k < 1
        PROVE  FALSE
    <3>1. DOMAIN loaded'[p] = 1 .. Len(loaded'[p])
      BY <1>2, <1>3, ResolverAssumption, LenProperties DEF TypeOK
    <3> QED BY <2>2, <3>1
  <2>3. ASSUME NEW i \in 1 .. n + 1, NEW k \in DOMAIN loaded'[stack'[i].name], k < stack'[i].next
        PROVE  \/ color'[loaded'[stack'[i].name][k]] = "black"
               \/ i < n + 1 /\ k = stack'[i].next - 1
    <3>1. CASE i = n + 1
      BY <1>5, <2>2, <2>3, <3>1
    <3>2. CASE i # n + 1
      <4>1. i \in 1 .. n /\ i < n + 1
        BY <1>3, <3>2
      <4>2. stack'[i].name = stack[i].name /\ loaded'[stack'[i].name] = loaded[stack[i].name]
        BY <1>5, <1>6, <4>1
      <4> QED BY <2>1, <2>3, <4>1, <4>2
    <3> QED BY <3>1, <3>2
  <2> QED BY <1>n, <1>5, <2>3 DEF PassedInv
<1>11. \A i \in DOMAIN output : output[i] \in Package /\ output[i] # p /\ loaded'[output[i]] = loaded[output[i]]
  <2>1. \A i \in DOMAIN output : output[i] \in Emitted
    BY DEF OutputInv, Range
  <2> QED BY <1>4, <2>1 DEF Emitted, Nodes
<1>12. OutputInv'
  BY <1>4, <1>7, <1>11 DEF OutputInv, Plan!DependenciesFirst
<1>13. NeededInv'
  <2>1. color'[Root] # "black"
    BY <1>1, <1>4, StackFacts, ResolverAssumption
  <2>2. ASSUME NEW i \in DOMAIN output
        PROVE  \/ i = Len(output) /\ output[i] = Root
               \/ \E j \in DOMAIN output : i < j /\ output[i] \in Range(loaded'[output[j]])
               \/ \E k \in DOMAIN stack' : output[i] \in Range(loaded'[stack'[k].name])
    <3>1. ASSUME NEW k \in DOMAIN stack, output[i] \in Range(loaded[stack[k].name])
          PROVE  k \in DOMAIN stack' /\ output[i] \in Range(loaded'[stack'[k].name])
      <4>1. k \in 1 .. n /\ k \in 1 .. n + 1
        BY <1>3
      <4>2. stack'[k].name = stack[k].name /\ loaded'[stack'[k].name] = loaded[stack[k].name]
        BY <1>5, <1>6, <4>1
      <4> QED BY <1>5, <3>1, <4>1, <4>2
    <3> QED BY <1>11, <3>1 DEF NeededInv
  <2> QED BY <1>7, <2>1, <2>2 DEF NeededInv
<1>14. AnswerInv' /\ ErrorDeserved'
  BY <1>1, <1>7 DEF AnswerInv, ErrorDeserved, Running
<1> QED BY <1>2, <1>8, <1>9, <1>10, <1>12, <1>13, <1>14

LEMMA VisitResolvedIInv == IInv /\ VisitResolved => IInv'
<1> SUFFICES ASSUME IInv, VisitResolved
             PROVE  IInv'
  OBVIOUS
<1> USE DEF IInv
<1>1. /\ InLoop /\ Running /\ Len(stack) > 0
      /\ stack' = Advanced /\ color[Dep] = "black"
      /\ UNCHANGED <<color, loaded, output, answer>>
  BY DEF VisitResolved, InLoop
<1>2. TypeOK'
  BY StepTypeOK DEF Next
<1>n. PICK n \in Nat : n = Len(stack) /\ n >= 1 /\ DOMAIN stack = 1 .. n
  BY <1>1, StackDepth
<1>3. /\ Len(stack') = n /\ DOMAIN stack' = 1 .. n
      /\ \A i \in 1 .. n : /\ stack'[i].name = stack[i].name
                           /\ stack'[i].next = IF i = n THEN stack[i].next + 1 ELSE stack[i].next
  BY <1>1, <1>n, AdvancedProperties
<1>4. Top = stack[n] /\ \A i \in 1 .. n : stack[i].next \in Nat \ {0}
  BY <1>1, <1>n, LoopTypes
<1>5. Nodes' = Nodes /\ Emitted' = Emitted
  BY <1>1 DEF Nodes, Emitted
<1>6. NodesInv'
  BY <1>1, <1>5 DEF NodesInv, Plan!Reached
<1>7. PathInv'
  <2>1. \A i, j \in 1 .. n : stack'[i].name = stack'[j].name => i = j
    BY <1>n, <1>3 DEF PathInv
  <2>2. \A q \in Package : color'[q] = "gray" <=> \E i \in 1 .. n : stack'[i].name = q
    <3>1. \A q \in Package : color[q] = "gray" <=> \E i \in 1 .. n : stack[i].name = q
      BY <1>n DEF PathInv
    <3> QED BY <1>1, <1>3, <3>1
  <2>3. stack'[1].name = Root
    BY <1>n, <1>3 DEF PathInv
  <2>4. \A i \in 1 .. n : stack'[i].next <= Len(loaded'[stack'[i].name]) + 1
    <3> SUFFICES ASSUME NEW i \in 1 .. n
                 PROVE  stack'[i].next <= Len(loaded[stack[i].name]) + 1
      BY <1>1, <1>3
    <3>1. Len(loaded[stack[i].name]) \in Nat
      BY <1>1, <1>n, LoopTypes
    <3>2. CASE i = n
      <4>1. stack[i].next <= Len(loaded[stack[i].name])
        BY <1>1, <1>4, <3>2 DEF InLoop
      <4> QED BY <1>3, <1>4, <3>1, <3>2, <4>1
    <3>3. CASE i # n
      BY <1>n, <1>3, <3>3 DEF PathInv
    <3> QED BY <3>2, <3>3
  <2>5. \A i \in 1 .. n : i < n =>
            /\ stack'[i].next > 1
            /\ loaded'[stack'[i].name][stack'[i].next - 1] = stack'[i + 1].name
    <3> SUFFICES ASSUME NEW i \in 1 .. n, i < n
                 PROVE  /\ stack'[i].next > 1
                        /\ loaded[stack'[i].name][stack'[i].next - 1] = stack'[i + 1].name
      BY <1>1
    <3>1. /\ i + 1 \in 1 .. n /\ stack'[i].name = stack[i].name
          /\ stack'[i].next = stack[i].next /\ stack'[i + 1].name = stack[i + 1].name
      BY <1>3
    <3> QED BY <1>n, <3>1 DEF PathInv
  <2> QED BY <1>n, <1>3, <2>1, <2>2, <2>3, <2>4, <2>5 DEF PathInv
<1>8. PassedInv'
  <2>1. ASSUME NEW i \in 1 .. n, NEW k \in DOMAIN loaded[stack[i].name], k < stack'[i].next
        PROVE  \/ color[loaded[stack[i].name][k]] = "black"
               \/ i < n /\ k = stack'[i].next - 1
    <3>1. k \in Nat /\ stack[i].next \in Nat
      BY <1>1, <1>n, LoopTypes
    <3>2. CASE i = n
      <4>1. k < stack[i].next + 1
        BY <1>3, <2>1, <3>2
      <4>2. CASE k = stack[i].next
        BY <1>1, <1>4, <3>2, <4>2 DEF Dep
      <4>3. CASE k # stack[i].next
        <5>1. k < stack[i].next
          BY <3>1, <4>1, <4>3
        <5> QED BY <1>n, <3>2, <5>1 DEF PassedInv
      <4> QED BY <4>2, <4>3
    <3>3. CASE i # n
      <4>1. stack'[i].next = stack[i].next
        BY <1>3, <3>3
      <4> QED BY <1>n, <2>1, <4>1 DEF PassedInv
    <3> QED BY <3>2, <3>3
  <2> QED BY <1>1, <1>3, <2>1 DEF PassedInv
<1>9. OutputInv'
  BY <1>1, <1>5 DEF OutputInv, Plan!DependenciesFirst
<1>10. NeededInv'
  <2>1. ASSUME NEW i \in DOMAIN output
        PROVE  \/ i = Len(output) /\ output[i] = Root
               \/ \E j \in DOMAIN output : i < j /\ output[i] \in Range(loaded[output[j]])
               \/ \E k \in DOMAIN stack' : output[i] \in Range(loaded[stack'[k].name])
    BY <1>n, <1>3 DEF NeededInv
  <2> QED BY <1>1, <2>1 DEF NeededInv
<1>11. AnswerInv' /\ ErrorDeserved'
  BY <1>1 DEF AnswerInv, ErrorDeserved, Running
<1> QED BY <1>2, <1>6, <1>7, <1>8, <1>9, <1>10, <1>11

(* The calls from a gray package back to itself are a dependency cycle. *)
LEMMA VisitCycleIInv == IInv /\ VisitCycle => IInv'
<1> SUFFICES ASSUME IInv, VisitCycle
             PROVE  IInv'
  OBVIOUS
<1> USE DEF IInv
<1>1. /\ InLoop /\ Running /\ Len(stack) > 0 /\ color[Dep] = "gray"
      /\ answer' = [status |-> "cycle", names |-> <<>>]
      /\ UNCHANGED <<stack, color, loaded, output>>
  BY DEF VisitCycle, InLoop, Fail
<1>2. TypeOK'
  BY StepTypeOK DEF Next
<1>n. PICK n \in Nat : n = Len(stack) /\ n >= 1 /\ DOMAIN stack = 1 .. n
  BY <1>1, StackDepth
<1>3. /\ Dep \in Package /\ Dep \in Range(loaded[stack[n].name])
      /\ \A i \in 1 .. n : stack[i].name \in Nodes
  BY <1>1, <1>n, LoopTypes, StackFacts
<1>4. PICK m \in 1 .. n : stack[m].name = Dep
  BY <1>1, <1>n, <1>3 DEF PathInv
<1>5. Plan!Cyclic(loaded)
  <2> DEFINE C == {stack[i].name : i \in m .. n}
  <2>1. C \in SUBSET Nodes /\ C \in SUBSET Package
    BY <1>3, <1>4 DEF Nodes
  <2>2. IsFiniteSet(C)
    BY <2>1, FS_Subset DEF NodesInv
  <2>3. C # {} /\ Dep \in C
    BY <1>4
  <2>4. ASSUME NEW i \in m .. n
        PROVE  \E q \in C : q \in Range(loaded[stack[i].name])
    <3>0. i \in 1 .. n
      BY <1>4
    <3>1. CASE i = n
      BY <1>3, <2>3, <3>1
    <3>2. CASE i # n
      <4>1. i < n /\ i + 1 \in m .. n
        BY <1>4, <3>2
      <4>2. /\ stack[i].next > 1
            /\ loaded[stack[i].name][stack[i].next - 1] = stack[i + 1].name
            /\ stack[i].next <= Len(loaded[stack[i].name]) + 1
        BY <1>n, <3>0, <4>1 DEF PathInv
      <4>3. /\ stack[i].next \in Nat
            /\ Len(loaded[stack[i].name]) \in Nat
            /\ DOMAIN loaded[stack[i].name] = 1 .. Len(loaded[stack[i].name])
        BY <1>1, <1>n, <3>0, LoopTypes
      <4>4. stack[i].next - 1 \in DOMAIN loaded[stack[i].name]
        BY <4>2, <4>3
      <4> QED BY <4>1, <4>2, <4>4 DEF Range
    <3> QED BY <3>1, <3>2
  <2>5. \A p \in C : \E q \in C : q \in Range(loaded[p])
    BY <2>4
  <2> HIDE DEF C
  <2>6. \A p \in C : \E q \in C : q \in Plan!Range(loaded[p])
    BY <2>5 DEF Plan!Range, Range
  <2>7. C # {}
    BY <2>3
  <2> QED BY <2>1, <2>2, <2>6, <2>7, SameFiniteSets, Zenon DEF Plan!Cyclic
<1>6. Nodes' = Nodes /\ Emitted' = Emitted
  BY <1>1 DEF Nodes, Emitted
<1>7. NodesInv'
  BY <1>1, <1>6 DEF NodesInv, Plan!Reached
<1>8. PathInv' /\ PassedInv' /\ NeededInv'
  BY <1>1 DEF PathInv, PassedInv, NeededInv
<1>9. OutputInv'
  BY <1>1, <1>6 DEF OutputInv, Plan!DependenciesFirst
<1>10. AnswerInv' /\ ErrorDeserved'
  BY <1>1, <1>5 DEF AnswerInv, ErrorDeserved, Plan!Cyclic
<1> QED BY <1>2, <1>7, <1>8, <1>9, <1>10

(* All nodes of a full table, and one more package, are needed by the root. *)
LEMMA VisitFullIInv == IInv /\ VisitFull => IInv'
<1> SUFFICES ASSUME IInv, VisitFull
             PROVE  IInv'
  OBVIOUS
<1> USE DEF IInv
<1>1. /\ InLoop /\ Running /\ Len(stack) > 0 /\ color[Dep] = "white"
      /\ Cardinality(Nodes) >= MaxNodes
      /\ answer' = [status |-> "full", names |-> <<>>]
      /\ UNCHANGED <<stack, color, loaded, output>>
  BY DEF VisitFull, InLoop, Fail
<1>2. TypeOK'
  BY StepTypeOK DEF Next
<1>3. Dep \in Package /\ Dep \in Range(loaded[Top.name])
  BY <1>1, LoopTypes
<1>4. /\ Top.name \in Nodes /\ Plan!Reached(loaded, Root, Nodes)
      /\ Nodes \in SUBSET Package /\ Dep \notin Nodes
  BY <1>1, StackFacts DEF Nodes
<1>5. Plan!TooLarge(loaded, Root)
  <2> DEFINE N == Nodes \cup {Dep}
  <2>1. Plan!Reached(loaded, Root, N)
    BY <1>3, <1>4, ReachedExtends
  <2>2. IsFiniteSet(N) /\ Cardinality(N) = Cardinality(Nodes) + 1
    BY <1>4, FS_AddElement DEF NodesInv
  <2>3. Cardinality(N) > MaxNodes
    BY <1>1, <2>2, FS_CardinalityType, ResolverAssumption DEF NodesInv
  <2>4. N \in SUBSET Package
    BY <1>3, <1>4
  <2> HIDE DEF N
  <2>5. IsFiniteSet(N)
    BY <2>2
  <2>6. Plan!IsFiniteSet(N) /\ Plan!Cardinality(N) > MaxNodes
    BY <2>3, <2>5, SameFiniteSets
  <2> QED BY <2>1, <2>4, <2>6, Zenon DEF Plan!TooLarge
<1>6. Nodes' = Nodes /\ Emitted' = Emitted
  BY <1>1 DEF Nodes, Emitted
<1>7. NodesInv'
  BY <1>1, <1>6 DEF NodesInv, Plan!Reached
<1>8. PathInv' /\ PassedInv' /\ NeededInv'
  BY <1>1 DEF PathInv, PassedInv, NeededInv
<1>9. OutputInv'
  BY <1>1, <1>6 DEF OutputInv, Plan!DependenciesFirst
<1>10. AnswerInv' /\ ErrorDeserved'
  BY <1>1, <1>5 DEF AnswerInv, ErrorDeserved, Plan!TooLarge, Plan!Reached
<1> QED BY <1>2, <1>7, <1>8, <1>9, <1>10

(* When a call returns, its package is not in the output yet, and the      *)
(* output has room for it.                                                 *)
LEMMA ReturnEmits ==
    ASSUME IInv, Return
    PROVE  /\ output' = Append(output, Top.name)
           /\ Top.name \in Package
           /\ color[Top.name] = "gray"
           /\ Top.name \notin Range(output)
           /\ Nodes' = Nodes
           /\ Emitted' = Emitted \cup {Top.name}
           /\ Len(output) + 1 = Cardinality(Emitted')
<1> USE DEF IInv
<1>1. Len(stack) > 0
  BY DEF Return
<1>2. Top.name \in Package /\ Top.name \in Nodes /\ color[Top.name] = "gray"
  BY <1>1, LoopTypes, StackFacts
<1>3. Top.name \notin Emitted /\ Emitted \subseteq Nodes
  BY <1>2 DEF Emitted, Nodes
<1>4. Nodes' = Nodes /\ Emitted' = Emitted \cup {Top.name}
  BY <1>2 DEF Return, Nodes, Emitted, TypeOK
<1>5. IsFiniteSet(Emitted) /\ IsFiniteSet(Nodes)
  BY <1>3, FS_Subset DEF NodesInv
<1>6. /\ Cardinality(Emitted') = Cardinality(Emitted) + 1
      /\ Cardinality(Emitted) \in Nat
  BY <1>3, <1>4, <1>5, FS_AddElement, FS_CardinalityType
<1>7. Cardinality(Emitted') <= Cardinality(Nodes)
  <2>1. Emitted' \in SUBSET Nodes
    BY <1>2, <1>3, <1>4
  <2> QED BY <1>5, <2>1, FS_Subset
<1>8. Cardinality(Nodes) \in Nat /\ Cardinality(Nodes) <= MaxNodes
  BY <1>5, FS_CardinalityType DEF NodesInv
<1>9. Len(output) = Cardinality(Emitted) /\ Range(output) = Emitted
  BY DEF OutputInv
<1>10. Len(output) < MaxNodes
  BY <1>6, <1>7, <1>8, <1>9, ResolverAssumption
<1>11. output' = Append(output, Top.name)
  BY <1>3, <1>9, <1>10, ResolverAssumption, <1>6 DEF Return, Emit
<1> QED BY <1>2, <1>3, <1>4, <1>6, <1>9, <1>11

LEMMA ReturnIInv == IInv /\ Return => IInv'
<1> SUFFICES ASSUME IInv, Return
             PROVE  IInv'
  OBVIOUS
<1> USE DEF IInv
<1> DEFINE p == Top.name
<1>1. /\ Running /\ Len(stack) > 0 /\ Top.next > Len(loaded[p])
      /\ color' = [color EXCEPT ![p] = "black"]
      /\ UNCHANGED <<loaded, answer>>
  BY DEF Return
<1>2. TypeOK'
  BY StepTypeOK DEF Next
<1>n. PICK n \in Nat : n = Len(stack) /\ n >= 1 /\ DOMAIN stack = 1 .. n
  BY <1>1, StackDepth
<1>o. PICK o \in Nat : o = Len(output) /\ DOMAIN output = 1 .. o
  <2>1. Len(output) \in Nat /\ DOMAIN output = 1 .. Len(output)
    BY LenProperties DEF TypeOK
  <2> QED BY <2>1, Zenon
<1>3. /\ p \in Package /\ color[p] = "gray" /\ p \notin Range(output)
      /\ Nodes' = Nodes /\ Emitted' = Emitted \cup {p}
      /\ Cardinality(Emitted') = o + 1
      /\ p = stack[n].name
  <2>1. p = stack[n].name
    BY <1>n DEF Top
  <2> QED BY <1>o, <2>1, ReturnEmits
<1>4. /\ Len(output') = o + 1 /\ DOMAIN output' = 1 .. o + 1
      /\ \A i \in 1 .. o : output'[i] = output[i]
      /\ output'[o + 1] = p
      /\ Range(output') = Range(output) \cup {p}
  <2>1. output' = Append(output, p) /\ output \in Seq(Package)
    BY ReturnEmits DEF TypeOK
  <2>2. /\ output' \in Seq(Package) /\ Len(output') = o + 1
        /\ \A i \in 1 .. o : output'[i] = output[i]
        /\ output'[o + 1] = p
    BY <1>o, <1>3, <2>1, AppendProperties
  <2>3. DOMAIN output' = 1 .. o + 1
    BY <2>2, LenProperties
  <2>4. o + 1 \in 1 .. o + 1 /\ 1 .. o + 1 = (1 .. o) \cup {o + 1}
    OBVIOUS
  <2> QED BY <1>o, <2>2, <2>3, <2>4 DEF Range
<1>5. /\ Len(stack') = n - 1 /\ DOMAIN stack' = 1 .. n - 1
      /\ \A i \in 1 .. n - 1 : stack'[i] = stack[i]
  BY <1>n, ReturnProperties
<1>6. \A i \in 1 .. n - 1 : i \in 1 .. n /\ i # n
  OBVIOUS
<1>7. \A q \in Package : color'[q] = IF q = p THEN "black" ELSE color[q]
  BY <1>1 DEF TypeOK
<1>8. \A i \in 1 .. n : stack[i].name \in Package /\ (stack[i].name = p => i = n)
  <2>1. \A i \in 1 .. n : stack[i].name \in Package
    BY <1>1, <1>n, LoopTypes
  <2> QED BY <1>n, <1>3, <2>1 DEF PathInv
<1>9. \A d \in Range(loaded[p]) : d \in Range(output)
  <2> SUFFICES ASSUME NEW k \in DOMAIN loaded[p]
               PROVE  loaded[p][k] \in Range(output)
    BY DEF Range
  <2>1. /\ k \in Nat /\ k < stack[n].next /\ loaded[p][k] \in Package
        /\ stack[n].next \in Nat
    <3>1. /\ n \in DOMAIN stack /\ loaded[p] \in Seq(Package) /\ Len(loaded[p]) \in Nat
          /\ DOMAIN loaded[p] = 1 .. Len(loaded[p]) /\ stack[n].next \in Nat /\ Top = stack[n]
      BY <1>1, <1>n, <1>3, LoopTypes
    <3>2. loaded[p][k] \in Package
      BY <3>1, ElementOfSeq
    <3> QED BY <1>1, <3>1, <3>2
  <2>2. color[loaded[p][k]] = "black"
    BY <1>n, <1>3, <2>1 DEF PassedInv
  <2> QED BY <2>1, <2>2 DEF OutputInv, Emitted
<1>10. NodesInv'
  <2>1. color'[Root] = "white" <=> color[Root] = "white"
    BY <1>3, <1>7, ResolverAssumption
  <2> QED BY <1>1, <1>3, <2>1 DEF NodesInv, Plan!Reached
<1>11. PathInv'
  <2>1. \A i, j \in 1 .. n - 1 : stack'[i].name = stack'[j].name => i = j
    <3> SUFFICES ASSUME NEW i \in 1 .. n - 1, NEW j \in 1 .. n - 1,
                        stack'[i].name = stack'[j].name
                 PROVE  i = j
      OBVIOUS
    <3>1. /\ i \in DOMAIN stack /\ j \in DOMAIN stack
          /\ stack[i].name = stack[j].name
      BY <1>n, <1>5, <1>6
    <3> QED BY <3>1 DEF PathInv
  <2>2. \A q \in Package : color'[q] = "gray" <=> \E i \in 1 .. n - 1 : stack'[i].name = q
    <3> SUFFICES ASSUME NEW q \in Package
                 PROVE  color'[q] = "gray" <=> \E i \in 1 .. n - 1 : stack'[i].name = q
      OBVIOUS
    <3>1. color[q] = "gray" <=> \E i \in 1 .. n : stack[i].name = q
      BY <1>n DEF PathInv
    <3>2. CASE q = p
      BY <1>5, <1>6, <1>7, <1>8, <3>2
    <3>3. CASE q # p
      <4>1. \A i \in 1 .. n : stack[i].name = q => i \in 1 .. n - 1
        BY <1>3, <3>3
      <4> QED BY <1>5, <1>6, <1>7, <3>1, <3>3, <4>1
    <3> QED BY <3>2, <3>3
  <2>3. n - 1 > 0 => stack'[1].name = Root
    BY <1>n, <1>5 DEF PathInv
  <2>4. \A i \in 1 .. n - 1 : stack'[i].next <= Len(loaded'[stack'[i].name]) + 1
    BY <1>n, <1>1, <1>5, <1>6 DEF PathInv
  <2>5. \A i \in 1 .. n - 1 : i < n - 1 =>
            /\ stack'[i].next > 1
            /\ loaded'[stack'[i].name][stack'[i].next - 1] = stack'[i + 1].name
    <3> SUFFICES ASSUME NEW i \in 1 .. n - 1, i < n - 1
                 PROVE  /\ stack'[i].next > 1
                        /\ loaded[stack'[i].name][stack'[i].next - 1] = stack'[i + 1].name
      BY <1>1
    <3>1. i \in 1 .. n /\ i < n /\ i + 1 \in 1 .. n - 1
      OBVIOUS
    <3>2. stack'[i] = stack[i] /\ stack'[i + 1] = stack[i + 1]
      BY <1>5, <3>1
    <3> QED BY <1>n, <3>1, <3>2 DEF PathInv
  <2> QED BY <1>5, <2>1, <2>2, <2>3, <2>4, <2>5 DEF PathInv
<1>12. PassedInv'
  <2>1. ASSUME NEW i \in 1 .. n - 1, NEW k \in DOMAIN loaded[stack[i].name], k < stack[i].next
        PROVE  \/ color'[loaded[stack[i].name][k]] = "black"
               \/ i < n - 1 /\ k = stack[i].next - 1
    <3>1. i \in 1 .. n /\ i < n
      OBVIOUS
    <3>2. loaded[stack[i].name][k] \in Package
      BY <1>1, <1>n, <3>1, LoopTypes, ElementOfSeq
    <3>3. CASE color[loaded[stack[i].name][k]] = "black"
      BY <1>7, <3>2, <3>3
    <3>4. CASE k = stack[i].next - 1 /\ i = n - 1
      <4>1. loaded[stack[i].name][k] = stack[i + 1].name
        BY <1>n, <3>1, <3>4 DEF PathInv
      <4>2. i + 1 = n
        BY <3>4
      <4> QED BY <1>3, <1>7, <4>1, <4>2
    <3>5. \/ color[loaded[stack[i].name][k]] = "black"
          \/ k = stack[i].next - 1
      BY <1>n, <2>1, <3>1 DEF PassedInv
    <3> QED BY <3>3, <3>4, <3>5
  <2> QED BY <1>1, <1>5, <2>1 DEF PassedInv
<1>13. OutputInv'
  <2>1. \A i, j \in 1 .. o + 1 : output'[i] = output'[j] => i = j
    <3> SUFFICES ASSUME NEW i \in 1 .. o + 1, NEW j \in 1 .. o + 1, output'[i] = output'[j]
                 PROVE  i = j
      OBVIOUS
    <3>1. \A k \in 1 .. o : output'[k] = output[k] /\ output'[k] # p
      BY <1>o, <1>3, <1>4 DEF Range
    <3>2. CASE i \in 1 .. o /\ j \in 1 .. o
      BY <1>o, <3>1, <3>2 DEF OutputInv, Plan!DependenciesFirst
    <3>3. CASE i = o + 1 /\ j = o + 1
      BY <3>3
    <3>4. ~(i = o + 1 /\ j \in 1 .. o) /\ ~(i \in 1 .. o /\ j = o + 1)
      BY <1>4, <3>1
    <3> QED BY <3>2, <3>3, <3>4
  <2>2. \A i \in 1 .. o + 1 : \A d \in Range(loaded[output'[i]]) :
            \E j \in 1 .. o + 1 : j < i /\ output'[j] = d
    <3> SUFFICES ASSUME NEW i \in 1 .. o + 1, NEW d \in Range(loaded[output'[i]])
                 PROVE  \E j \in 1 .. o + 1 : j < i /\ output'[j] = d
      OBVIOUS
    <3>1. CASE i = o + 1
      <4>1. d \in Range(output)
        BY <1>4, <1>9, <3>1
      <4>2. PICK j \in 1 .. o : output[j] = d
        BY <1>o, <4>1 DEF Range
      <4>3. j \in 1 .. o + 1 /\ j < i
        BY <3>1
      <4> QED BY <1>4, <4>2, <4>3
    <3>2. CASE i # o + 1
      <4>1. i \in 1 .. o /\ output'[i] = output[i]
        BY <1>4, <3>2
      <4>2. PICK j \in 1 .. o : j < i /\ output[j] = d
        <5>1. d \in Range(loaded[output[i]]) /\ i \in DOMAIN output
          BY <1>o, <4>1
        <5> QED BY <1>o, <5>1, DependenciesFirstDef DEF OutputInv
      <4>3. j \in 1 .. o + 1
        OBVIOUS
      <4> QED BY <1>4, <4>2, <4>3
    <3> QED BY <3>1, <3>2
  <2>3. Range(output') = Emitted' /\ Len(output') = Cardinality(Emitted')
    BY <1>3, <1>4 DEF OutputInv
  <2>4. Plan!DependenciesFirst(loaded', output')
    BY <1>1, <1>4, <2>1, <2>2, DependenciesFirstDef
  <2>5. Plan!DependenciesFirst(loaded, output)'
    BY <2>4 DEF Plan!DependenciesFirst
  <2> QED BY <2>3, <2>5 DEF OutputInv
<1>14. NeededInv'
  <2>1. color[Root] = "gray"
    BY <1>1, StackFacts
  <2>2. \A i \in 1 .. o : output[i] # Root /\ output'[i] = output[i] /\ i \in 1 .. o + 1 /\ i < o + 1
    <3>1. \A i \in 1 .. o : output[i] \in Emitted
      BY <1>o DEF OutputInv, Range
    <3> QED BY <1>4, <2>1, <3>1 DEF Emitted
  <2>3. ASSUME NEW i \in 1 .. o
        PROVE  \/ \E j \in 1 .. o + 1 : i < j /\ output'[i] \in Range(loaded[output'[j]])
               \/ \E k \in 1 .. n - 1 : output'[i] \in Range(loaded[stack'[k].name])
    <3>1. CASE \E j \in 1 .. o : i < j /\ output[i] \in Range(loaded[output[j]])
      BY <2>2, <3>1
    <3>2. CASE \E k \in 1 .. n : output[i] \in Range(loaded[stack[k].name])
      <4>1. PICK k \in 1 .. n : output[i] \in Range(loaded[stack[k].name])
        BY <3>2
      <4>2. CASE k = n
        <5>1. output'[i] \in Range(loaded[output'[o + 1]])
          BY <1>3, <1>4, <2>2, <4>1, <4>2
        <5>2. o + 1 \in 1 .. o + 1 /\ i < o + 1
          OBVIOUS
        <5> QED BY <5>1, <5>2
      <4>3. CASE k # n
        <5>1. k \in 1 .. n - 1
          BY <4>3
        <5> QED BY <1>5, <2>2, <4>1, <5>1
      <4> QED BY <4>2, <4>3
    <3> QED BY <1>n, <1>o, <2>2, <3>1, <3>2 DEF NeededInv
  <2>4. \/ p = Root
        \/ \E k \in 1 .. n - 1 : p \in Range(loaded[stack'[k].name])
    <3>1. CASE n = 1
      BY <1>n, <1>3, <3>1 DEF PathInv
    <3>2. CASE n # 1
      <4>1. PICK m \in 1 .. n - 1 : m + 1 = n /\ m \in 1 .. n /\ m < n
        <5>1. n - 1 \in 1 .. n - 1 /\ (n - 1) + 1 = n /\ n - 1 \in 1 .. n /\ n - 1 < n
          BY <1>n, <3>2
        <5> QED BY <5>1
      <4>2. /\ stack[m].next > 1 /\ loaded[stack[m].name][stack[m].next - 1] = p
            /\ stack[m].next <= Len(loaded[stack[m].name]) + 1
        BY <1>n, <1>3, <4>1 DEF PathInv
      <4>3. /\ stack[m].next \in Nat /\ Len(loaded[stack[m].name]) \in Nat
            /\ DOMAIN loaded[stack[m].name] = 1 .. Len(loaded[stack[m].name])
        BY <1>1, <1>n, <4>1, LoopTypes
      <4>4. stack[m].next - 1 \in DOMAIN loaded[stack[m].name]
        BY <4>2, <4>3
      <4>5. p \in Range(loaded[stack[m].name])
        BY <4>2, <4>4 DEF Range
      <4> QED BY <1>5, <4>1, <4>5
    <3> QED BY <3>1, <3>2
  <2>5. color'[Root] = "black" => p = Root
    BY <1>7, <2>1, ResolverAssumption
  <2>6. \A i \in 1 .. o + 1 : i \in 1 .. o \/ i = o + 1
    OBVIOUS
  <2>7. \A i \in 1 .. o + 1 :
            \/ i = o + 1 /\ output'[i] = Root
            \/ \E j \in 1 .. o + 1 : i < j /\ output'[i] \in Range(loaded[output'[j]])
            \/ \E k \in 1 .. n - 1 : output'[i] \in Range(loaded[stack'[k].name])
    BY <1>4, <2>3, <2>4, <2>6
  <2>8. color'[Root] = "black" => Len(output') > 0 /\ output'[Len(output')] = Root
    <3>1. o + 1 > 0
      OBVIOUS
    <3> QED BY <1>4, <2>5, <3>1
  <2>9. loaded' = loaded /\ Len(output') = o + 1 /\ DOMAIN output' = 1 .. o + 1
        /\ DOMAIN stack' = 1 .. n - 1
    BY <1>1, <1>4, <1>5
  <2> QED BY <2>7, <2>8, <2>9 DEF NeededInv
<1>15. AnswerInv' /\ ErrorDeserved'
  BY <1>1 DEF AnswerInv, ErrorDeserved, Running
<1> QED BY <1>2, <1>10, <1>11, <1>12, <1>13, <1>14, <1>15

(* The end of a successful resolution: no call is active, so the root is   *)
(* black and the output is the answer.                                     *)
LEMMA FinishIInv == IInv /\ Finish => IInv'
<1> SUFFICES ASSUME IInv, Finish
             PROVE  IInv'
  OBVIOUS
<1> USE DEF IInv
<1>1. /\ Running /\ stack = <<>> /\ color[Root] # "white"
      /\ answer' = [status |-> "ok", names |-> IF output # <<>> THEN output ELSE <<Root>>]
      /\ UNCHANGED <<stack, color, loaded, output>>
  BY DEF Finish
<1>2. TypeOK'
  BY StepTypeOK DEF Next
<1>3. DOMAIN stack = {}
  BY <1>1
<1>4. color[Root] = "black"
  <2>1. color[Root] # "gray"
    BY <1>3, ResolverAssumption DEF PathInv
  <2> QED BY <1>1, <2>1, ResolverAssumption DEF TypeOK
<1>5. output # <<>>
  BY <1>4 DEF NeededInv
<1>6. Nodes' = Nodes /\ Emitted' = Emitted
  BY <1>1 DEF Nodes, Emitted
<1>7. NodesInv'
  BY <1>1, <1>6 DEF NodesInv, Plan!Reached
<1>8. PathInv' /\ PassedInv' /\ NeededInv'
  BY <1>1 DEF PathInv, PassedInv, NeededInv
<1>9. OutputInv'
  BY <1>1, <1>6 DEF OutputInv, Plan!DependenciesFirst
<1>10. AnswerInv' /\ ErrorDeserved'
  BY <1>1, <1>4, <1>5 DEF AnswerInv, ErrorDeserved
<1> QED BY <1>2, <1>7, <1>8, <1>9, <1>10

LEMMA StutterIInv == IInv /\ UNCHANGED vars => IInv'
<1> SUFFICES ASSUME IInv, UNCHANGED vars
             PROVE  IInv'
  OBVIOUS
<1> USE DEF IInv, vars
<1>1. TypeOK'
  BY StepTypeOK DEF vars
<1>2. Nodes' = Nodes /\ Emitted' = Emitted
  BY DEF Nodes, Emitted
<1>3. NodesInv'
  BY <1>2 DEF NodesInv, Plan!Reached
<1>4. PathInv' /\ PassedInv' /\ NeededInv' /\ AnswerInv'
  BY DEF PathInv, PassedInv, NeededInv, AnswerInv
<1>5. OutputInv'
  BY <1>2 DEF OutputInv, Plan!DependenciesFirst
<1>6. ErrorDeserved'
  BY DEF ErrorDeserved, Plan!Cyclic, Plan!TooLarge, Plan!Reached
<1> QED BY <1>1, <1>3, <1>4, <1>5, <1>6

LEMMA StepIInv == IInv /\ [Next]_vars => IInv'
BY StartIInv, VisitNewIInv, VisitResolvedIInv, VisitCycleIInv, VisitFullIInv,
   ReturnIInv, FinishIInv, StutterIInv DEF Next, Returned

(* The whole invariant of the search: the stack is the gray path from the  *)
(* root, the output is the black set in dependency order.                  *)
THEOREM Invariant == Spec => []IInv
<1>1. Init => IInv
  BY InitIInv
<1>2. IInv /\ [Next]_vars => IInv'
  BY StepIInv
<1> QED BY <1>1, <1>2, PTL DEF Spec

-----------------------------------------------------------------------------
(***************************************************************************)
(* What the invariant gives.                                               *)
(***************************************************************************)

LEMMA IInvInstallOrder == IInv => InstallOrder
<1> SUFFICES ASSUME IInv, answer.status = "ok"
             PROVE  Plan!IsInstallOrder(loaded, Root, answer.names)
  BY DEF InstallOrder
<1> USE DEF IInv
<1>1. stack = <<>> /\ color[Root] = "black" /\ answer.names = output
  BY DEF AnswerInv
<1>2. Plan!DependenciesFirst(loaded, answer.names)
  BY <1>1 DEF OutputInv
<1>3. Plan!NothingExtra(loaded, Root, answer.names)
  <2>1. Len(output) > 0 /\ output[Len(output)] = Root
    BY <1>1 DEF NeededInv
  <2>2. DOMAIN stack = {}
    BY <1>1
  <2>3. \A i \in DOMAIN output : i < Len(output) =>
            \E j \in DOMAIN output : i < j /\ output[i] \in Range(loaded[output[j]])
    <3>1. Len(output) \in Nat /\ DOMAIN output = 1 .. Len(output)
      BY LenProperties DEF TypeOK
    <3> QED BY <2>2, <3>1 DEF NeededInv
  <2>4. \A f : Plan!Range(f) = Range(f)
    BY DEF Plan!Range, Range
  <2> QED BY <1>1, <2>1, <2>3, <2>4 DEF Plan!NothingExtra
<1> QED BY <1>2, <1>3 DEF Plan!IsInstallOrder

(* A successful resolution returns an install order of the graph it read:  *)
(* every dependency before its dependents, nothing twice, nothing missing, *)
(* nothing unneeded, the root last.                                        *)
THEOREM ResolvesInOrder == Spec => []InstallOrder
BY Invariant, IInvInstallOrder, PTL

(* An error is returned for a real cycle, or for a root that needs more    *)
(* packages than the node table holds, and for nothing else.               *)
THEOREM ErrorsAreDeserved == Spec => []ErrorDeserved
<1>1. IInv => ErrorDeserved
  BY DEF IInv
<1> QED BY <1>1, Invariant, PTL

(* dfs_emit never reaches the cap at which it would drop a package. *)
THEOREM NeverDrops == Spec => []NothingDropped
<1>1. IInv => NothingDropped
  BY DEF IInv, OutputInv, NothingDropped
<1> QED BY <1>1, Invariant, PTL

(* The recursion of dfs_visit is a simple path of gray packages, so it is   *)
(* no deeper than the node table is long.                                   *)
THEOREM BoundedRecursion == Spec => []StackIsGrayPath
<1>1. IInv => StackIsGrayPath
  <2> SUFFICES ASSUME IInv
               PROVE  StackIsGrayPath
    OBVIOUS
  <2> USE DEF IInv
  <2>1. \A i, j \in DOMAIN stack : stack[i].name = stack[j].name => i = j
    BY DEF PathInv
  <2>2. \A i \in DOMAIN stack : stack[i].name \in Package
    <3>1. Len(stack) \in Nat /\ DOMAIN stack = 1 .. Len(stack)
      BY LenProperties DEF TypeOK
    <3>2. CASE Len(stack) > 0
      BY <3>2, LoopTypes
    <3>3. CASE Len(stack) = 0
      BY <3>1, <3>3
    <3> QED BY <3>1, <3>2, <3>3
  <2>3. {stack[i].name : i \in DOMAIN stack} = Nodes \ Emitted
    <3>1. \A p \in Package : p \in Nodes \ Emitted <=> color[p] = "gray"
      BY DEF TypeOK, Nodes, Emitted
    <3>2. \A p \in Package : p \in Nodes \ Emitted <=> \E i \in DOMAIN stack : stack[i].name = p
      BY <3>1 DEF PathInv
    <3>3. Nodes \subseteq Package
      BY DEF Nodes
    <3> QED BY <2>2, <3>2, <3>3
  <2>4. Len(stack) <= MaxNodes
    <3> DEFINE f == [i \in 1 .. Len(stack) |-> stack[i].name]
    <3>1. Len(stack) \in Nat /\ DOMAIN stack = 1 .. Len(stack)
      BY LenProperties DEF TypeOK
    <3>2. f \in Injection(1 .. Len(stack), Nodes)
      BY <2>1, <2>3, <3>1 DEF Injection, IsInjective
    <3>3. Cardinality(1 .. Len(stack)) = Len(stack)
      <4>1. \A n \in Nat : Cardinality(1 .. n) = n
        <5> TAKE n \in Nat
        <5>1. Cardinality(1 .. n) = IF 1 > n THEN 0 ELSE n - 1 + 1
          BY FS_Interval
        <5> QED BY <5>1
      <4> QED BY <3>1, <4>1
    <3>4. Cardinality(1 .. Len(stack)) <= Cardinality(Nodes)
      <4> HIDE DEF f
      <4> QED BY <3>2, FS_Injection DEF NodesInv
    <3>5. Cardinality(Nodes) \in Nat
      BY FS_CardinalityType DEF NodesInv
    <3> QED BY <3>1, <3>3, <3>4, <3>5, ResolverAssumption DEF NodesInv
  <2> QED BY <2>1, <2>3, <2>4 DEF StackIsGrayPath
<1> QED BY <1>1, Invariant, PTL

-----------------------------------------------------------------------------
(***************************************************************************)
(* The search implements its one-step contract.                            *)
(***************************************************************************)

LEMMA InitRefines == Init => Plan!PlanInit
BY DEF Init, Running, Plan!PlanInit, Plan!NoGraph, Plan!Pending

LEMMA StepRefines ==
    ASSUME IInv, IInv', [Next]_vars
    PROVE  [Plan!Answer]_Plan!planVars
<1> USE DEF IInv
<1>1. CASE UNCHANGED answer /\ (Running \/ UNCHANGED loaded)
  BY <1>1 DEF Plan!planVars, Running
<1>2. ASSUME Running, ~Running'
      PROVE  Plan!Answer
  <2>1. answer = Plan!Pending
    BY <1>2 DEF Running, AnswerInv, TypeOK, Plan!Pending
  <2>2. loaded' \in [Package -> DepLists]
    BY DEF TypeOK
  <2>3. answer'.status \in {"ok", "cycle", "full"}
    BY <1>2 DEF Running, TypeOK
  <2>4. answer'.status # "ok" => answer' = [status |-> answer'.status, names |-> <<>>]
    BY DEF AnswerInv, TypeOK
  <2>5. answer'.status = "ok" => Plan!IsInstallOrder(loaded', Root, answer'.names)
    <3>1. InstallOrder'
      BY IInvInstallOrder, PTL
    <3> QED BY <3>1 DEF InstallOrder
  <2>6. /\ answer'.status = "cycle" => Plan!Cyclic(loaded')
        /\ answer'.status = "full" => Plan!TooLarge(loaded', Root)
    BY DEF ErrorDeserved
  <2> QED BY <1>2, <2>1, <2>2, <2>3, <2>4, <2>5, <2>6 DEF Plan!Answer
<1>3. \/ UNCHANGED answer /\ (Running \/ UNCHANGED loaded)
      \/ Running /\ ~Running'
  BY DEF Next, Start, VisitNew, VisitResolved, VisitCycle, VisitFull, Return, Finish,
         Returned, Enter, Fail, InLoop, Running, vars
<1> QED BY <1>1, <1>2, <1>3

(* Every behaviour of the depth-first search is, seen through its answer,  *)
(* a behaviour of the contract of resolver.h.                              *)
THEOREM Refinement == Spec => PlanSpec
<1>1. Init => Plan!PlanInit
  BY InitRefines
<1>2. IInv /\ IInv' /\ [Next]_vars => [Plan!Answer]_Plan!planVars
  BY StepRefines
<1>3. Spec => []IInv
  BY Invariant
<1> QED BY <1>1, <1>2, <1>3, PTL DEF Spec, PlanSpec, Plan!PlanSpec

(***************************************************************************)
(* The manifests of botpkg: what is written says what was meant, and the   *)
(* parser finds it there.                                                  *)
(***************************************************************************)

(***************************************************************************)
(* Reading a string.                                                       *)
(***************************************************************************)
TwoChars(t, j) == t[j] = Slash /\ j < Len(t)

CharAt(t, j) == IF TwoChars(t, j) THEN Unescaped(t[j + 1]) ELSE t[j]

Behind(t, j) == IF TwoChars(t, j) THEN j + 2 ELSE j + 1

ReadOver(t, room, j, n) == j > Len(t) \/ t[j] = Quote \/ n = room - 1

Stood(t, j) == IF j <= Len(t) /\ t[j] = Quote THEN j + 1 ELSE j

ReadAt(t, k, room) == (k + 1 .. Len(t) + 2) \X (0 .. room - 1)

ReadStep(t, k, room, f) ==
    [at \in ReadAt(t, k, room) |->
        IF ReadOver(t, room, at[1], at[2])
        THEN [value |-> <<>>, next |-> Stood(t, at[1])]
        ELSE [f[<<Behind(t, at[1]), at[2] + 1>>] EXCEPT
                !.value = <<CharAt(t, at[1])>> \o @]]

Reading(t, k, room) == CHOOSE f : f = ReadStep(t, k, room, f)

LEMMA ReadStringIs ==
    ASSUME NEW t, NEW k, NEW room
    PROVE  json_read_string(t, k, room) = Reading(t, k, room)[<<k + 1, 0>>]
  BY DEF json_read_string, Reading, ReadStep, ReadAt, ReadOver, Stood, Behind, CharAt, TwoChars

ReadResult(t) == [value : Seq(Char), next : 1 .. Len(t) + 2]

LEMMA CharsAre ==
    /\ Quote \in Char /\ Slash \in Char /\ Colon \in Char /\ Comma \in Char
    /\ LBracket \in Char /\ RBracket \in Char /\ LBrace \in Char /\ RBrace \in Char
    /\ "n" \in Char /\ "v" \in Char /\ "d" \in Char /\ "LF" \in Char /\ "0" \in Char /\ "1" \in Char
<1>1. {Quote, Slash, Colon, Comma, LBracket, RBracket, LBrace, RBrace} \subseteq Char
  BY ManifestAssumption DEF ManifestAssumption
<1>2. {"n", "v", "d", "LF", "0", "1"} \subseteq Char
  BY ManifestAssumption DEF ManifestAssumption
<1> QED BY <1>1, <1>2, Zenon

LEMMA CharAtIsChar ==
    ASSUME NEW t \in Seq(Char), NEW j \in 1 .. Len(t)
    PROVE  CharAt(t, j) \in Char /\ Behind(t, j) \in j + 1 .. Len(t) + 1
<1>1. t[j] \in Char
  OBVIOUS
<1>2. j < Len(t) => t[j + 1] \in Char
  OBVIOUS
<1>3. CASE TwoChars(t, j)
  <2>1. Unescaped(t[j + 1]) \in Char
    BY <1>2, <1>3, CharsAre DEF Unescaped, TwoChars
  <2> QED BY <2>1, <1>3 DEF CharAt, Behind, TwoChars
<1>4. CASE ~TwoChars(t, j)
  BY <1>1, <1>4 DEF CharAt, Behind
<1> QED BY <1>3, <1>4

ReadOn(t, k, room) == {at \in ReadAt(t, k, room) : ~ReadOver(t, room, at[1], at[2])}

ReadNext(t, k, room) == [at \in ReadOn(t, k, room) |-> <<Behind(t, at[1]), at[2] + 1>>]

ReadRank(t, k, room) == [at \in ReadAt(t, k, room) |-> Len(t) + 2 - at[1]]

(* Every step goes on, within the text and the room.                       *)
LEMMA ReadGoesOn ==
    ASSUME NEW t \in Seq(Char), NEW k \in 1 .. Len(t), NEW room \in Nat \ {0}
    PROVE  /\ ReadRank(t, k, room) \in [ReadAt(t, k, room) -> 0 .. Len(t) + 2]
           /\ ReadNext(t, k, room) \in [ReadOn(t, k, room) -> ReadAt(t, k, room)]
           /\ Descends(ReadOn(t, k, room), ReadRank(t, k, room), ReadNext(t, k, room))
<1> DEFINE L == Len(t)
<1>0. L \in Nat /\ k \in 1 .. L
  OBVIOUS
<1>1. ASSUME NEW at \in ReadAt(t, k, room)
      PROVE  at[1] \in k + 1 .. L + 2 /\ at[2] \in 0 .. room - 1 /\ at[1] \in Nat
             /\ L + 2 - at[1] \in 0 .. L + 2
  <2>1. at[1] \in k + 1 .. L + 2 /\ at[2] \in 0 .. room - 1
    BY DEF ReadAt
  <2> HIDE DEF L
  <2> QED BY <2>1, <1>0
<1>2. ASSUME NEW at \in ReadOn(t, k, room)
      PROVE  /\ at \in ReadAt(t, k, room) /\ <<Behind(t, at[1]), at[2] + 1>> \in ReadAt(t, k, room)
             /\ Behind(t, at[1]) > at[1] /\ Behind(t, at[1]) \in Nat
  <2>1. at \in ReadAt(t, k, room) /\ ~(at[1] > L) /\ at[2] # room - 1
    BY DEF ReadOn, ReadOver
  <2>2. at[1] \in k + 1 .. L + 2 /\ at[2] \in 0 .. room - 1
    BY <1>1, <2>1
  <2>3. at[1] \in 1 .. Len(t)
    BY <2>1, <2>2
  <2>4. Behind(t, at[1]) \in at[1] + 1 .. L + 1
    BY <2>3, CharAtIsChar
  <2> DEFINE B == Behind(t, at[1])
             i == at[1]
             n == at[2]
  <2>5. /\ i \in k + 1 .. L + 2 /\ n \in 0 .. room - 1 /\ B \in i + 1 .. L + 1
        /\ n # room - 1 /\ ~(i > L)
    BY <2>1, <2>2, <2>4
  <2> HIDE DEF L, B, i, n
  <2>6. B \in k + 1 .. L + 2 /\ n + 1 \in 0 .. room - 1 /\ B > i /\ B \in Nat
    BY <2>5, <1>0
  <2> QED BY <2>1, <2>6 DEF ReadAt, B, L, i, n
<1>3. ReadRank(t, k, room) \in [ReadAt(t, k, room) -> 0 .. L + 2]
  BY <1>1 DEF ReadRank
<1>4. ReadNext(t, k, room) \in [ReadOn(t, k, room) -> ReadAt(t, k, room)]
  BY <1>2 DEF ReadNext
<1>5. ASSUME NEW at \in ReadOn(t, k, room)
      PROVE  ReadRank(t, k, room)[ReadNext(t, k, room)[at]] < ReadRank(t, k, room)[at]
  <2> DEFINE B == Behind(t, at[1])
             z == <<B, at[2] + 1>>
  <2>1. ReadNext(t, k, room)[at] = z
    BY DEF ReadNext
  <2>2. z \in ReadAt(t, k, room) /\ at \in ReadAt(t, k, room) /\ B > at[1] /\ B \in Nat
    BY <1>2
  <2>3. ReadRank(t, k, room)[z] = L + 2 - B
    BY <2>2 DEF ReadRank
  <2>4. ReadRank(t, k, room)[at] = L + 2 - at[1]
    BY <2>2 DEF ReadRank
  <2>5. at[1] \in Nat
    BY <1>1, <2>2
  <2> HIDE DEF L, B, z
  <2> QED BY <2>1, <2>2, <2>3, <2>4, <2>5, <1>0
<1> QED BY <1>3, <1>4, <1>5 DEF Descends

(* The reading is what its definition says, and reads texts.               *)
LEMMA ReadingHolds ==
    ASSUME NEW t \in Seq(Char), NEW k \in 1 .. Len(t), NEW room \in Nat \ {0}
    PROVE  /\ Reading(t, k, room) = ReadStep(t, k, room, Reading(t, k, room))
           /\ Reading(t, k, room) \in [ReadAt(t, k, room) -> ReadResult(t)]
<1> DEFINE X == ReadAt(t, k, room)
           V == ReadResult(t)
           D == ReadOn(t, k, room)
           base == [at \in X |-> [value |-> <<>>, next |-> Stood(t, at[1])]]
           comb == [at \in D |-> [v \in V |-> [v EXCEPT !.value = <<CharAt(t, at[1])>> \o @]]]
<1>0. Len(t) + 2 \in Nat /\ D \in SUBSET X
  BY DEF ReadOn
<1>1. base \in [X -> V]
  <2> SUFFICES ASSUME NEW at \in X
               PROVE  Stood(t, at[1]) \in 1 .. Len(t) + 2
    BY DEF ReadResult
  <2>1. at[1] \in k + 1 .. Len(t) + 2
    BY DEF ReadAt
  <2> QED BY <2>1 DEF Stood
<1>2. ASSUME NEW at \in D, NEW v \in V
      PROVE  [v EXCEPT !.value = <<CharAt(t, at[1])>> \o @] \in V
  <2>1. at[1] \in 1 .. Len(t)
    BY DEF ReadOn, ReadAt, ReadOver
  <2>2. CharAt(t, at[1]) \in Char
    BY <2>1, CharAtIsChar
  <2>3. v.value \in Seq(Char)
    BY DEF ReadResult
  <2>4. <<CharAt(t, at[1])>> \o v.value \in Seq(Char)
    BY <2>2, <2>3
  <2> QED BY <2>4 DEF ReadResult
<1>3. comb \in [D -> [V -> V]]
  BY <1>2
<1>4. PICK f \in [X -> V] : \A x \in X :
          f[x] = IF x \in D THEN comb[x][f[ReadNext(t, k, room)[x]]] ELSE base[x]
  <2> HIDE DEF X, V, D, base, comb
  <2> DEFINE N == Len(t) + 2
             rk == ReadRank(t, k, room)
             succ == ReadNext(t, k, room)
  <2>1. N \in Nat /\ rk \in [X -> 0 .. N] /\ succ \in [D -> X] /\ Descends(D, rk, succ)
    BY ReadGoesOn DEF X, D
  <2> HIDE DEF N, rk, succ
  <2>2. HasFunction(X, V, D, succ, base, comb)
    BY <2>1, <1>0, <1>1, <1>3, RecursionHasFunction
  <2> QED BY <2>2 DEF HasFunction, Recurs, succ
<1>5. \A x \in D : ReadNext(t, k, room)[x] \in X /\ ReadNext(t, k, room)[x] = <<Behind(t, x[1]), x[2] + 1>>
  BY ReadGoesOn DEF ReadNext
<1>6. f = ReadStep(t, k, room, f)
  <2>1. ASSUME NEW x \in X, x \in D
        PROVE  f[x] = [f[<<Behind(t, x[1]), x[2] + 1>>] EXCEPT !.value = <<CharAt(t, x[1])>> \o @]
    <3>1. f[ReadNext(t, k, room)[x]] \in V
      BY <1>5, <2>1
    <3>2. f[x] = comb[x][f[ReadNext(t, k, room)[x]]]
      BY <1>4, <2>1
    <3>3. f[x] = [f[ReadNext(t, k, room)[x]] EXCEPT !.value = <<CharAt(t, x[1])>> \o @]
      BY <3>1, <3>2, <2>1
    <3> QED BY <3>3, <1>5, <2>1
  <2>2. ASSUME NEW x \in X, x \notin D
        PROVE  f[x] = [value |-> <<>>, next |-> Stood(t, x[1])]
    BY <1>4, <2>2
  <2>3. \A x \in X : x \in D <=> ~ReadOver(t, room, x[1], x[2])
    BY DEF ReadOn
  <2>4. f = [x \in X |-> IF ReadOver(t, room, x[1], x[2]) THEN [value |-> <<>>, next |-> Stood(t, x[1])]
                          ELSE [f[<<Behind(t, x[1]), x[2] + 1>>] EXCEPT !.value = <<CharAt(t, x[1])>> \o @]]
    BY <2>1, <2>2, <2>3
  <2> QED BY <2>4 DEF ReadStep
<1> DEFINE F == Reading(t, k, room)
<1>7. F = ReadStep(t, k, room, F)
  BY <1>6 DEF Reading
<1>8. F \in [X -> V]
  <2> HIDE DEF F
  <2> DEFINE T == {x \in X : F[x] \in V}
  <2>1. X \ D \subseteq T
    <3> SUFFICES ASSUME NEW x \in X, x \notin D
                 PROVE  F[x] \in V
      OBVIOUS
    <3>1. ReadOver(t, room, x[1], x[2])
      BY DEF ReadOn
    <3>2. F[x] = [value |-> <<>>, next |-> Stood(t, x[1])]
      BY <1>7, <3>1 DEF ReadStep
    <3> QED BY <3>2, <1>1
  <2>2. ASSUME NEW x \in D, ReadNext(t, k, room)[x] \in T
        PROVE  x \in T
    <3>1. x \in X /\ ~ReadOver(t, room, x[1], x[2])
      BY DEF ReadOn
    <3>2. F[x] = [F[<<Behind(t, x[1]), x[2] + 1>>] EXCEPT !.value = <<CharAt(t, x[1])>> \o @]
      BY <1>7, <3>1 DEF ReadStep
    <3>3. F[<<Behind(t, x[1]), x[2] + 1>>] \in V
      BY <2>2, <1>5
    <3> QED BY <3>1, <3>2, <3>3, <1>2
  <2>3. X \subseteq T
    <3> HIDE DEF X, D, T, V
    <3> DEFINE N == Len(t) + 2
               rk == ReadRank(t, k, room)
               succ == ReadNext(t, k, room)
    <3>1. N \in Nat /\ rk \in [X -> 0 .. N] /\ succ \in [D -> X] /\ Descends(D, rk, succ)
      BY ReadGoesOn DEF X, D
    <3>2. Inherited(D, succ, T)
      BY <2>2 DEF Inherited
    <3> HIDE DEF N, rk, succ
    <3> QED BY <3>1, <3>2, <1>0, <2>1, RecursionHolds
  <2>4. F = [x \in X |-> F[x]]
    <3>1. DOMAIN ReadStep(t, k, room, F) = X /\ ReadStep(t, k, room, F) = [x \in X |-> ReadStep(t, k, room, F)[x]]
      BY DEF ReadStep
    <3> QED BY <3>1, <1>7
  <2> QED BY <2>3, <2>4
<1> QED BY <1>7, <1>8

(* One turn of the reader.                                                 *)
ReadTurns(t, k, room, j, n) ==
    /\ <<j, n>> \in ReadAt(t, k, room)
    /\ Reading(t, k, room)[<<j, n>>] \in ReadResult(t)
    /\ ReadOver(t, room, j, n) =>
           Reading(t, k, room)[<<j, n>>] = [value |-> <<>>, next |-> Stood(t, j)]
    /\ ~ReadOver(t, room, j, n) =>
           /\ j \in 1 .. Len(t) /\ n + 1 \in 0 .. room - 1
           /\ Behind(t, j) \in k + 1 .. Len(t) + 2 /\ Behind(t, j) \in Nat /\ j < Behind(t, j)
           /\ <<Behind(t, j), n + 1>> \in ReadAt(t, k, room)
           /\ Reading(t, k, room)[<<j, n>>].value
                 = <<CharAt(t, j)>> \o Reading(t, k, room)[<<Behind(t, j), n + 1>>].value
           /\ Reading(t, k, room)[<<j, n>>].next
                 = Reading(t, k, room)[<<Behind(t, j), n + 1>>].next

LEMMA ReadTurn ==
    ASSUME NEW t \in Seq(Char), NEW k \in 1 .. Len(t), NEW room \in Nat \ {0},
           NEW j \in k + 1 .. Len(t) + 2, NEW n \in 0 .. room - 1
    PROVE  ReadTurns(t, k, room, j, n)
<1> DEFINE x == <<j, n>>
           F == Reading(t, k, room)
           y == <<Behind(t, j), n + 1>>
<1>0. F = ReadStep(t, k, room, F) /\ F \in [ReadAt(t, k, room) -> ReadResult(t)]
  BY ReadingHolds
<1>1. x \in ReadAt(t, k, room) /\ x[1] = j /\ x[2] = n
  BY DEF ReadAt
<1>2. F[x] \in ReadResult(t)
  BY <1>0, <1>1
<1>3. F[x] = IF ReadOver(t, room, j, n) THEN [value |-> <<>>, next |-> Stood(t, j)]
             ELSE [F[y] EXCEPT !.value = <<CharAt(t, j)>> \o @]
  <2> HIDE DEF F, x
  <2> QED BY <1>0, <1>1 DEF ReadStep
<1>4. ASSUME ~ReadOver(t, room, j, n)
      PROVE  /\ j \in 1 .. Len(t) /\ n + 1 \in 0 .. room - 1
             /\ Behind(t, j) \in k + 1 .. Len(t) + 2 /\ Behind(t, j) \in Nat /\ j < Behind(t, j)
             /\ y \in ReadAt(t, k, room)
  <2> DEFINE L == Len(t)
             B == Behind(t, j)
  <2>1. L \in Nat /\ k \in 1 .. L /\ j \in k + 1 .. L + 2 /\ n \in 0 .. room - 1 /\ ~(j > L) /\ n # room - 1
    BY <1>4 DEF ReadOver
  <2>2. j \in 1 .. L
    <3> HIDE DEF L
    <3> QED BY <2>1
  <2>3. B \in j + 1 .. L + 1
    BY <2>2, CharAtIsChar
  <2>4. B \in k + 1 .. L + 2 /\ B \in Nat /\ j < B /\ n + 1 \in 0 .. room - 1
    <3> HIDE DEF L, B
    <3> QED BY <2>1, <2>3
  <2> QED BY <2>2, <2>4 DEF ReadAt
<1>5. ASSUME ~ReadOver(t, room, j, n)
      PROVE  F[x].value = <<CharAt(t, j)>> \o F[y].value /\ F[x].next = F[y].next
  <2>1. F[y] \in ReadResult(t)
    BY <1>0, <1>4, <1>5
  <2> HIDE DEF F, x, y
  <2> QED BY <1>3, <1>5, <2>1 DEF ReadResult
<1> QED BY <1>1, <1>2, <1>3, <1>4, <1>5 DEF ReadTurns

(* The reader never goes back, and never reads more than there is room for. *)
LEMMA ReadStays ==
    ASSUME NEW t \in Seq(Char), NEW k \in 1 .. Len(t), NEW room \in Nat \ {0}
    PROVE  /\ json_read_string(t, k, room) \in ReadResult(t)
           /\ Len(json_read_string(t, k, room).value) < room
           /\ json_read_string(t, k, room).next > k
<1> DEFINE F == Reading(t, k, room)
           X == ReadAt(t, k, room)
           D == ReadOn(t, k, room)
           T == {x \in X : Len(F[x].value) <= room - 1 - x[2] /\ F[x].next >= x[1]}
<1>0. \A x \in X : /\ x = <<x[1], x[2]>> /\ x[1] \in k + 1 .. Len(t) + 2 /\ x[2] \in 0 .. room - 1
                   /\ x[1] \in Nat /\ x[2] \in Nat
  BY DEF ReadAt
<1>1. X \ D \subseteq T
  <2> SUFFICES ASSUME NEW x \in X, x \notin D
               PROVE  x \in T
    OBVIOUS
  <2>1. x = <<x[1], x[2]>> /\ x[1] \in k + 1 .. Len(t) + 2 /\ x[2] \in 0 .. room - 1 /\ ReadOver(t, room, x[1], x[2])
    BY <1>0 DEF ReadOn
  <2>a. ReadTurns(t, k, room, x[1], x[2])
    BY <2>1, ReadTurn
  <2>2. F[x] = [value |-> <<>>, next |-> Stood(t, x[1])]
    BY <2>1, <2>a DEF ReadTurns
  <2>3. Stood(t, x[1]) >= x[1]
    BY <2>1 DEF Stood
  <2>4. Len(F[x].value) = 0
    BY <2>2
  <2> QED BY <2>1, <2>2, <2>3, <2>4
<1>2. Inherited(D, ReadNext(t, k, room), T)
  <2> SUFFICES ASSUME NEW x \in D, ReadNext(t, k, room)[x] \in T
               PROVE  x \in T
    BY DEF Inherited
  <2>0. x \in X
    BY DEF ReadOn
  <2>1. /\ x = <<x[1], x[2]>> /\ x[1] \in k + 1 .. Len(t) + 2 /\ x[2] \in 0 .. room - 1
        /\ ~ReadOver(t, room, x[1], x[2])
    BY <1>0, <2>0 DEF ReadOn
  <2> DEFINE i == x[1]
             n == x[2]
             B == Behind(t, i)
             y == <<B, n + 1>>
  <2>2. y \in T
    BY DEF ReadNext
  <2>3. /\ B \in Nat /\ i < B /\ F[x].value = <<CharAt(t, i)>> \o F[y].value /\ F[x].next = F[y].next
        /\ i \in 1 .. Len(t)
    <3>1. ReadTurns(t, k, room, i, n)
      BY <2>1, ReadTurn
    <3> QED BY <2>1, <3>1 DEF ReadTurns
  <2>4. F[y] \in ReadResult(t)
    BY <2>2, ReadingHolds
  <2>5. CharAt(t, i) \in Char
    BY <2>3, CharAtIsChar
  <2>6. F[y].value \in Seq(Char) /\ F[y].next \in Nat
    BY <2>4 DEF ReadResult
  <2>7. Len(F[x].value) = 1 + Len(F[y].value) /\ Len(F[y].value) \in Nat
    BY <2>3, <2>5, <2>6
  <2>8. Len(F[y].value) <= room - 1 - (n + 1) /\ F[y].next >= B
    BY <2>2
  <2>9. i \in Nat /\ n \in Nat
    BY <2>0, <1>0
  <2>10. Len(F[x].value) <= room - 1 - n /\ F[x].next >= i
    <3> DEFINE now == Len(F[x].value)
               then == Len(F[y].value)
               there == F[y].next
    <3>1. now = 1 + then /\ then \in Nat /\ there \in Nat /\ F[x].next = there
      BY <2>3, <2>6, <2>7
    <3>2. then <= room - 1 - (n + 1) /\ there >= B /\ B \in Nat /\ i < B /\ i \in Nat /\ n \in Nat /\ room \in Nat
      BY <2>3, <2>8, <2>9
    <3> HIDE DEF F, B, y, i, n, X, D, T, now, then, there
    <3>3. now <= room - 1 - n /\ there >= i
      BY <3>1, <3>2
    <3> QED BY <3>1, <3>3 DEF now
  <2> QED BY <2>0, <2>10
<1>3. X \subseteq T
  <2> HIDE DEF X, D, T
  <2> DEFINE N == Len(t) + 2
             rk == ReadRank(t, k, room)
             succ == ReadNext(t, k, room)
  <2>1. N \in Nat /\ rk \in [X -> 0 .. N] /\ succ \in [D -> X] /\ Descends(D, rk, succ)
    BY ReadGoesOn DEF X, D
  <2>2. Inherited(D, succ, T)
    BY <1>2
  <2>3. D \in SUBSET X
    BY DEF D, X, ReadOn
  <2> HIDE DEF N, rk, succ
  <2> QED BY <2>1, <2>2, <2>3, <1>1, RecursionHolds
<1>4. k + 1 \in k + 1 .. Len(t) + 2 /\ 0 \in 0 .. room - 1
  OBVIOUS
<1>5. <<k + 1, 0>> \in X /\ F[<<k + 1, 0>>] \in ReadResult(t)
  <2>1. ReadTurns(t, k, room, k + 1, 0)
    BY <1>4, ReadTurn
  <2> QED BY <2>1 DEF ReadTurns
<1>6. <<k + 1, 0>> \in T
  BY <1>3, <1>5
<1> DEFINE r == F[<<k + 1, 0>>]
<1>7. Len(r.value) <= room - 1 - 0 /\ r.next >= k + 1
  BY <1>6
<1>8. r.value \in Seq(Char) /\ Len(r.value) \in Nat /\ r.next \in Nat
  BY <1>5 DEF ReadResult
<1>9. json_read_string(t, k, room) = r
  BY ReadStringIs
<1> HIDE DEF r, F
<1>10. Len(r.value) < room /\ r.next > k
  BY <1>7, <1>8
<1> QED BY <1>9, <1>10, <1>5 DEF r

(***************************************************************************)
(* A text spells a value: between two quotes, one character of the value   *)
(* after the other.  at[n] is where the text is with the first n done.     *)
(***************************************************************************)
SpeltChar(t, p, q, ch) ==
    /\ p \in 1 .. Len(t) /\ q \in p + 1 .. Len(t)
    /\ t[p] # Quote /\ CharAt(t, p) = ch /\ Behind(t, p) = q

Spells(t, i, v, e, at) ==
    /\ at \in [0 .. Len(v) -> 1 .. Len(t)]
    /\ i \in 1 .. Len(t) /\ e \in 1 .. Len(t)
    /\ at[0] = i + 1 /\ at[Len(v)] = e
    /\ t[i] = Quote /\ t[e] = Quote
    /\ \A k \in 1 .. Len(v) : SpeltChar(t, at[k - 1], at[k], v[k])

Spelt(t, i, v, e) == \E at \in [0 .. Len(v) -> 1 .. Len(t)] : Spells(t, i, v, e, at)

Moved(v, m, s) == SubSeq(v, 1, m) \o (<<v[m + 1]>> \o s) = SubSeq(v, 1, m + 1) \o s

LEMMA OneMore ==
    ASSUME NEW A, NEW v \in Seq(A), NEW m \in Nat, m < Len(v), NEW s \in Seq(A)
    PROVE  Moved(v, m, s)
<1> DEFINE a == SubSeq(v, 1, m)
           c == <<v[m + 1]>>
<1>1. v[m + 1] \in A
  OBVIOUS
<1>2. a \in Seq(A) /\ c \in Seq(A)
  BY <1>1
<1>3. SubSeq(v, 1, m + 1) = a \o c
  OBVIOUS
<1>4. (a \o c) \o s = a \o (c \o s)
  <2> HIDE DEF a, c
  <2> QED BY <1>2, ConcatAssociative
<1> QED BY <1>3, <1>4 DEF Moved

CutAt(v, room) == IF Len(v) < room THEN Len(v) ELSE room - 1

(* The reader has read the first m characters.                             *)
HasRead(t, i, v, room, at, m) ==
    /\ at[m] \in i + 1 .. Len(t) + 2
    /\ Reading(t, i, room)[<<i + 1, 0>>].value
         = SubSeq(v, 1, m) \o Reading(t, i, room)[<<at[m], m>>].value
    /\ Reading(t, i, room)[<<i + 1, 0>>].next = Reading(t, i, room)[<<at[m], m>>].next

LEMMA ReadSoFar ==
    ASSUME NEW t \in Seq(Char), NEW v \in Seq(Char), NEW i \in 1 .. Len(t), NEW e \in 1 .. Len(t),
           NEW at \in [0 .. Len(v) -> 1 .. Len(t)], Spells(t, i, v, e, at), NEW room \in Nat \ {0},
           NEW m \in 0 .. CutAt(v, room)
    PROVE  HasRead(t, i, v, room, at, m)
<1> DEFINE F == Reading(t, i, room)
           C == CutAt(v, room)
           r == F[<<i + 1, 0>>]
           Turned(n) == /\ at[n] \in i + 1 .. Len(t) + 2
                        /\ r.value = SubSeq(v, 1, n) \o F[<<at[n], n>>].value
                        /\ r.next = F[<<at[n], n>>].next
           S == {n \in Nat : n <= C => Turned(n)}
<1>0. C \in Nat /\ C <= Len(v) /\ C <= room - 1
  BY DEF CutAt
<1>1. \A n \in 0 .. C : at[n] \in 1 .. Len(t)
  BY <1>0
<1>2. ASSUME NEW n \in Nat, n < C
      PROVE  /\ t[at[n]] # Quote /\ CharAt(t, at[n]) = v[n + 1] /\ Behind(t, at[n]) = at[n + 1]
             /\ ~ReadOver(t, room, at[n], n)
  <2>0. n + 1 \in 1 .. Len(v) /\ (n + 1) - 1 = n /\ n \in 0 .. C /\ n # room - 1
    BY <1>0, <1>2
  <2>1. SpeltChar(t, at[(n + 1) - 1], at[n + 1], v[n + 1])
    BY <2>0 DEF Spells
  <2>2. SpeltChar(t, at[n], at[n + 1], v[n + 1])
    BY <2>0, <2>1
  <2>3. at[n] \in 1 .. Len(t)
    BY <1>1, <2>0
  <2> QED BY <2>0, <2>2, <2>3 DEF SpeltChar, ReadOver
<1>3. 0 \in S
  <2>1. at[0] = i + 1 /\ i + 1 \in i + 1 .. Len(t) + 2
    BY DEF Spells
  <2>2. 0 \in 0 .. room - 1
    OBVIOUS
  <2>3. ReadTurns(t, i, room, i + 1, 0)
    BY <2>1, <2>2, ReadTurn
  <2>4. r \in ReadResult(t)
    BY <2>3 DEF ReadTurns
  <2>5. r.value \in Seq(Char)
    BY <2>4 DEF ReadResult
  <2>6. SubSeq(v, 1, 0) = <<>>
    OBVIOUS
  <2>7. r.value = <<>> \o r.value
    BY <2>5
  <2> QED BY <2>1, <2>6, <2>7
<1>4. ASSUME NEW n \in S
      PROVE  n + 1 \in S
  <2> SUFFICES ASSUME n + 1 <= C
               PROVE  Turned(n + 1)
    <3> HIDE DEF Turned, C
    <3> QED OBVIOUS
  <2>0. n \in Nat /\ n < C /\ n \in 0 .. room - 1 /\ n < Len(v)
    BY <1>0
  <2>1. Turned(n)
    <3> HIDE DEF Turned, C
    <3>1. n <= C
      BY <1>0, <2>0
    <3> QED BY <3>1
  <2> DEFINE p == at[n]
  <2>2. ReadTurns(t, i, room, p, n)
    BY <2>0, <2>1, ReadTurn
  <2>3. ~ReadOver(t, room, p, n) /\ CharAt(t, p) = v[n + 1] /\ Behind(t, p) = at[n + 1]
    BY <1>2, <2>0
  <2>4. /\ at[n + 1] \in i + 1 .. Len(t) + 2 /\ <<at[n + 1], n + 1>> \in ReadAt(t, i, room)
        /\ F[<<p, n>>].value = <<v[n + 1]>> \o F[<<at[n + 1], n + 1>>].value
        /\ F[<<p, n>>].next = F[<<at[n + 1], n + 1>>].next
    BY <2>2, <2>3 DEF ReadTurns
  <2> DEFINE s == F[<<at[n + 1], n + 1>>].value
  <2>5. s \in Seq(Char)
    <3>1. F[<<at[n + 1], n + 1>>] \in ReadResult(t)
      BY <2>4, ReadingHolds
    <3> QED BY <3>1 DEF ReadResult
  <2>6. SubSeq(v, 1, n) \o (<<v[n + 1]>> \o s) = SubSeq(v, 1, n + 1) \o s
    <3> HIDE DEF s
    <3>1. v \in Seq(Char)
      OBVIOUS
    <3>2. Moved(v, n, s)
      BY <2>0, <2>5, <3>1, OneMore
    <3> QED BY <3>2 DEF Moved
  <2> QED BY <2>1, <2>4, <2>6
<1>5. Turned(m)
  <2>1. S \subseteq Nat
    OBVIOUS
  <2> HIDE DEF S
  <2>2. \A n \in Nat : n \in S
    BY <1>3, <1>4, <2>1, AllNumbers
  <2>3. m \in S /\ m <= C
    BY <2>2, <1>0
  <2> QED BY <2>3 DEF S
<1> QED BY <1>5 DEF HasRead

(* What a text spells is read, as far as there is room for it.             *)
LEMMA SpeltIsRead ==
    ASSUME NEW t \in Seq(Char), NEW v \in Seq(Char), NEW i \in 1 .. Len(t), NEW e \in 1 .. Len(t),
           Spelt(t, i, v, e), NEW room \in Nat \ {0}
    PROVE  /\ json_read_string(t, i, room).value = Cut(v, room)
           /\ Len(v) < room => json_read_string(t, i, room).next = e + 1
<1> DEFINE F == Reading(t, i, room)
           m == CutAt(v, room)
           r == F[<<i + 1, 0>>]
<1>1. PICK at \in [0 .. Len(v) -> 1 .. Len(t)] : Spells(t, i, v, e, at)
  BY DEF Spelt
<1>2. m \in 0 .. m /\ m \in 0 .. Len(v) /\ m \in 0 .. room - 1 /\ m \in Nat
  BY DEF CutAt
<1>3. /\ at[m] \in i + 1 .. Len(t) + 2
      /\ r.value = SubSeq(v, 1, m) \o F[<<at[m], m>>].value
      /\ r.next = F[<<at[m], m>>].next
  <2>1. HasRead(t, i, v, room, at, m)
    BY <1>1, <1>2, ReadSoFar
  <2> QED BY <2>1 DEF HasRead
<1>4. ReadTurns(t, i, room, at[m], m)
  BY <1>2, <1>3, ReadTurn
<1>5. Len(v) < room => at[m] = e /\ t[at[m]] = Quote
  BY <1>1 DEF CutAt, Spells
<1>6. ReadOver(t, room, at[m], m)
  BY <1>5 DEF ReadOver, CutAt
<1>7. F[<<at[m], m>>] = [value |-> <<>>, next |-> Stood(t, at[m])]
  BY <1>4, <1>6 DEF ReadTurns
<1>8. SubSeq(v, 1, m) \in Seq(Char) /\ SubSeq(v, 1, m) = Cut(v, room)
  BY <1>2 DEF CutAt, Cut
<1>9. r.value = Cut(v, room)
  BY <1>3, <1>7, <1>8
<1>10. Len(v) < room => r.next = e + 1
  <2> SUFFICES ASSUME Len(v) < room
               PROVE  r.next = e + 1
    OBVIOUS
  <2>1. Stood(t, at[m]) = e + 1
    BY <1>5 DEF Stood
  <2> HIDE DEF F, m
  <2> QED BY <1>3, <1>7, <2>1
<1> QED BY <1>9, <1>10, ReadStringIs

(* A quote within a value follows a backslash.                             *)
LEMMA SpeltQuotes ==
    ASSUME NEW t \in Seq(Char), NEW v \in Seq(Char), NEW i \in 1 .. Len(t), NEW e \in 1 .. Len(t),
           Spelt(t, i, v, e), NEW q \in i .. e, t[q] = Quote
    PROVE  q = i \/ q = e \/ (q - 1 \in 1 .. Len(t) /\ t[q - 1] = Slash)
<1> SUFFICES ASSUME q # i, q # e
             PROVE  q - 1 \in 1 .. Len(t) /\ t[q - 1] = Slash
  OBVIOUS
<1>1. PICK at \in [0 .. Len(v) -> 1 .. Len(t)] : Spells(t, i, v, e, at)
  BY DEF Spelt
<1>2. at[0] = i + 1 /\ at[Len(v)] = e /\ Len(v) \in Nat
  BY <1>1 DEF Spells
<1>3. q \in Nat /\ i + 1 <= q /\ q < e
  OBVIOUS
<1>4. Len(v) # 0
  BY <1>2, <1>3
<1> DEFINE S == {k \in 1 .. Len(v) : q < at[k]}
<1>5. Len(v) \in S
  BY <1>2, <1>3, <1>4
<1>6. PICK k \in S : \A j \in S : k <= j
  <2>1. S \subseteq Nat /\ S # {}
    BY <1>5
  <2> HIDE DEF S
  <2> QED BY <2>1, LeastIs
<1>7. k \in 1 .. Len(v) /\ k - 1 \in 0 .. Len(v) /\ q < at[k] /\ at[k] \in 1 .. Len(t) /\ at[k - 1] \in 1 .. Len(t)
  OBVIOUS
<1>8. at[k - 1] <= q
  <2>1. CASE k = 1
    BY <2>1, <1>2, <1>3
  <2>2. CASE k # 1
    <3>1. k - 1 \in 1 .. Len(v) /\ ~(k <= k - 1)
      BY <1>7, <2>2
    <3>2. k - 1 \notin S
      BY <1>6, <3>1
    <3> QED BY <3>1, <3>2, <1>3, <1>7
  <2> QED BY <2>1, <2>2
<1> DEFINE p == at[k - 1]
<1>9. SpeltChar(t, p, at[k], v[k])
  BY <1>1, <1>7 DEF Spells
<1>10. q # p
  BY <1>9 DEF SpeltChar
<1>11. TwoChars(t, p) /\ q = p + 1
  <2>1. p \in 1 .. Len(t) /\ at[k] = IF TwoChars(t, p) THEN p + 2 ELSE p + 1
    BY <1>9 DEF SpeltChar, Behind
  <2> HIDE DEF p
  <2> QED BY <2>1, <1>7, <1>8, <1>10, <1>3 DEF p
<1> QED BY <1>11, <1>7 DEF TwoChars

LEMMA SpeltGoesOn ==
    ASSUME NEW t \in Seq(Char), NEW v \in Seq(Char), NEW i \in 1 .. Len(t), NEW e \in 1 .. Len(t),
           Spelt(t, i, v, e)
    PROVE  i < e /\ t[i] = Quote /\ t[e] = Quote
<1>1. PICK at \in [0 .. Len(v) -> 1 .. Len(t)] : Spells(t, i, v, e, at)
  BY DEF Spelt
<1> DEFINE S == {n \in Nat : n <= Len(v) => at[n] > i}
<1>2. at[0] = i + 1 /\ at[Len(v)] = e /\ Len(v) \in Nat /\ t[i] = Quote /\ t[e] = Quote
  BY <1>1 DEF Spells
<1>3. 0 \in S
  BY <1>2
<1>4. ASSUME NEW n \in S
      PROVE  n + 1 \in S
  <2> SUFFICES ASSUME n + 1 <= Len(v)
               PROVE  at[n + 1] > i
    OBVIOUS
  <2>1. n \in Nat /\ n <= Len(v) /\ n + 1 \in 1 .. Len(v) /\ (n + 1) - 1 = n /\ at[n] > i
    OBVIOUS
  <2>2. SpeltChar(t, at[(n + 1) - 1], at[n + 1], v[n + 1])
    BY <2>1, <1>1 DEF Spells
  <2>3. SpeltChar(t, at[n], at[n + 1], v[n + 1])
    BY <2>1, <2>2
  <2>4. at[n] \in 1 .. Len(t) /\ at[n + 1] \in at[n] + 1 .. Len(t)
    BY <2>3 DEF SpeltChar
  <2> QED BY <2>1, <2>4
<1>5. Len(v) \in S
  <2>1. S \subseteq Nat
    OBVIOUS
  <2> HIDE DEF S
  <2> QED BY <1>2, <1>3, <1>4, <2>1, AllNumbers
<1> QED BY <1>2, <1>5

(***************************************************************************)
(* A part of a text that spells a value wherever it stands.                *)
(***************************************************************************)
SpellsOut(part, v) ==
    \A t \in Seq(Char) : \A p \in Nat : Stands(t, p, part) => Spelt(t, p + 1, v, p + Len(part))

LEMMA EscapedIs ==
    ASSUME NEW ch \in Char
    PROVE  /\ Escaped(ch) \in Seq(Char)
           /\ \/ ch \notin {Quote, Slash} /\ Escaped(ch) = <<ch>>
              \/ \E c \in Char : Escaped(ch) = <<Slash, c>> /\ Unescaped(c) = ch
<1>1. Quote # "n" /\ Slash # "n" /\ "LF" # Quote /\ "LF" # Slash
  BY Zenon DEF Quote, Slash
<1>2. CASE ch = Quote \/ ch = Slash
  <2>0. ch \in {Quote, Slash} /\ ch # "LF"
    BY <1>1, <1>2
  <2>1. Escaped(ch) = <<Slash, ch>>
    BY <2>0 DEF Escaped
  <2>2. Unescaped(ch) = ch
    BY <1>1, <1>2 DEF Unescaped
  <2> QED BY <2>1, <2>2, CharsAre
<1>3. CASE ~(ch = Quote \/ ch = Slash) /\ ch = "LF"
  <2>1. Escaped(ch) = <<Slash, "n">>
    BY <1>3 DEF Escaped
  <2>2. Unescaped("n") = ch
    BY <1>3 DEF Unescaped
  <2> QED BY <2>1, <2>2, CharsAre
<1>4. CASE ~(ch = Quote \/ ch = Slash) /\ ch # "LF"
  <2>1. Escaped(ch) = <<ch>>
    BY <1>4 DEF Escaped
  <2> QED BY <2>1, <1>4
<1> QED BY <1>2, <1>3, <1>4

(* A character as it is, and one with a backslash.                         *)
LEMMA OneSpelt ==
    ASSUME NEW t \in Seq(Char), NEW p \in 1 .. Len(t) - 1, NEW ch \in Char,
           ch \notin {Quote, Slash}, t[p] = ch
    PROVE  SpeltChar(t, p, p + 1, ch)
<1>1. p \in 1 .. Len(t) /\ p + 1 \in p + 1 .. Len(t)
  OBVIOUS
<1>2. ~TwoChars(t, p)
  BY DEF TwoChars
<1> QED BY <1>1, <1>2 DEF SpeltChar, CharAt, Behind

LEMMA TwoSpelt ==
    ASSUME NEW t \in Seq(Char), NEW p \in 1 .. Len(t) - 2, NEW ch \in Char,
           t[p] = Slash, Unescaped(t[p + 1]) = ch
    PROVE  SpeltChar(t, p, p + 2, ch)
<1>1. p \in 1 .. Len(t) /\ p + 2 \in p + 1 .. Len(t) /\ p < Len(t)
  OBVIOUS
<1>2. TwoChars(t, p)
  BY <1>1 DEF TwoChars
<1>3. Slash # Quote
  BY Zenon DEF Slash, Quote
<1> QED BY <1>1, <1>2, <1>3 DEF SpeltChar, CharAt, Behind

LEMMA QuotesAround ==
    ASSUME NEW s \in Seq(Char)
    PROVE  LET w == <<Quote>> \o s \o <<Quote>>
           IN  /\ w \in Seq(Char) /\ Len(w) = Len(s) + 2 /\ Len(s) \in Nat
               /\ w[1] = Quote /\ w[Len(s) + 2] = Quote /\ Stands(w, 1, s)
<1> DEFINE w == <<Quote>> \o s \o <<Quote>>
<1>1. <<Quote>> \in Seq(Char) /\ Len(<<Quote>>) = 1
  BY CharsAre
<1> DEFINE h == <<Quote>> \o s
<1>a. h \in Seq(Char) /\ Len(h) = 1 + Len(s) /\ Stands(h, 1, s)
  <2> DEFINE o == <<Quote>>
  <2>1. o \in Seq(Char) /\ Len(o) = 1
    BY <1>1
  <2> HIDE DEF o
  <2>2. /\ o \o s \in Seq(Char) /\ Len(o \o s) = Len(o) + Len(s) /\ Stands(o \o s, Len(o), s)
    BY <2>1, ConcatStands
  <2> QED BY <2>1, <2>2 DEF o
<1>b. h[1] = Quote
  OBVIOUS
<1>2. h \in Seq(Char) /\ Len(h) = 1 + Len(s) /\ Stands(h, 1, s) /\ h[1] = Quote
  BY <1>a, <1>b
<1>3. w = h \o <<Quote>>
  OBVIOUS
<1> HIDE DEF h, w
<1>4. w \in Seq(Char) /\ Len(w) = Len(h) + 1 /\ Stands(w, 0, h)
  <2> DEFINE o == <<Quote>>
  <2>1. o \in Seq(Char) /\ Len(o) = 1 /\ w = h \o o
    BY <1>1, <1>3
  <2> HIDE DEF o
  <2>2. h \o o \in Seq(Char) /\ Len(h \o o) = Len(h) + Len(o) /\ Stands(h \o o, 0, h)
    BY <1>2, <2>1, ConcatStands
  <2> QED BY <2>1, <2>2
<1>5. w[Len(h) + 1] = Quote /\ w[1] = h[1]
  BY <1>2, <1>3
<1>6. Len(s) \in Nat /\ 1 + Len(s) + 1 = Len(s) + 2
  OBVIOUS
<1>7. Stands(w, 0 + 1, s)
  BY <1>2, <1>4, StandsWithin
<1>8. /\ w \in Seq(Char) /\ Len(w) = Len(s) + 2 /\ Len(s) \in Nat
      /\ w[1] = Quote /\ w[Len(s) + 2] = Quote /\ Stands(w, 1, s)
  BY <1>2, <1>4, <1>5, <1>6, <1>7
<1> QED BY <1>8 DEF w

LEMMA WrittenSpells ==
    ASSUME NEW v \in Seq(Char)
    PROVE  Written(v) \in Seq(Char) /\ SpellsOut(Written(v), v)
<1> DEFINE ss == [k \in DOMAIN v |-> Escaped(v[k])]
           s == FlattenSeq(ss)
           w == <<Quote>> \o s \o <<Quote>>
<1>1. \A k \in 1 .. Len(v) : v[k] \in Char /\ Escaped(v[k]) \in Seq(Char)
  BY EscapedIs
<1>2. ss \in Seq(Seq(Char)) /\ Len(ss) = Len(v) /\ Len(v) \in Nat
  BY <1>1
<1>3. s \in Seq(Char) /\ \E at \in [0 .. Len(ss) -> Nat] : Lays(ss, at, s)
  <2> HIDE DEF ss
  <2> QED BY <1>2, FlattenLays
<1>4. PICK at \in [0 .. Len(ss) -> Nat] : Lays(ss, at, s)
  BY <1>3
<1>5. /\ w \in Seq(Char) /\ Len(w) = Len(s) + 2 /\ Len(s) \in Nat
      /\ w[1] = Quote /\ w[Len(s) + 2] = Quote /\ Stands(w, 1, s)
  <2> HIDE DEF s
  <2> QED BY <1>3, QuotesAround
<1>6. ASSUME NEW t \in Seq(Char), NEW p \in Nat, Stands(t, p, w)
      PROVE  Spelt(t, p + 1, v, p + Len(w))
  <2> HIDE DEF w, s
  <2>1. p + Len(w) <= Len(t) /\ Len(t) \in Nat
    BY <1>6 DEF Stands
  <2>2. t[p + 1] = Quote /\ t[p + Len(w)] = Quote
    <3>1. 1 \in 1 .. Len(w) /\ Len(w) \in 1 .. Len(w)
      BY <1>5
    <3> QED BY <3>1, <1>5, <1>6 DEF Stands
  <2>3. Stands(t, p + 1, s)
    BY <1>3, <1>5, <1>6, StandsWithin
  <2>4. \A k \in 0 .. Len(v) : at[k] \in Nat
    BY <1>2, <1>4
  <2>a. Len(ss) = Len(v) /\ \A k \in 1 .. Len(ss) : at[k] = at[k - 1] + Len(ss[k]) /\ Stands(s, at[k - 1], ss[k])
    BY <1>2, <1>4 DEF Lays
  <2>5. ASSUME NEW k \in 1 .. Len(v)
        PROVE  /\ at[k] \in Nat /\ at[k - 1] \in Nat /\ at[k] = at[k - 1] + Len(ss[k])
               /\ ss[k] = Escaped(v[k]) /\ v[k] \in Char /\ ss[k] \in Seq(Char)
               /\ Stands(t, p + 1 + at[k - 1], ss[k])
               /\ at[k - 1] + Len(ss[k]) <= Len(s)
    <3>1. at[k] \in Nat /\ at[k - 1] \in Nat /\ at[k] = at[k - 1] + Len(ss[k]) /\ Stands(s, at[k - 1], ss[k])
      <4>1. k \in 0 .. Len(v) /\ k - 1 \in 0 .. Len(v)
        BY <1>2
      <4>2. at[k] \in Nat /\ at[k - 1] \in Nat
        BY <2>4, <4>1
      <4> HIDE DEF ss
      <4> QED BY <4>2, <2>a
    <3>2. ss[k] = Escaped(v[k]) /\ v[k] \in Char /\ ss[k] \in Seq(Char)
      BY <1>1
    <3>3. at[k - 1] + Len(ss[k]) <= Len(s)
      BY <3>1 DEF Stands
    <3>4. p + 1 \in Nat
      OBVIOUS
    <3>5. Stands(t, p + 1 + at[k - 1], ss[k])
      <4> HIDE DEF ss
      <4> QED BY <1>3, <2>3, <3>1, <3>2, <3>4, StandsWithin
    <3> QED BY <3>1, <3>2, <3>3, <3>5
  <2> DEFINE from == [k \in 0 .. Len(v) |-> p + 2 + at[k]]
  <2>6. ASSUME NEW k \in 1 .. Len(v)
        PROVE  SpeltChar(t, p + 2 + at[k - 1], p + 2 + at[k], v[k])
    <3> DEFINE x == at[k - 1]
               q == p + 2 + x
               u == ss[k]
               ch == v[k]
    <3>1. /\ x \in Nat /\ at[k] = x + Len(u) /\ u = Escaped(ch) /\ ch \in Char /\ x + Len(u) <= Len(s)
          /\ Stands(t, p + 1 + x, u)
      BY <2>5
    <3>2. p + Len(s) + 2 <= Len(t) /\ Len(s) \in Nat
      BY <2>1, <1>5
    <3>3. CASE ch \notin {Quote, Slash} /\ u = <<ch>>
      <4>1. Len(u) = 1 /\ u[1] = ch /\ 1 \in 1 .. Len(u)
        BY <3>3
      <4>2. t[(p + 1 + x) + 1] = ch /\ (p + 1 + x) + 1 = q
        <5> HIDE DEF x, u, ch
        <5> QED BY <3>1, <4>1 DEF Stands
      <4>3. q \in 1 .. Len(t) - 1 /\ t[q] = ch /\ p + 2 + at[k] = q + 1
        <5> HIDE DEF x, u, ch
        <5> QED BY <3>1, <3>2, <4>1, <4>2, <2>1
      <4>4. SpeltChar(t, q, q + 1, ch)
        <5> HIDE DEF q, ch
        <5> QED BY <3>1, <3>3, <4>3, OneSpelt
      <4> QED BY <4>3, <4>4
    <3>4. CASE \E c \in Char : u = <<Slash, c>> /\ Unescaped(c) = ch
      <4>0. PICK c \in Char : u = <<Slash, c>> /\ Unescaped(c) = ch
        BY <3>4
      <4>1. Len(u) = 2 /\ u[1] = Slash /\ u[2] = c /\ 1 \in 1 .. Len(u) /\ 2 \in 1 .. Len(u)
        <5> HIDE DEF u, ch
        <5> QED BY <4>0
      <4>2. /\ t[(p + 1 + x) + 1] = Slash /\ (p + 1 + x) + 1 = q
            /\ t[(p + 1 + x) + 2] = c /\ (p + 1 + x) + 2 = q + 1
        <5> HIDE DEF x, u, ch
        <5> QED BY <3>1, <4>1 DEF Stands
      <4>3. q \in 1 .. Len(t) - 2 /\ t[q] = Slash /\ Unescaped(t[q + 1]) = ch /\ p + 2 + at[k] = q + 2
        <5> HIDE DEF x, u, ch
        <5> QED BY <3>1, <3>2, <4>0, <4>1, <4>2, <2>1
      <4>4. SpeltChar(t, q, q + 2, ch)
        <5> HIDE DEF q, ch
        <5> QED BY <3>1, <4>3, TwoSpelt
      <4> QED BY <4>3, <4>4
    <3> QED BY <3>1, <3>3, <3>4, EscapedIs
  <2>7. from \in [0 .. Len(v) -> 1 .. Len(t)]
    <3> SUFFICES ASSUME NEW k \in 0 .. Len(v)
                 PROVE  p + 2 + at[k] \in 1 .. Len(t)
      OBVIOUS
    <3>1. CASE k = 0
      <4>1. at[0] = 0
        BY <1>4 DEF Lays
      <4> QED BY <4>1, <3>1, <1>5, <2>1
    <3>2. CASE k # 0
      <4>1. SpeltChar(t, p + 2 + at[k - 1], p + 2 + at[k], v[k])
        BY <2>6, <3>2
      <4>2. p + 2 + at[k] <= Len(t) /\ at[k] \in Nat
        BY <4>1, <2>4, <2>5, <3>2 DEF SpeltChar
      <4> QED BY <4>2
    <3> QED BY <3>1, <3>2
  <2>8. at[0] = 0 /\ at[Len(v)] = Len(s)
    BY <1>2, <1>4 DEF Lays
  <2>9. Spells(t, p + 1, v, p + Len(w), from)
    <3>1. p + 1 \in 1 .. Len(t) /\ p + Len(w) \in 1 .. Len(t)
      BY <1>5, <2>1
    <3>2. from[0] = (p + 1) + 1 /\ from[Len(v)] = p + Len(w)
      <4>1. 0 \in 0 .. Len(v) /\ Len(v) \in 0 .. Len(v)
        BY <1>2
      <4>2. from[0] = p + 2 + at[0] /\ from[Len(v)] = p + 2 + at[Len(v)]
        BY <4>1
      <4> HIDE DEF from
      <4> QED BY <4>2, <2>8, <1>5
    <3>3. \A k \in 1 .. Len(v) : from[k - 1] = p + 2 + at[k - 1] /\ from[k] = p + 2 + at[k]
      OBVIOUS
    <3>4. \A k \in 1 .. Len(v) : SpeltChar(t, from[k - 1], from[k], v[k])
      BY <2>6, <3>3
    <3> HIDE DEF from
    <3> QED BY <3>1, <3>2, <3>4, <2>2, <2>7 DEF Spells
  <2> QED BY <2>7, <2>9 DEF Spelt
<1>7. Written(v) = w
  BY DEF Written
<1> QED BY <1>5, <1>6, <1>7 DEF SpellsOut

Raw(v) == <<Quote>> \o v \o <<Quote>>

(* A value without quotes and backslashes, as it is.                       *)
LEMMA RawSpells ==
    ASSUME NEW v \in Seq(Char), \A k \in DOMAIN v : v[k] \notin {Quote, Slash}
    PROVE  Raw(v) \in Seq(Char) /\ SpellsOut(Raw(v), v)
<1> DEFINE w == Raw(v)
<1>1. /\ w \in Seq(Char) /\ Len(w) = Len(v) + 2 /\ Len(v) \in Nat
      /\ w[1] = Quote /\ w[Len(v) + 2] = Quote /\ Stands(w, 1, v)
  BY QuotesAround DEF Raw
<1>2. ASSUME NEW t \in Seq(Char), NEW p \in Nat, Stands(t, p, w)
      PROVE  Spelt(t, p + 1, v, p + Len(w))
  <2> HIDE DEF w
  <2>1. p + Len(v) + 2 <= Len(t) /\ Len(t) \in Nat /\ p + Len(w) = p + Len(v) + 2
    BY <1>1, <1>2 DEF Stands
  <2>2. t[p + 1] = Quote /\ t[p + Len(w)] = Quote
    <3>1. 1 \in 1 .. Len(w) /\ Len(w) \in 1 .. Len(w)
      BY <1>1
    <3> QED BY <3>1, <1>1, <1>2 DEF Stands
  <2>3. Stands(t, p + 1, v)
    BY <1>1, <1>2, StandsWithin
  <2> DEFINE from == [k \in 0 .. Len(v) |-> p + 2 + k]
  <2>4. from \in [0 .. Len(v) -> 1 .. Len(t)]
    BY <1>1, <2>1
  <2>5. ASSUME NEW k \in 1 .. Len(v)
        PROVE  SpeltChar(t, from[k - 1], from[k], v[k])
    <3>0. from[k - 1] = p + k + 1 /\ from[k] = p + k + 2
      BY <1>1
    <3>1. v[k] \in Char /\ v[k] \notin {Quote, Slash}
      OBVIOUS
    <3>2. t[(p + 1) + k] = v[k]
      BY <2>3 DEF Stands
    <3>3. p + k + 1 \in 1 .. Len(t) - 1 /\ (p + 1) + k = p + k + 1 /\ (p + k + 1) + 1 = p + k + 2
      BY <2>1
    <3> DEFINE q == p + k + 1
    <3>4. q \in 1 .. Len(t) - 1 /\ t[q] = v[k] /\ q + 1 = p + k + 2
      BY <3>2, <3>3
    <3> HIDE DEF q
    <3>5. SpeltChar(t, q, q + 1, v[k])
      BY <3>1, <3>4, OneSpelt
    <3> QED BY <3>0, <3>4, <3>5 DEF q
  <2>6. Spells(t, p + 1, v, p + Len(w), from)
    <3>1. p + 1 \in 1 .. Len(t) /\ p + Len(w) \in 1 .. Len(t)
      BY <1>1, <2>1
    <3>2. from[0] = (p + 1) + 1 /\ from[Len(v)] = p + Len(w)
      BY <1>1
    <3> HIDE DEF from
    <3> QED BY <3>1, <3>2, <2>2, <2>4, <2>5 DEF Spells
  <2> HIDE DEF from
  <2> QED BY <2>4, <2>6 DEF Spelt
<1> HIDE DEF w
<1>3. SpellsOut(w, v)
  BY <1>2 DEF SpellsOut
<1> QED BY <1>1, <1>3 DEF w

(***************************************************************************)
(* A text lists values: each is spelt, and a comma follows it, or the      *)
(* bracket if it is the last.  at[n] is where the text is with the first n *)
(* of them done.                                                           *)
(***************************************************************************)
ListItem(t, p, q, v, last) ==
    \E z \in 1 .. Len(t) :
        /\ Spelt(t, p, v, z)
        /\ last => q = z + 1
        /\ ~last => q = z + 2 /\ t[z + 1] = Comma

Lists(t, i, vs, e, at) ==
    /\ at \in [0 .. Len(vs) -> 1 .. Len(t)]
    /\ i \in 1 .. Len(t) /\ e \in 1 .. Len(t)
    /\ at[0] = i + 1 /\ at[Len(vs)] = e
    /\ t[i] = LBracket /\ t[e] = RBracket
    /\ \A k \in 1 .. Len(vs) : ListItem(t, at[k - 1], at[k], vs[k], k = Len(vs))

ListedAt(t, i, vs, e) == \E at \in [0 .. Len(vs) -> 1 .. Len(t)] : Lists(t, i, vs, e, at)

SpellOut(parts, vs) ==
    /\ parts \in Seq(Seq(Char)) /\ vs \in Seq(Seq(Char)) /\ Len(parts) = Len(vs)
    /\ \A k \in 1 .. Len(vs) : SpellsOut(parts[k], vs[k])

Commas(parts) == [k \in DOMAIN parts |-> IF k = 1 THEN parts[k] ELSE <<Comma>> \o parts[k]]

(* The k-th part behind its comma.                                         *)
LEMMA CommasAre ==
    ASSUME NEW parts \in Seq(Seq(Char))
    PROVE  /\ Commas(parts) \in Seq(Seq(Char)) /\ Len(Commas(parts)) = Len(parts)
           /\ Listed(parts) = FlattenSeq(Commas(parts))
<1>1. ASSUME NEW k \in 1 .. Len(parts)
      PROVE  parts[k] \in Seq(Char) /\ <<Comma>> \o parts[k] \in Seq(Char)
  <2>1. parts[k] \in Seq(Char) /\ <<Comma>> \in Seq(Char)
    BY CharsAre
  <2> QED BY <2>1
<1> DEFINE c == [k \in 1 .. Len(parts) |-> IF k = 1 THEN parts[k] ELSE <<Comma>> \o parts[k]]
<1>a. DOMAIN parts = 1 .. Len(parts) /\ Len(parts) \in Nat
  OBVIOUS
<1>b. Commas(parts) = c
  BY <1>a DEF Commas
<1>c. c \in [1 .. Len(parts) -> Seq(Char)]
  BY <1>1
<1>d. DOMAIN c = 1 .. Len(parts)
  OBVIOUS
<1>2. Commas(parts) \in Seq(Seq(Char)) /\ Len(Commas(parts)) = Len(parts)
  <2> HIDE DEF c
  <2> QED BY <1>a, <1>b, <1>c, <1>d
<1>3. Listed(parts) = FlattenSeq(Commas(parts))
  BY DEF Listed, Commas
<1> QED BY <1>2, <1>3

CommaStands(parts, k, t, p) ==
    /\ k = 1 => Stands(t, p, parts[k]) /\ Len(Commas(parts)[k]) = Len(parts[k])
    /\ k # 1 => /\ Stands(t, p + 1, parts[k]) /\ Len(Commas(parts)[k]) = Len(parts[k]) + 1
                /\ t[p + 1] = Comma

LEMMA CommaIs ==
    ASSUME NEW parts \in Seq(Seq(Char)), NEW k \in 1 .. Len(parts), NEW t \in Seq(Char), NEW p \in Nat,
           Stands(t, p, Commas(parts)[k])
    PROVE  CommaStands(parts, k, t, p)
<1>1. parts[k] \in Seq(Char) /\ <<Comma>> \in Seq(Char) /\ Len(<<Comma>>) = 1
  BY CharsAre
<1>2. CASE k = 1
  BY <1>2 DEF Commas, CommaStands
<1>3. CASE k # 1
  <2> DEFINE o == <<Comma>>
             s == parts[k]
             w == o \o s
  <2>0. Commas(parts)[k] = w
    BY <1>3 DEF Commas
  <2>1. o \in Seq(Char) /\ s \in Seq(Char) /\ Len(o) = 1 /\ o[1] = Comma
    BY <1>1
  <2>a. w[1] = Comma
    <3> HIDE DEF s
    <3> QED BY <2>1
  <2> HIDE DEF o, s
  <2>2. w \in Seq(Char) /\ Len(w) = Len(o) + Len(s) /\ Stands(w, Len(o), s) /\ w[1] = Comma
    BY <2>1, <2>a, ConcatStands
  <2> HIDE DEF w
  <2>3. Stands(t, p, w)
    BY <2>0
  <2>4. Stands(t, p + 1, s)
    BY <2>1, <2>2, <2>3, StandsWithin
  <2>5. t[p + 1] = Comma
    <3>1. 1 \in 1 .. Len(w)
      BY <2>1, <2>2
    <3> QED BY <3>1, <2>2, <2>3 DEF Stands
  <2>6. Len(w) = Len(s) + 1
    BY <2>1, <2>2
  <2> QED BY <2>0, <2>4, <2>5, <2>6, <1>3 DEF s, CommaStands
<1> QED BY <1>2, <1>3

(* What is listed with commas between is a list, in its brackets.          *)
LEMMA ListSpells ==
    ASSUME NEW parts, NEW vs, SpellOut(parts, vs), NEW t \in Seq(Char), NEW p \in Nat,
           t[p + 1] = LBracket, Stands(t, p + 1, Listed(parts)),
           p + 2 + Len(Listed(parts)) <= Len(t), t[p + 2 + Len(Listed(parts))] = RBracket
    PROVE  Listed(parts) \in Seq(Char) /\ ListedAt(t, p + 1, vs, p + 2 + Len(Listed(parts)))
<1> DEFINE ss == Commas(parts)
           s == Listed(parts)
           N == Len(vs)
           e == p + 2 + Len(s)
<1>0. /\ parts \in Seq(Seq(Char)) /\ vs \in Seq(Seq(Char)) /\ Len(parts) = N /\ N \in Nat
      /\ \A k \in 1 .. N : SpellsOut(parts[k], vs[k])
  BY DEF SpellOut
<1>1. ss \in Seq(Seq(Char)) /\ Len(ss) = N /\ s = FlattenSeq(ss)
  BY <1>0, CommasAre
<1>2. s \in Seq(Char) /\ \E at \in [0 .. N -> Nat] : Lays(ss, at, s)
  <2> HIDE DEF ss
  <2> QED BY <1>1, FlattenLays
<1>3. PICK at \in [0 .. N -> Nat] : Lays(ss, at, s)
  BY <1>2
<1> HIDE DEF ss, s, N
<1>4. at[0] = 0 /\ at[N] = Len(s) /\ \A k \in 1 .. N : at[k] = at[k - 1] + Len(ss[k]) /\ Stands(s, at[k - 1], ss[k])
  BY <1>1, <1>3 DEF Lays
<1>5. Len(s) \in Nat /\ Len(t) \in Nat /\ e <= Len(t) /\ e \in 1 .. Len(t) /\ p + 1 \in 1 .. Len(t)
      /\ t[e] = RBracket /\ t[p + 1] = LBracket /\ Stands(t, p + 1, s)
  BY <1>2 DEF s
<1>6. \A k \in 0 .. N : at[k] \in Nat
  OBVIOUS
(* The k-th part in the text.                                              *)
<1>7. ASSUME NEW k \in 1 .. N
      PROVE  /\ at[k - 1] \in Nat /\ at[k] \in Nat /\ at[k] = at[k - 1] + Len(ss[k])
             /\ ss[k] \in Seq(Char) /\ Stands(t, p + 1 + at[k - 1], ss[k]) /\ at[k] <= Len(s)
  <2>1. k - 1 \in 0 .. N /\ k \in 0 .. N
    BY <1>0
  <2>2. at[k - 1] \in Nat /\ at[k] \in Nat /\ at[k] = at[k - 1] + Len(ss[k]) /\ Stands(s, at[k - 1], ss[k])
    BY <2>1, <1>4, <1>6
  <2>3. ss[k] \in Seq(Char)
    BY <1>1
  <2>4. Stands(t, (p + 1) + at[k - 1], ss[k])
    <3>1. p + 1 \in Nat
      OBVIOUS
    <3> QED BY <3>1, <2>2, <2>3, <1>2, <1>5, StandsWithin
  <2>5. at[k] <= Len(s)
    BY <2>2 DEF Stands
  <2> QED BY <2>2, <2>3, <2>4, <2>5
<1> DEFINE At(k) == p + at[k] + (IF k = 0 \/ k = N THEN 2 ELSE 3)
           from == [k \in 0 .. N |-> IF k = 0 THEN p + 2 ELSE IF k = N THEN p + 2 + at[k] ELSE p + 3 + at[k]]
<1>8. ASSUME NEW k \in 0 .. N
      PROVE  from[k] \in 1 .. Len(t)
  <2>1. CASE k = 0
    BY <2>1, <1>5
  <2>2. CASE k # 0 /\ k = N
    <3>1. from[k] = p + 2 + at[k] /\ at[k] = Len(s)
      BY <2>2, <1>4
    <3> HIDE DEF from
    <3> QED BY <3>1, <1>5
  <2>3. CASE k # 0 /\ k # N
    <3>1. k + 1 \in 1 .. N /\ (k + 1) - 1 = k /\ k + 1 # 1
      BY <2>3, <1>0
    <3>2. at[k] \in Nat /\ at[k + 1] = at[k] + Len(ss[k + 1]) /\ at[k + 1] <= Len(s)
      BY <3>1, <1>7
    <3>3. Len(ss[k + 1]) > 0
      <4>0. k + 1 \in DOMAIN parts
        BY <3>1, <1>0
      <4>1. ss[k + 1] = <<Comma>> \o parts[k + 1]
        BY <4>0, <3>1 DEF ss, Commas
      <4>2. parts[k + 1] \in Seq(Char) /\ <<Comma>> \in Seq(Char)
        BY <3>1, <1>0, CharsAre
      <4> QED BY <4>1, <4>2
    <3>4. from[k] = p + 3 + at[k]
      BY <2>3
    <3>5. Len(ss[k + 1]) \in Nat
      BY <3>1, <1>7
    <3> HIDE DEF from
    <3> QED BY <3>2, <3>3, <3>4, <3>5, <1>5
  <2> QED BY <2>1, <2>2, <2>3
<1>9. ASSUME NEW k \in 1 .. N
      PROVE  /\ Spelt(t, from[k - 1], vs[k], p + 1 + at[k]) /\ p + 1 + at[k] \in 1 .. Len(t)
  <2> DEFINE x == at[k - 1]
             u == parts[k]
  <2>1. x \in Nat /\ at[k] \in Nat /\ at[k] = x + Len(ss[k]) /\ Stands(t, p + 1 + x, ss[k]) /\ at[k] <= Len(s)
    BY <1>7
  <2>2. p + 1 + x \in Nat
    BY <2>1
  <2>3. p + 1 + at[k] \in 1 .. Len(t)
    <3> DEFINE m == at[k]
    <3>1. m \in Nat /\ m <= Len(s) /\ Len(s) \in Nat /\ p + 2 + Len(s) <= Len(t) /\ Len(t) \in Nat
      BY <2>1, <1>5
    <3> HIDE DEF m
    <3>2. p + 1 + m \in 1 .. Len(t)
      BY <3>1
    <3> QED BY <3>2 DEF m
  <2>4. /\ k = 1 => Stands(t, p + 1 + x, u) /\ Len(ss[k]) = Len(u)
        /\ k # 1 => Stands(t, (p + 1 + x) + 1, u) /\ Len(ss[k]) = Len(u) + 1
    <3> DEFINE y == p + 1 + x
    <3>1. y \in Nat /\ Stands(t, y, Commas(parts)[k]) /\ k \in 1 .. Len(parts)
      BY <2>1, <2>2, <1>0 DEF ss
    <3> HIDE DEF y
    <3>2. /\ k = 1 => Stands(t, y, parts[k]) /\ Len(Commas(parts)[k]) = Len(parts[k])
          /\ k # 1 => Stands(t, y + 1, parts[k]) /\ Len(Commas(parts)[k]) = Len(parts[k]) + 1
      <4>1. CommaStands(parts, k, t, y)
        BY <3>1, <1>0, CommaIs
      <4> QED BY <4>1 DEF CommaStands
    <3> QED BY <3>2 DEF y, ss
  <2>5. SpellsOut(u, vs[k])
    BY <1>0
  <2>6. Len(u) \in Nat
    BY <1>0
  <2>7. CASE k = 1
    <3>1. x = 0 /\ from[k - 1] = p + 2
      BY <2>7, <1>4, <1>0
    <3>2. Spelt(t, (p + 1 + x) + 1, vs[k], (p + 1 + x) + Len(u))
      BY <2>2, <2>4, <2>5, <2>7 DEF SpellsOut
    <3>3. (p + 1 + x) + 1 = p + 2 /\ (p + 1 + x) + Len(u) = p + 1 + at[k]
      <4> DEFINE l == Len(u)
                 a1 == at[k]
      <4>1. x = 0 /\ a1 = x + l /\ l \in Nat
        BY <3>1, <2>1, <2>4, <2>6, <2>7
      <4> HIDE DEF x, l, a1
      <4>2. (p + 1 + x) + 1 = p + 2 /\ (p + 1 + x) + l = p + 1 + a1
        BY <4>1
      <4> QED BY <4>2 DEF l, a1
    <3> QED BY <3>1, <3>2, <3>3, <2>3
  <2>8. CASE k # 1
    <3>1. from[k - 1] = p + 3 + x
      BY <2>8, <1>0
    <3> DEFINE y == (p + 1 + x) + 1
    <3>2. y \in Nat /\ Stands(t, y, u)
      BY <2>1, <2>4, <2>8
    <3>3. y + 1 = p + 3 + x /\ y + Len(u) = p + 1 + at[k]
      <4> DEFINE l == Len(u)
                 a1 == at[k]
      <4>1. x \in Nat /\ a1 = x + (l + 1) /\ l \in Nat
        BY <2>1, <2>4, <2>6, <2>8
      <4> HIDE DEF x, l, a1
      <4>2. y + 1 = p + 3 + x /\ y + l = p + 1 + a1
        BY <4>1
      <4> QED BY <4>2 DEF l, a1
    <3> HIDE DEF y
    <3>4. Spelt(t, y + 1, vs[k], y + Len(u))
      BY <3>2, <2>5 DEF SpellsOut
    <3> QED BY <3>1, <3>3, <3>4, <2>3
  <2> QED BY <2>7, <2>8
<1>10. ASSUME NEW k \in 1 .. N
       PROVE  ListItem(t, from[k - 1], from[k], vs[k], k = N)
  <2> DEFINE z == p + 1 + at[k]
  <2>0. z \in 1 .. Len(t) /\ Spelt(t, from[k - 1], vs[k], z) /\ at[k] \in Nat
    BY <1>7, <1>9
  <2>1. CASE k = N
    <3>1. from[k] = p + 2 + at[k]
      BY <2>1
    <3>2. from[k] = z + 1
      <4> DEFINE m == at[k]
      <4>1. from[k] = p + 2 + m /\ m \in Nat /\ z = p + 1 + m
        BY <3>1, <2>0
      <4> HIDE DEF from, m, z
      <4> QED BY <4>1
    <3> HIDE DEF from, z
    <3> QED BY <2>0, <2>1, <3>2 DEF ListItem
  <2>2. CASE k # N
    <3>1. from[k] = p + 3 + at[k]
      BY <2>2
    <3>2. from[k] = z + 2
      <4> HIDE DEF from
      <4> QED BY <3>1, <2>0
    <3>3. k + 1 \in 1 .. N /\ (k + 1) - 1 = k /\ k + 1 # 1
      BY <2>2, <1>0
    <3>4. Stands(t, p + 1 + at[k], ss[k + 1])
      BY <3>3, <1>7
    <3>5. t[z + 1] = Comma
      <4>1. z \in Nat /\ Stands(t, z, Commas(parts)[k + 1]) /\ k + 1 \in 1 .. Len(parts)
        BY <2>0, <3>3, <3>4, <1>0 DEF ss
      <4> HIDE DEF z
      <4>2. CommaStands(parts, k + 1, t, z)
        BY <4>1, <1>0, CommaIs
      <4> QED BY <4>2, <3>3 DEF CommaStands
    <3> HIDE DEF from, z
    <3> QED BY <2>0, <2>2, <3>2, <3>5 DEF ListItem
  <2> QED BY <2>1, <2>2
<1>11. Lists(t, p + 1, vs, e, from)
  <2>1. from \in [0 .. N -> 1 .. Len(t)]
    <3> QED BY <1>8
  <2>2. from[0] = (p + 1) + 1
    BY <1>0
  <2>3. from[N] = e
    <3>1. from[N] = IF N = 0 THEN p + 2 ELSE p + 2 + at[N]
      BY <1>0
    <3> HIDE DEF from
    <3> QED BY <3>1, <1>4, <1>5
  <2> HIDE DEF from, e
  <2> QED BY <2>1, <2>2, <2>3, <1>5, <1>10 DEF Lists, N, e
<1>12. from \in [0 .. Len(vs) -> 1 .. Len(t)]
  BY <1>11 DEF Lists
<1> HIDE DEF from
<1>13. ListedAt(t, p + 1, vs, e)
  BY <1>11, <1>12 DEF ListedAt
<1> QED BY <1>2, <1>13 DEF s

LEMMA CharsDiffer ==
    /\ Quote # Slash /\ Quote # Colon /\ Quote # Comma /\ Quote # LBracket
       /\ Quote # RBracket /\ Quote # LBrace /\ Quote # RBrace /\ Quote # "n"
       /\ Quote # "v" /\ Quote # "d"
    /\ Slash # Colon /\ Slash # Comma /\ Slash # LBracket /\ Slash # RBracket
       /\ Slash # LBrace /\ Slash # RBrace /\ Slash # "n" /\ Slash # "v" /\ Slash # "d"
    /\ Colon # Comma /\ Colon # LBracket /\ Colon # RBracket /\ Colon # LBrace
       /\ Colon # RBrace /\ Colon # "n" /\ Colon # "v" /\ Colon # "d"
    /\ Comma # LBracket /\ Comma # RBracket /\ Comma # LBrace /\ Comma # RBrace
       /\ Comma # "n" /\ Comma # "v" /\ Comma # "d"
    /\ LBracket # RBracket /\ LBracket # LBrace /\ LBracket # RBrace /\ LBracket # "n"
       /\ LBracket # "v" /\ LBracket # "d"
    /\ RBracket # LBrace /\ RBracket # RBrace /\ RBracket # "n" /\ RBracket # "v"
       /\ RBracket # "d"
    /\ LBrace # RBrace /\ LBrace # "n" /\ LBrace # "v" /\ LBrace # "d"
    /\ RBrace # "n" /\ RBrace # "v" /\ RBrace # "d"
    /\ "n" # "v" /\ "n" # "d"
    /\ "v" # "d"
  BY Zenon DEF Quote, Slash, Colon, Comma, LBracket, RBracket, LBrace, RBrace

Packages == [name : Seq(Char), version : Seq(Char), deps : Seq(Seq(Char))]

Keys == {"n", "v", "d"}

(***************************************************************************)
(* A text has an entry, from its first quote to the end of its value.      *)
(***************************************************************************)
EntryAt(t, i, p, key, e) ==
    /\ i \in 1 .. Len(t) /\ e \in i + 4 .. Len(t)
    /\ t[i] = Quote /\ t[i + 1] = key /\ t[i + 2] = Quote /\ t[i + 3] = Colon
    /\ key = "n" => Spelt(t, i + 4, p.name, e)
    /\ key = "v" => Spelt(t, i + 4, p.version, e)
    /\ key = "d" => ListedAt(t, i + 4, p.deps, e)

DepParts(p) == [k \in DOMAIN p.deps |-> IF p.deps[k] = Number THEN <<"1">> ELSE Written(p.deps[k])]

LEMMA ListedIsText ==
    ASSUME NEW parts \in Seq(Seq(Char))
    PROVE  Listed(parts) \in Seq(Char)
<1>1. Commas(parts) \in Seq(Seq(Char)) /\ Listed(parts) = FlattenSeq(Commas(parts))
  BY CommasAre
<1> QED BY <1>1, FlattenLays

LEMMA BracketsAround ==
    ASSUME NEW s \in Seq(Char)
    PROVE  LET w == <<LBracket>> \o s \o <<RBracket>>
           IN  /\ w \in Seq(Char) /\ Len(w) = Len(s) + 2 /\ Len(s) \in Nat
               /\ w[1] = LBracket /\ w[Len(s) + 2] = RBracket /\ Stands(w, 1, s)
<1> DEFINE o == <<LBracket>>
           c == <<RBracket>>
           h == o \o s
           w == h \o c
<1>1. o \in Seq(Char) /\ Len(o) = 1 /\ c \in Seq(Char) /\ Len(c) = 1
  BY CharsAre
<1>2. h[1] = LBracket
  OBVIOUS
<1>3. c[1] = RBracket
  OBVIOUS
<1> HIDE DEF o, c
<1>4. h \in Seq(Char) /\ Len(h) = 1 + Len(s) /\ Stands(h, 1, s)
  <2>1. o \o s \in Seq(Char) /\ Len(o \o s) = Len(o) + Len(s) /\ Stands(o \o s, Len(o), s)
    BY <1>1, ConcatStands
  <2> QED BY <2>1, <1>1
<1> HIDE DEF h
<1>5. w \in Seq(Char) /\ Len(w) = Len(h) + 1 /\ Stands(w, 0, h) /\ Stands(w, Len(h), c)
  <2>1. h \in Seq(Char) /\ c \in Seq(Char) /\ Len(c) = 1
    BY <1>1, <1>4
  <2>2. w \in Seq(Char) /\ Len(w) = Len(h) + Len(c) /\ Stands(w, 0, h) /\ Stands(w, Len(h), c)
    BY <2>1, ConcatStands
  <2> HIDE DEF w
  <2> QED BY <2>1, <2>2
<1>6. Len(s) \in Nat /\ Len(h) \in Nat
  BY <1>4
<1>7. w[1] = LBracket /\ w[Len(s) + 2] = RBracket
  <2>1. w[0 + 1] = h[1]
    BY <1>4, <1>5, <1>6 DEF Stands
  <2>2. w[Len(h) + 1] = c[1]
    BY <1>1, <1>5 DEF Stands
  <2>3. 0 + 1 = 1 /\ Len(h) + 1 = Len(s) + 2
    BY <1>4, <1>6
  <2> HIDE DEF w
  <2>4. w[1] = h[1]
    BY <2>1
  <2>5. w[Len(s) + 2] = c[1]
    BY <2>2, <2>3
  <2> QED BY <2>4, <2>5, <1>2, <1>3
<1>8. Stands(w, 0 + 1, s)
  BY <1>4, <1>5, StandsWithin
<1> HIDE DEF w
<1>9. /\ w \in Seq(Char) /\ Len(w) = Len(s) + 2 /\ Len(s) \in Nat
      /\ w[1] = LBracket /\ w[Len(s) + 2] = RBracket /\ Stands(w, 1, s)
  BY <1>4, <1>5, <1>6, <1>7, <1>8
<1> QED BY <1>9 DEF w, h, o, c

(* What stands for the value of a key.                                     *)
ValueText(p, key) ==
    CASE key = "n" -> Written(p.name)
      [] key = "v" -> Written(p.version)
      [] key = "d" -> <<LBracket>> \o Listed(DepParts(p)) \o <<RBracket>>

LEMMA DepPartsAre ==
    ASSUME NEW p, p.deps \in Seq({Number} \cup Seq(Char))
    PROVE  /\ DepParts(p) \in Seq(Seq(Char))
           /\ Fits(p) => p.deps \in Seq(Seq(Char)) /\ SpellOut(DepParts(p), p.deps)
<1> DEFINE q == p.deps
           parts == DepParts(p)
<1>0. q \in Seq({Number} \cup Seq(Char)) /\ DOMAIN q = 1 .. Len(q) /\ Len(q) \in Nat
  OBVIOUS
<1>1. ASSUME NEW k \in 1 .. Len(q)
      PROVE  (IF q[k] = Number THEN <<"1">> ELSE Written(q[k])) \in Seq(Char)
  <2>1. q[k] = Number \/ q[k] \in Seq(Char)
    BY <1>0
  <2>2. <<"1">> \in Seq(Char)
    BY CharsAre
  <2>3. q[k] \in Seq(Char) => Written(q[k]) \in Seq(Char)
    BY WrittenSpells
  <2> QED BY <2>1, <2>2, <2>3
<1>2. parts = [k \in 1 .. Len(q) |-> IF q[k] = Number THEN <<"1">> ELSE Written(q[k])]
  BY <1>0 DEF DepParts
<1>3. parts \in [1 .. Len(q) -> Seq(Char)] /\ DOMAIN parts = 1 .. Len(q)
  BY <1>1, <1>2
<1>4. parts \in Seq(Seq(Char)) /\ Len(parts) = Len(q)
  <2> HIDE DEF parts, q
  <2> QED BY <1>0, <1>3
<1>5. ASSUME Fits(p)
      PROVE  q \in Seq(Seq(Char)) /\ SpellOut(parts, q)
  <2>1. ASSUME NEW k \in 1 .. Len(q)
        PROVE  q[k] \in Seq(Char) /\ parts[k] = Written(q[k])
    <3>1. q[k] # Number
      BY <1>0, <1>5 DEF Fits
    <3>2. q[k] \in {Number} \cup Seq(Char)
      BY <1>0
    <3> QED BY <3>1, <3>2, <1>2
  <2> HIDE DEF q, parts
  <2>2. q \in Seq(Seq(Char))
    BY <1>0, <2>1
  <2>3. \A k \in 1 .. Len(q) : SpellsOut(parts[k], q[k])
    BY <2>1, WrittenSpells
  <2> QED BY <1>4, <2>2, <2>3 DEF SpellOut
<1> QED BY <1>4, <1>5

PackagesSaid == [name : Seq(Char), version : Seq(Char), deps : Seq({Number} \cup Seq(Char))]

LEMMA FourAre ==
    ASSUME NEW key \in Keys
    PROVE  /\ <<Quote, key, Quote, Colon>> \in Seq(Char) /\ Len(<<Quote, key, Quote, Colon>>) = 4
           /\ key \in Char
<1>1. key \in Char /\ Quote \in Char /\ Colon \in Char
  BY CharsAre DEF Keys
<1> QED BY <1>1

LEMMA ValueTextIs ==
    ASSUME NEW p \in PackagesSaid, NEW key \in Keys
    PROVE  /\ ValueText(p, key) \in Seq(Char)
           /\ Entry(p, key) = <<Quote, key, Quote, Colon>> \o ValueText(p, key)
           /\ key = "n" => ValueText(p, key) = Written(p.name)
           /\ key = "v" => ValueText(p, key) = Written(p.version)
           /\ key = "d" => ValueText(p, key) = <<LBracket>> \o Listed(DepParts(p)) \o <<RBracket>>
<1>0. key = "n" \/ key = "v" \/ key = "d"
  BY DEF Keys
<1>1. /\ key = "n" => ValueText(p, key) = Written(p.name)
      /\ key = "v" => ValueText(p, key) = Written(p.version)
      /\ key = "d" => ValueText(p, key) = <<LBracket>> \o Listed(DepParts(p)) \o <<RBracket>>
  BY DEF ValueText
<1>2. Entry(p, key) = <<Quote, key, Quote, Colon>> \o ValueText(p, key)
  BY DEF Entry, ValueText, DepParts
<1>3. Written(p.name) \in Seq(Char) /\ Written(p.version) \in Seq(Char)
  BY WrittenSpells DEF PackagesSaid
<1>4. <<LBracket>> \o Listed(DepParts(p)) \o <<RBracket>> \in Seq(Char)
  <2>1. DepParts(p) \in Seq(Seq(Char))
    BY DepPartsAre DEF PackagesSaid
  <2>2. Listed(DepParts(p)) \in Seq(Char)
    BY <2>1, ListedIsText
  <2> QED BY <2>2, BracketsAround
<1> QED BY <1>0, <1>1, <1>2, <1>3, <1>4

LEMMA EntryIsText ==
    ASSUME NEW p \in PackagesSaid, NEW key \in Keys
    PROVE  Entry(p, key) \in Seq(Char)
<1> DEFINE h == <<Quote, key, Quote, Colon>>
           s == ValueText(p, key)
<1>1. h \in Seq(Char) /\ s \in Seq(Char) /\ Entry(p, key) = h \o s
  BY ValueTextIs, FourAre
<1> HIDE DEF h, s
<1> QED BY <1>1

(* Four characters and a value make an entry.                              *)
LEMMA EntryStands ==
    ASSUME NEW p \in PackagesSaid, Fits(p), NEW key \in Keys, NEW t \in Seq(Char), NEW x \in Nat,
           Stands(t, x, Entry(p, key))
    PROVE  EntryAt(t, x + 1, p, key, x + Len(Entry(p, key)))
<1> DEFINE h == <<Quote, key, Quote, Colon>>
           s == ValueText(p, key)
           w == Entry(p, key)
<1>1. h \in Seq(Char) /\ Len(h) = 4 /\ h[1] = Quote /\ h[2] = key /\ h[3] = Quote /\ h[4] = Colon
  BY FourAre
<1>2. s \in Seq(Char) /\ w = h \o s /\ Len(s) \in Nat
  BY ValueTextIs
<1> HIDE DEF h, s, w
<1>3. w \in Seq(Char) /\ Len(w) = 4 + Len(s) /\ Stands(w, 0, h) /\ Stands(w, 4, s) /\ Stands(t, x, w)
  <2>1. w \in Seq(Char) /\ Len(w) = Len(h) + Len(s) /\ Stands(w, 0, h) /\ Stands(w, Len(h), s)
    BY <1>1, <1>2, ConcatStands
  <2> QED BY <2>1, <1>1 DEF w
<1>4. Stands(t, x + 4, s)
  BY <1>2, <1>3, StandsWithin
<1>5. Stands(t, x + 0, h)
  BY <1>1, <1>3, StandsWithin
<1>6. t[x + 1] = Quote /\ t[(x + 1) + 1] = key /\ t[(x + 1) + 2] = Quote /\ t[(x + 1) + 3] = Colon
  <2>1. \A k \in 1 .. 4 : t[x + k] = h[k]
    BY <1>1, <1>5 DEF Stands
  <2>2. t[x + 1] = h[1] /\ t[x + 2] = h[2] /\ t[x + 3] = h[3] /\ t[x + 4] = h[4]
    BY <2>1
  <2>3. (x + 1) + 1 = x + 2 /\ (x + 1) + 2 = x + 3 /\ (x + 1) + 3 = x + 4
    OBVIOUS
  <2> QED BY <1>1, <2>2, <2>3
<1> DEFINE e == x + Len(w)
<1>7. e = (x + 4) + Len(s) /\ (x + 1) + 4 = (x + 4) + 1 /\ x + 4 \in Nat /\ e <= Len(t) /\ Len(t) \in Nat
  BY <1>2, <1>3, <1>4 DEF Stands
<1>8. ASSUME NEW v \in Seq(Char), s = Written(v)
      PROVE  Spelt(t, (x + 1) + 4, v, e) /\ e >= (x + 1) + 4
  <2>1. SpellsOut(s, v)
    BY <1>8, WrittenSpells
  <2>2. Spelt(t, (x + 4) + 1, v, (x + 4) + Len(s))
    BY <1>2, <1>4, <1>7, <2>1 DEF SpellsOut
  <2> DEFINE i == (x + 1) + 4
  <2>3. Spelt(t, i, v, e)
    BY <2>2, <1>7
  <2> HIDE DEF i, e
  <2>4. i \in 1 .. Len(t) /\ e \in 1 .. Len(t)
    BY <2>3 DEF Spelt, Spells
  <2>5. i < e
    BY <2>3, <2>4, SpeltGoesOn
  <2> QED BY <2>3, <2>4, <2>5 DEF i
<1>9. ASSUME key = "d"
      PROVE  ListedAt(t, (x + 1) + 4, p.deps, e) /\ e >= (x + 1) + 4
  <2> DEFINE L == Listed(DepParts(p))
             y == x + 4
  <2>1. p.deps \in Seq({Number} \cup Seq(Char))
    BY DEF PackagesSaid
  <2>2. DepParts(p) \in Seq(Seq(Char)) /\ SpellOut(DepParts(p), p.deps)
    BY <2>1, DepPartsAre
  <2>3. L \in Seq(Char)
    BY <2>2, ListedIsText
  <2>4. s = <<LBracket>> \o L \o <<RBracket>>
    BY <1>9, ValueTextIs DEF s
  <2> HIDE DEF L
  <2>5. /\ Len(s) = Len(L) + 2 /\ Len(L) \in Nat /\ s[1] = LBracket /\ s[Len(L) + 2] = RBracket
        /\ Stands(s, 1, L)
    BY <2>3, <2>4, BracketsAround
  <2>6. y \in Nat /\ Stands(t, y, s) /\ e = y + 2 + Len(L) /\ e <= Len(t)
        /\ y + 1 = (x + 1) + 4
    BY <1>4, <1>7, <2>5
  <2> HIDE DEF y, e
  <2>7. t[y + 1] = LBracket /\ t[y + (Len(L) + 2)] = RBracket /\ y + (Len(L) + 2) = y + 2 + Len(L)
    <3>1. 1 \in 1 .. Len(s) /\ Len(L) + 2 \in 1 .. Len(s)
      BY <2>5
    <3> QED BY <3>1, <2>5, <2>6 DEF Stands
  <2>8. Stands(t, y + 1, L)
    BY <1>2, <2>3, <2>5, <2>6, StandsWithin
  <2>9. ListedAt(t, y + 1, p.deps, y + 2 + Len(L))
    BY <2>2, <2>6, <2>7, <2>8, ListSpells DEF L
  <2>10. e >= y + 1
    BY <2>5, <2>6
  <2> QED BY <2>6, <2>9, <2>10
<1>10. /\ key = "n" => Spelt(t, (x + 1) + 4, p.name, e) /\ e >= (x + 1) + 4
       /\ key = "v" => Spelt(t, (x + 1) + 4, p.version, e) /\ e >= (x + 1) + 4
  <2>1. p.name \in Seq(Char) /\ p.version \in Seq(Char)
    BY DEF PackagesSaid
  <2>2. key = "n" => s = Written(p.name)
    BY ValueTextIs DEF s
  <2>3. key = "v" => s = Written(p.version)
    BY ValueTextIs DEF s
  <2> HIDE DEF e
  <2> QED BY <2>1, <2>2, <2>3, <1>8
<1>11. e >= (x + 1) + 4 /\ x + 1 \in 1 .. Len(t) /\ e \in (x + 1) + 4 .. Len(t)
  <2>1. e >= (x + 1) + 4
    BY <1>9, <1>10 DEF Keys
  <2>2. e \in Nat
    BY <1>2, <1>7
  <2> HIDE DEF e
  <2> QED BY <2>1, <2>2, <1>7
<1> HIDE DEF e
<1>12. EntryAt(t, x + 1, p, key, e)
  BY <1>6, <1>9, <1>10, <1>11 DEF EntryAt
<1> QED BY <1>12 DEF e, w

Orders == {<<"n", "v", "d">>, <<"d", "v", "n">>}

(***************************************************************************)
(* A text is a manifest of p with its keys in the order o.                 *)
(***************************************************************************)
Manifests(t, p, o, e1, e2, e3) ==
    /\ e1 \in 1 .. Len(t) /\ e2 \in 1 .. Len(t) /\ e3 \in 1 .. Len(t)
    /\ t[1] = LBrace /\ EntryAt(t, 2, p, o[1], e1)
    /\ t[e1 + 1] = Comma /\ EntryAt(t, e1 + 2, p, o[2], e2)
    /\ t[e2 + 1] = Comma /\ EntryAt(t, e2 + 2, p, o[3], e3)
    /\ Len(t) = e3 + 1 /\ t[e3 + 1] = RBrace

IsManifest(t, p, o) ==
    /\ t \in Seq(Char)
    /\ \E e1, e2, e3 \in 1 .. Len(t) : Manifests(t, p, o, e1, e2, e3)

Entries(p, o) == [k \in 1 .. 3 |-> Entry(p, o[k])]

ServedText(p, o) == <<LBrace>> \o Listed(Entries(p, o)) \o <<RBrace>>

LEMMA OrdersAre ==
    ASSUME NEW o \in Orders
    PROVE  /\ o[1] \in Keys /\ o[2] \in Keys /\ o[3] \in Keys
           /\ \A k \in 1 .. 3 : o[k] \in Keys
  BY DEF Orders, Keys

LEMMA EntriesAre ==
    ASSUME NEW p \in PackagesSaid, NEW o \in Orders
    PROVE  /\ Entries(p, o) \in Seq(Seq(Char)) /\ Len(Entries(p, o)) = 3
           /\ \A k \in 1 .. 3 : Entries(p, o)[k] = Entry(p, o[k]) /\ Entry(p, o[k]) \in Seq(Char)
<1>1. \A k \in 1 .. 3 : Entry(p, o[k]) \in Seq(Char)
  BY OrdersAre, EntryIsText
<1>2. Entries(p, o) \in [1 .. 3 -> Seq(Char)] /\ DOMAIN Entries(p, o) = 1 .. 3
  BY <1>1 DEF Entries
<1>3. \A k \in 1 .. 3 : Entries(p, o)[k] = Entry(p, o[k])
  BY DEF Entries
<1> DEFINE w == Entries(p, o)
<1>4. w \in Seq(Seq(Char)) /\ Len(w) = 3
  <2> DEFINE N == 3
  <2>1. w \in [1 .. N -> Seq(Char)] /\ DOMAIN w = 1 .. N /\ N \in Nat
    BY <1>2
  <2> HIDE DEF w, N
  <2>2. w \in Seq(Seq(Char)) /\ Len(w) = N
    BY <2>1
  <2> QED BY <2>2 DEF N
<1> QED BY <1>1, <1>3, <1>4

LEMMA BracesAround ==
    ASSUME NEW s \in Seq(Char)
    PROVE  LET w == <<LBrace>> \o s \o <<RBrace>>
           IN  /\ w \in Seq(Char) /\ Len(w) = Len(s) + 2 /\ Len(s) \in Nat
               /\ w[1] = LBrace /\ w[Len(s) + 2] = RBrace /\ Stands(w, 1, s)
<1> DEFINE o == <<LBrace>>
           c == <<RBrace>>
           h == o \o s
           w == h \o c
<1>1. o \in Seq(Char) /\ Len(o) = 1 /\ c \in Seq(Char) /\ Len(c) = 1
  BY CharsAre
<1>2. h[1] = LBrace
  OBVIOUS
<1>3. c[1] = RBrace
  OBVIOUS
<1> HIDE DEF o, c
<1>4. h \in Seq(Char) /\ Len(h) = 1 + Len(s) /\ Stands(h, 1, s)
  <2>1. o \o s \in Seq(Char) /\ Len(o \o s) = Len(o) + Len(s) /\ Stands(o \o s, Len(o), s)
    BY <1>1, ConcatStands
  <2> QED BY <2>1, <1>1
<1> HIDE DEF h
<1>5. w \in Seq(Char) /\ Len(w) = Len(h) + 1 /\ Stands(w, 0, h) /\ Stands(w, Len(h), c)
  <2>1. h \in Seq(Char) /\ c \in Seq(Char) /\ Len(c) = 1
    BY <1>1, <1>4
  <2>2. w \in Seq(Char) /\ Len(w) = Len(h) + Len(c) /\ Stands(w, 0, h) /\ Stands(w, Len(h), c)
    BY <2>1, ConcatStands
  <2> HIDE DEF w
  <2> QED BY <2>1, <2>2
<1>6. Len(s) \in Nat /\ Len(h) \in Nat
  BY <1>4
<1>7. w[1] = LBrace /\ w[Len(s) + 2] = RBrace
  <2>1. w[0 + 1] = h[1]
    BY <1>4, <1>5, <1>6 DEF Stands
  <2>2. w[Len(h) + 1] = c[1]
    BY <1>1, <1>5 DEF Stands
  <2>3. 0 + 1 = 1 /\ Len(h) + 1 = Len(s) + 2
    BY <1>4, <1>6
  <2> HIDE DEF w
  <2>4. w[1] = h[1]
    BY <2>1
  <2>5. w[Len(s) + 2] = c[1]
    BY <2>2, <2>3
  <2> QED BY <2>4, <2>5, <1>2, <1>3
<1>8. Stands(w, 0 + 1, s)
  BY <1>4, <1>5, StandsWithin
<1> HIDE DEF w
<1>9. /\ w \in Seq(Char) /\ Len(w) = Len(s) + 2 /\ Len(s) \in Nat
      /\ w[1] = LBrace /\ w[Len(s) + 2] = RBrace /\ Stands(w, 1, s)
  BY <1>4, <1>5, <1>6, <1>7, <1>8
<1> QED BY <1>9 DEF w, h, o, c

LEMMA ServedIsText ==
    ASSUME NEW p \in PackagesSaid, NEW o \in Orders
    PROVE  ServedText(p, o) \in Seq(Char)
<1> DEFINE L == Listed(Entries(p, o))
<1>1. L \in Seq(Char)
  BY EntriesAre, ListedIsText
<1>2. ServedText(p, o) = <<LBrace>> \o L \o <<RBrace>>
  BY DEF ServedText
<1> HIDE DEF L
<1> QED BY <1>1, <1>2, BracesAround

(* What the repository serves is a manifest of the package.                *)
LEMMA ServedIsManifest ==
    ASSUME NEW p \in PackagesSaid, Fits(p), NEW o \in Orders
    PROVE  IsManifest(ServedText(p, o), p, o)
<1> DEFINE parts == Entries(p, o)
           ss == Commas(parts)
           L == Listed(parts)
           t == ServedText(p, o)
<1>1. /\ parts \in Seq(Seq(Char)) /\ Len(parts) = 3
      /\ \A k \in 1 .. 3 : parts[k] = Entry(p, o[k]) /\ Entry(p, o[k]) \in Seq(Char)
  BY EntriesAre
<1> HIDE DEF parts
<1>2. ss \in Seq(Seq(Char)) /\ Len(ss) = 3 /\ L = FlattenSeq(ss)
  BY <1>1, CommasAre
<1>3. t = <<LBrace>> \o L \o <<RBrace>>
  BY DEF ServedText, parts
<1> HIDE DEF ss, L, t
<1>4. L \in Seq(Char) /\ \E at \in [0 .. Len(ss) -> Nat] : Lays(ss, at, L)
  BY <1>2, FlattenLays
<1>5. /\ t \in Seq(Char) /\ Len(t) = Len(L) + 2 /\ Len(L) \in Nat
      /\ t[1] = LBrace /\ t[Len(L) + 2] = RBrace /\ Stands(t, 1, L)
  BY <1>3, <1>4, BracesAround
<1>6. PICK at \in [0 .. 3 -> Nat] : Lays(ss, at, L)
  BY <1>2, <1>4
<1>7. at[0] = 0 /\ at[3] = Len(L) /\ at[1] \in Nat /\ at[2] \in Nat /\ at[3] \in Nat
  BY <1>2, <1>6 DEF Lays
<1>8. ASSUME NEW k \in 1 .. 3
      PROVE  /\ at[k] = at[k - 1] + Len(ss[k]) /\ at[k - 1] \in Nat /\ ss[k] \in Seq(Char)
             /\ Stands(t, 1 + at[k - 1], ss[k])
  <2>1. at[k] = at[k - 1] + Len(ss[k]) /\ Stands(L, at[k - 1], ss[k])
    BY <1>2, <1>6 DEF Lays
  <2>a. k - 1 \in 0 .. 3
    OBVIOUS
  <2>b. at[k - 1] \in Nat
    BY <2>a
  <2>c. k \in 1 .. Len(ss)
    BY <1>2
  <2>d. ss[k] \in Seq(Char)
    <3>1. ss \in Seq(Seq(Char))
      BY <1>2
    <3> QED BY <3>1, <2>c, ElementOfSeq
  <2>2. at[k - 1] \in Nat /\ ss[k] \in Seq(Char)
    BY <2>b, <2>d
  <2>3. Stands(t, 1 + at[k - 1], ss[k])
    BY <2>1, <2>2, <1>4, <1>5, StandsWithin
  <2> QED BY <2>1, <2>2, <2>3
<1>9. /\ at[1] = 0 + Len(ss[1]) /\ Stands(t, 1 + 0, ss[1])
      /\ at[2] = at[1] + Len(ss[2]) /\ Stands(t, 1 + at[1], ss[2])
      /\ at[3] = at[2] + Len(ss[3]) /\ Stands(t, 1 + at[2], ss[3])
  <2>1. 1 \in 1 .. 3 /\ 2 \in 1 .. 3 /\ 3 \in 1 .. 3 /\ 1 - 1 = 0 /\ 2 - 1 = 1 /\ 3 - 1 = 2
    OBVIOUS
  <2>2. at[1] = at[1 - 1] + Len(ss[1]) /\ Stands(t, 1 + at[1 - 1], ss[1])
    BY <2>1, <1>8
  <2>3. at[2] = at[2 - 1] + Len(ss[2]) /\ Stands(t, 1 + at[2 - 1], ss[2])
    BY <2>1, <1>8
  <2>4. at[3] = at[3 - 1] + Len(ss[3]) /\ Stands(t, 1 + at[3 - 1], ss[3])
    BY <2>1, <1>8
  <2> QED BY <2>1, <2>2, <2>3, <2>4, <1>7
<1> DEFINE E(k) == Entry(p, o[k])
<1>10. Stands(t, 1, E(1)) /\ at[1] = Len(E(1))
  <2>1. 1 \in 1 .. Len(parts) /\ Stands(t, 1, Commas(parts)[1])
    BY <1>1, <1>9 DEF ss
  <2>2. Stands(t, 1, parts[1]) /\ Len(Commas(parts)[1]) = Len(parts[1])
    <3>1. CommaStands(parts, 1, t, 1)
      BY <2>1, <1>1, <1>5, CommaIs
    <3> QED BY <3>1 DEF CommaStands
  <2> QED BY <2>2, <1>1, <1>9 DEF ss
<1>11. Stands(t, (1 + at[1]) + 1, E(2)) /\ at[2] = at[1] + (Len(E(2)) + 1) /\ t[(1 + at[1]) + 1] = Comma
  <2> DEFINE x == 1 + at[1]
  <2>b. x \in Nat
    BY <1>7
  <2>a. Stands(t, x, ss[2]) /\ x \in Nat /\ at[2] = at[1] + Len(ss[2])
    BY <2>b, <1>9, Zenon
  <2>1. 2 \in 1 .. Len(parts) /\ x \in Nat /\ Stands(t, x, Commas(parts)[2])
    BY <1>1, <2>a DEF ss
  <2> HIDE DEF x
  <2>2. Stands(t, x + 1, parts[2]) /\ Len(Commas(parts)[2]) = Len(parts[2]) + 1 /\ t[x + 1] = Comma
    <3>1. CommaStands(parts, 2, t, x)
      BY <2>1, <1>1, <1>5, CommaIs
    <3> QED BY <3>1 DEF CommaStands
  <2>3. Len(ss[2]) = Len(E(2)) + 1
    BY <2>2, <1>1 DEF ss
  <2>4. Stands(t, x + 1, E(2))
    BY <2>2, <1>1
  <2> HIDE DEF E
  <2> QED BY <2>2, <2>3, <2>4, <2>a DEF x
<1>12. Stands(t, (1 + at[2]) + 1, E(3)) /\ at[3] = at[2] + (Len(E(3)) + 1) /\ t[(1 + at[2]) + 1] = Comma
  <2> DEFINE x == 1 + at[2]
  <2>b. x \in Nat
    BY <1>7
  <2>a. Stands(t, x, ss[3]) /\ x \in Nat /\ at[3] = at[2] + Len(ss[3])
    BY <2>b, <1>9, Zenon
  <2>1. 3 \in 1 .. Len(parts) /\ x \in Nat /\ Stands(t, x, Commas(parts)[3])
    BY <1>1, <2>a DEF ss
  <2> HIDE DEF x
  <2>2. Stands(t, x + 1, parts[3]) /\ Len(Commas(parts)[3]) = Len(parts[3]) + 1 /\ t[x + 1] = Comma
    <3>1. CommaStands(parts, 3, t, x)
      BY <2>1, <1>1, <1>5, CommaIs
    <3> QED BY <3>1 DEF CommaStands
  <2>3. Len(ss[3]) = Len(E(3)) + 1
    BY <2>2, <1>1 DEF ss
  <2>4. Stands(t, x + 1, E(3))
    BY <2>2, <1>1
  <2> HIDE DEF E
  <2> QED BY <2>2, <2>3, <2>4, <2>a DEF x
<1> DEFINE e1 == 1 + at[1]
           e2 == 1 + at[2]
           e3 == 1 + at[3]
<1>13. /\ Len(E(1)) \in Nat /\ Len(E(2)) \in Nat /\ Len(E(3)) \in Nat
       /\ o[1] \in Keys /\ o[2] \in Keys /\ o[3] \in Keys
  BY <1>1, OrdersAre
<1> HIDE DEF E
<1>14. /\ e1 \in Nat /\ e2 \in Nat /\ e3 \in Nat /\ Len(t) = e3 + 1
       /\ 1 + Len(E(1)) = e1 /\ (e1 + 1) + Len(E(2)) = e2 /\ (e2 + 1) + Len(E(3)) = e3
       /\ e1 + 1 \in Nat /\ e2 + 1 \in Nat /\ (e1 + 1) + 1 = e1 + 2 /\ (e2 + 1) + 1 = e2 + 2
       /\ e1 \in 1 .. Len(t) /\ e2 \in 1 .. Len(t) /\ e3 \in 1 .. Len(t) /\ Len(L) + 2 = e3 + 1
  BY <1>5, <1>7, <1>10, <1>11, <1>12, <1>13
<1>15. EntryAt(t, 1 + 1, p, o[1], 1 + Len(E(1)))
  BY <1>5, <1>10, <1>13, EntryStands DEF E
<1>16. EntryAt(t, (e1 + 1) + 1, p, o[2], (e1 + 1) + Len(E(2)))
  <2> DEFINE x == e1 + 1
  <2>1. x \in Nat /\ Stands(t, x, E(2))
    BY <1>11, <1>14
  <2> HIDE DEF x
  <2>2. EntryAt(t, x + 1, p, o[2], x + Len(E(2)))
    BY <2>1, <1>5, <1>13, EntryStands DEF E
  <2> QED BY <2>2 DEF x
<1>17. EntryAt(t, (e2 + 1) + 1, p, o[3], (e2 + 1) + Len(E(3)))
  <2> DEFINE x == e2 + 1
  <2>1. x \in Nat /\ Stands(t, x, E(3))
    BY <1>12, <1>14
  <2> HIDE DEF x
  <2>2. EntryAt(t, x + 1, p, o[3], x + Len(E(3)))
    BY <2>1, <1>5, <1>13, EntryStands DEF E
  <2> QED BY <2>2 DEF x
<1>18. t[e1 + 1] = Comma /\ t[e2 + 1] = Comma /\ t[e3 + 1] = RBrace
  BY <1>5, <1>11, <1>12, <1>14
<1> HIDE DEF e1, e2, e3
<1>19. Manifests(t, p, o, e1, e2, e3)
  <2>1. 1 + 1 = 2
    OBVIOUS
  <2>2. EntryAt(t, 2, p, o[1], e1) /\ EntryAt(t, e1 + 2, p, o[2], e2) /\ EntryAt(t, e2 + 2, p, o[3], e3)
    BY <1>14, <1>15, <1>16, <1>17, <2>1
  <2> QED BY <2>2, <1>5, <1>14, <1>18 DEF Manifests
<1> QED BY <1>5, <1>14, <1>19 DEF IsManifest, t

(* A quote in a list opens or closes a value or follows a backslash.       *)
LEMMA ListQuotes ==
    ASSUME NEW t \in Seq(Char), NEW vs \in Seq(Seq(Char)), NEW i \in 1 .. Len(t), NEW e \in 1 .. Len(t),
           ListedAt(t, i, vs, e), NEW q \in i .. e, t[q] = Quote
    PROVE  \/ q - 1 \in 1 .. Len(t) /\ t[q - 1] \in {Slash, LBracket, Comma}
           \/ t[q + 1] \in {Comma, RBracket}
<1> DEFINE N == Len(vs)
<1>1. PICK at \in [0 .. N -> 1 .. Len(t)] : Lists(t, i, vs, e, at)
  BY DEF ListedAt
<1>2. /\ at[0] = i + 1 /\ at[N] = e /\ t[i] = LBracket /\ t[e] = RBracket /\ N \in Nat
      /\ \A k \in 1 .. N : ListItem(t, at[k - 1], at[k], vs[k], k = N)
  BY <1>1 DEF Lists
<1>3. \A k \in 0 .. N : at[k] \in 1 .. Len(t)
  OBVIOUS
<1>4. q # i /\ q # e /\ q \in Nat /\ i + 1 <= q /\ q < e
  <2>1. q # i /\ q # e
    BY <1>2, CharsDiffer
  <2> QED BY <2>1
<1> HIDE DEF N
<1>5. N # 0
  BY <1>2, <1>4
<1> DEFINE S == {k \in 1 .. N : q < at[k]}
<1>6. PICK k \in S : \A j \in S : k <= j
  <2>0. N \in 1 .. N /\ q < at[N]
    BY <1>2, <1>4, <1>5
  <2>1. S \subseteq Nat /\ S # {}
    BY <2>0
  <2> HIDE DEF S
  <2> QED BY <2>1, LeastIs
<1>7. /\ k \in 1 .. N /\ k - 1 \in 0 .. N /\ q < at[k] /\ at[k] \in 1 .. Len(t)
      /\ at[k - 1] \in 1 .. Len(t)
  BY <1>2, <1>3
<1>8. at[k - 1] <= q
  <2>1. CASE k = 1
    BY <2>1, <1>2, <1>4
  <2>2. CASE k # 1
    <3>1. k - 1 \in 1 .. N /\ ~(k <= k - 1)
      BY <1>7, <2>2
    <3>2. k - 1 \notin S
      BY <1>6, <3>1
    <3> QED BY <3>1, <3>2, <1>4, <1>7
  <2> QED BY <2>1, <2>2
<1> DEFINE x == at[k - 1]
<1>9. ListItem(t, x, at[k], vs[k], k = N)
  BY <1>2, <1>7
<1>10. PICK z \in 1 .. Len(t) : /\ Spelt(t, x, vs[k], z)
                                /\ k = N => at[k] = z + 1
                                /\ k # N => at[k] = z + 2 /\ t[z + 1] = Comma
  BY <1>9 DEF ListItem
<1>11. vs[k] \in Seq(Char)
  BY <1>7, ElementOfSeq DEF N
(* What is before the value.                                               *)
<1>12. x - 1 \in 1 .. Len(t) /\ t[x - 1] \in {LBracket, Comma}
  <2>1. CASE k = 1
    <3>1. x = i + 1 /\ x - 1 = i
      BY <2>1, <1>2
    <3> HIDE DEF x
    <3> QED BY <3>1, <1>2
  <2>2. CASE k # 1
    <3> DEFINE j == k - 1
    <3>1. j \in 1 .. N /\ j # N
      BY <2>2, <1>2, <1>7
    <3>2. ListItem(t, at[j - 1], x, vs[j], j = N)
      BY <3>1, <1>2
    <3> HIDE DEF j, x
    <3>3. PICK y \in 1 .. Len(t) : x = y + 2 /\ t[y + 1] = Comma
      BY <3>1, <3>2 DEF ListItem
    <3>4. x - 1 = y + 1 /\ x \in 1 .. Len(t)
      BY <3>3, <1>7 DEF x
    <3> QED BY <3>3, <3>4
  <2> QED BY <2>1, <2>2
(* And what is behind it.                                                  *)
<1> DEFINE y == at[k]
           v == vs[k]
<1>a. y \in 1 .. Len(t) /\ q < y /\ z \in 1 .. Len(t) /\ q \in Nat /\ Spelt(t, x, v, z) /\ v \in Seq(Char)
  BY <1>4, <1>7, <1>10, <1>11
<1>b. (y = z + 1 /\ t[y] = RBracket) \/ (y = z + 2 /\ t[z + 1] = Comma)
  <2>1. k = N => y = z + 1 /\ t[y] = RBracket
    BY <1>2, <1>10
  <2>2. k # N => y = z + 2 /\ t[z + 1] = Comma
    BY <1>10
  <2> QED BY <2>1, <2>2
<1> HIDE DEF x, y, v
<1>13. t[z + 1] \in {Comma, RBracket}
  BY <1>b
<1>14. q <= z
  <2>1. q # z + 1
    <3>1. Comma # Quote /\ RBracket # Quote
      BY CharsDiffer
    <3> QED BY <3>1, <1>13
  <2> QED BY <2>1, <1>a, <1>b
<1>15. x \in 1 .. Len(t) /\ q \in x .. z
  BY <1>4, <1>7, <1>8, <1>14 DEF x
<1>16. q = x \/ q = z \/ (q - 1 \in 1 .. Len(t) /\ t[q - 1] = Slash)
  BY <1>a, <1>15, SpeltQuotes
<1> QED BY <1>12, <1>13, <1>16

(* Only the quote behind an entry's key has a key before and a colon       *)
(* behind it.                                                              *)
LEMMA EntryQuotes ==
    ASSUME NEW t \in Seq(Char), NEW p \in Packages, NEW key \in Keys,
           NEW i \in 2 .. Len(t), NEW e \in 1 .. Len(t) - 1, EntryAt(t, i, p, key, e),
           t[i - 1] \in {LBrace, Comma}, t[e + 1] \in {Comma, RBrace},
           NEW q \in i .. e, t[q] = Quote, t[q + 1] = Colon, t[q - 1] \in Keys
    PROVE  q = i + 2
<1>1. /\ e \in i + 4 .. Len(t) /\ t[i] = Quote /\ t[i + 1] = key /\ t[i + 2] = Quote /\ t[i + 3] = Colon
  BY DEF EntryAt
<1>2. /\ t[q - 1] # Slash /\ t[q - 1] # LBracket /\ t[q - 1] # Comma /\ t[q - 1] # LBrace /\ t[q - 1] # Colon
      /\ t[q + 1] # Comma /\ t[q + 1] # RBracket /\ t[q + 1] # RBrace
      /\ key # Quote /\ Colon # Quote
  BY CharsDiffer DEF Keys
<1>3. q # i
  BY <1>2
<1>4. q # i + 1 /\ q # i + 3
  BY <1>1, <1>2
<1>5. ASSUME NEW v \in Seq(Char), Spelt(t, i + 4, v, e)
      PROVE  ~(q >= i + 4)
  <2> DEFINE j == i + 4
  <2> SUFFICES ASSUME q >= j
               PROVE  FALSE
    OBVIOUS
  <2>1. j \in 1 .. Len(t) /\ q \in j .. e /\ e \in 1 .. Len(t) /\ j - 1 = i + 3 /\ Spelt(t, j, v, e)
    BY <1>1, <1>5
  <2> HIDE DEF j
  <2>2. q = j \/ q = e \/ (q - 1 \in 1 .. Len(t) /\ t[q - 1] = Slash)
    BY <2>1, SpeltQuotes
  <2> QED BY <2>1, <2>2, <1>1, <1>2
<1>6. ASSUME ListedAt(t, i + 4, p.deps, e)
      PROVE  ~(q >= i + 4)
  <2> DEFINE j == i + 4
             vs == p.deps
  <2> SUFFICES ASSUME q >= j
               PROVE  FALSE
    OBVIOUS
  <2>1. j \in 1 .. Len(t) /\ q \in j .. e /\ e \in 1 .. Len(t) /\ ListedAt(t, j, vs, e)
    BY <1>1, <1>6
  <2>2. vs \in Seq(Seq(Char))
    BY DEF Packages
  <2> HIDE DEF j, vs
  <2>3. \/ q - 1 \in 1 .. Len(t) /\ t[q - 1] \in {Slash, LBracket, Comma}
        \/ t[q + 1] \in {Comma, RBracket}
    BY <2>1, <2>2, ListQuotes
  <2> QED BY <2>3, <1>2
<1>7. ~(q >= i + 4)
  <2>1. p.name \in Seq(Char) /\ p.version \in Seq(Char)
    BY DEF Packages
  <2>2. /\ key = "n" => Spelt(t, i + 4, p.name, e)
        /\ key = "v" => Spelt(t, i + 4, p.version, e)
        /\ key = "d" => ListedAt(t, i + 4, p.deps, e)
    BY DEF EntryAt
  <2>3. key = "n" \/ key = "v" \/ key = "d"
    BY DEF Keys
  <2> QED BY <2>1, <2>2, <2>3, <1>5, <1>6
<1> QED BY <1>3, <1>4, <1>7

(***************************************************************************)
(* Finding a key.                                                          *)
(***************************************************************************)
KeyHere(t, key, j) == j + 2 <= Len(t) /\ SubSeq(t, j, j + 2) = <<Quote, key, Quote>>

ColonThere(t, j) == j + 3 <= Len(t) /\ t[j + 3] = Colon

FindStep(t, key, f) ==
    [j \in 1 .. Len(t) + 3 |->
        IF j > Len(t) THEN 0
        ELSE IF ~KeyHere(t, key, j) THEN f[j + 1]
        ELSE IF ColonThere(t, j) THEN j + 4 ELSE f[j + 3]]

Finding(t, key) == CHOOSE f : f = FindStep(t, key, f)

LEMMA FindKeyIs ==
    ASSUME NEW t, NEW key
    PROVE  json_find_key(t, key) = Finding(t, key)[1]
  BY DEF json_find_key, Finding, FindStep, KeyHere, ColonThere

LEMMA FindingHolds ==
    ASSUME NEW t \in Seq(Char), NEW key \in Keys
    PROVE  Finding(t, key) = FindStep(t, key, Finding(t, key))
<1> DEFINE N == Len(t)
           X == 1 .. N + 3
           D == {j \in X : j <= N /\ ~(KeyHere(t, key, j) /\ ColonThere(t, j))}
           rk == [j \in X |-> N + 3 - j]
           succ == [j \in D |-> IF KeyHere(t, key, j) THEN j + 3 ELSE j + 1]
           base == [j \in X |-> IF j > N THEN 0 ELSE j + 4]
           comb == [j \in D |-> [v \in Nat |-> v]]
           M == N + 3
<1>0. N \in Nat /\ M \in Nat
  OBVIOUS
<1> HIDE DEF N
<1>1. /\ rk \in [X -> 0 .. M] /\ D \in SUBSET X /\ succ \in [D -> X] /\ base \in [X -> Nat]
      /\ comb \in [D -> [Nat -> Nat]]
  BY <1>0
<1>2. Descends(D, rk, succ)
  <2> SUFFICES ASSUME NEW j \in D
               PROVE  rk[succ[j]] < rk[j]
    BY DEF Descends
  <2> DEFINE k == succ[j]
  <2>1. k \in X /\ j \in X /\ k > j /\ k \in Nat /\ j \in Nat
    BY <1>0
  <2>2. rk[k] = N + 3 - k /\ rk[j] = N + 3 - j
    BY <2>1
  <2> HIDE DEF k, rk
  <2> QED BY <2>1, <2>2, <1>0 DEF k
<1>3. PICK f \in [X -> Nat] : Recurs(f, X, D, succ, base, comb)
  <2> HIDE DEF X, D, rk, succ, base, comb, M
  <2>1. HasFunction(X, Nat, D, succ, base, comb)
    BY <1>0, <1>1, <1>2, RecursionHasFunction
  <2> QED BY <2>1 DEF HasFunction
<1>4. ASSUME NEW j \in X
      PROVE  f[j] = IF j > N THEN 0
                    ELSE IF ~KeyHere(t, key, j) THEN f[j + 1]
                    ELSE IF ColonThere(t, j) THEN j + 4 ELSE f[j + 3]
  <2>1. f[j] = IF j \in D THEN comb[j][f[succ[j]]] ELSE base[j]
    BY <1>3 DEF Recurs
  <2>2. CASE j \in D
    <3>1. succ[j] \in X
      BY <1>1, <2>2
    <3>2. f[succ[j]] \in Nat
      BY <3>1
    <3>3. f[j] = f[succ[j]]
      BY <2>1, <2>2, <3>2
    <3>4. ~(j > N) /\ (KeyHere(t, key, j) => ~ColonThere(t, j))
      BY <2>2, <1>0
    <3>5. succ[j] = IF KeyHere(t, key, j) THEN j + 3 ELSE j + 1
      BY <2>2
    <3> HIDE DEF succ
    <3> QED BY <3>3, <3>4, <3>5
  <2>3. CASE j \notin D
    BY <2>1, <2>3, <1>0
  <2> QED BY <2>2, <2>3
<1>5. f = [j \in X |-> f[j]]
  OBVIOUS
<1>6. f = FindStep(t, key, f)
  BY <1>4, <1>5 DEF FindStep, N
<1> QED BY <1>6 DEF Finding

(* The entry that a colon follows is found, if none before it is one and   *)
(* none lies across it.                                                    *)
LEMMA FirstIsFound ==
    ASSUME NEW t \in Seq(Char), NEW key \in Keys, NEW p \in 1 .. Len(t),
           KeyHere(t, key, p), ColonThere(t, p),
           \A j \in 1 .. Len(t) : j < p => ~(KeyHere(t, key, j) /\ ColonThere(t, j)),
           \A j \in 1 .. Len(t) : j + 1 = p \/ j + 2 = p => ~KeyHere(t, key, j)
    PROVE  json_find_key(t, key) = p + 4
<1> DEFINE F == Finding(t, key)
           S == {m \in Nat : \A n \in 0 .. m : n < p => F[p - n] = p + 4}
<1>0. \A j \in 1 .. Len(t) + 3 :
          F[j] = IF j > Len(t) THEN 0
                 ELSE IF ~KeyHere(t, key, j) THEN F[j + 1]
                 ELSE IF ColonThere(t, j) THEN j + 4 ELSE F[j + 3]
  <2>1. F = FindStep(t, key, F)
    BY FindingHolds
  <2> HIDE DEF F
  <2> QED BY <2>1 DEF FindStep
<1> HIDE DEF F
<1>1. F[p] = p + 4
  BY <1>0
<1>2. 0 \in S
  BY <1>1
<1>3. ASSUME NEW m \in S
      PROVE  m + 1 \in S
  <2>0. m \in Nat /\ \A n \in 0 .. m : n < p => F[p - n] = p + 4
    OBVIOUS
  <2> SUFFICES ASSUME m + 1 < p
               PROVE  F[p - (m + 1)] = p + 4
    <3> SUFFICES ASSUME NEW n \in 0 .. m + 1, n < p
                 PROVE  F[p - n] = p + 4
      BY <2>0
    <3>1. n \in 0 .. m \/ n = m + 1
      BY <2>0
    <3> QED BY <3>1, <2>0
  <2> DEFINE j == p - (m + 1)
  <2>1. j \in 1 .. Len(t) /\ j < p /\ j \in 1 .. Len(t) + 3 /\ ~(j > Len(t))
    BY <2>0
  <2>2. CASE ~KeyHere(t, key, j)
    <3>1. F[j] = F[j + 1]
      BY <2>1, <2>2, <1>0
    <3>2. j + 1 = p - m /\ m \in 0 .. m /\ m < p
      BY <2>0
    <3>3. F[p - m] = p + 4
      BY <2>0, <3>2
    <3> QED BY <3>1, <3>2, <3>3
  <2>3. CASE KeyHere(t, key, j)
    <3>1. ~ColonThere(t, j) /\ j + 1 # p /\ j + 2 # p
      BY <2>1, <2>3
    <3>2. F[j] = F[j + 3]
      BY <2>1, <2>3, <3>1, <1>0
    <3>3. j + 3 = p - (m - 2) /\ m - 2 \in 0 .. m /\ m - 2 < p
      BY <2>0, <3>1
    <3>4. F[p - (m - 2)] = p + 4
      BY <2>0, <3>3
    <3> QED BY <3>2, <3>3, <3>4
  <2> QED BY <2>2, <2>3
<1>4. p - 1 \in S
  <2>1. S \subseteq Nat /\ p - 1 \in Nat
    OBVIOUS
  <2> HIDE DEF S
  <2> QED BY <1>2, <1>3, <2>1, AllNumbers
<1>5. F[1] = p + 4
  <2>1. p - 1 \in 0 .. p - 1 /\ p - 1 < p /\ p - (p - 1) = 1
    OBVIOUS
  <2>2. F[p - (p - 1)] = p + 4
    BY <1>4, <2>1
  <2> QED BY <2>1, <2>2
<1> QED BY <1>5, FindKeyIs DEF F

LEMMA KeyHereIs ==
    ASSUME NEW t \in Seq(Char), NEW key \in Keys, NEW j \in 1 .. Len(t)
    PROVE  KeyHere(t, key, j) <=> j + 2 <= Len(t) /\ t[j] = Quote /\ t[j + 1] = key /\ t[j + 2] = Quote
<1> SUFFICES ASSUME j + 2 <= Len(t)
             PROVE  SubSeq(t, j, j + 2) = <<Quote, key, Quote>>
                       <=> t[j] = Quote /\ t[j + 1] = key /\ t[j + 2] = Quote
  BY DEF KeyHere
<1> DEFINE s == SubSeq(t, j, j + 2)
           k == <<Quote, key, Quote>>
<1>1. s \in Seq(Char) /\ Len(s) = 3 /\ s[1] = t[j] /\ s[2] = t[j + 1] /\ s[3] = t[j + 2]
  OBVIOUS
<1>2. k \in Seq(Char) /\ Len(k) = 3 /\ k[1] = Quote /\ k[2] = key /\ k[3] = Quote
  BY CharsAre DEF Keys
<1> HIDE DEF s, k
<1>3. s = k <=> \A n \in 1 .. 3 : s[n] = k[n]
  BY <1>1, <1>2, SeqEqual
<1>4. (\A n \in 1 .. 3 : s[n] = k[n]) <=> s[1] = k[1] /\ s[2] = k[2] /\ s[3] = k[3]
  OBVIOUS
<1>5. s = k <=> t[j] = Quote /\ t[j + 1] = key /\ t[j + 2] = Quote
  BY <1>1, <1>2, <1>3, <1>4
<1> QED BY <1>5 DEF s, k

(* The quotes behind the three keys are the only ones of their kind.       *)
LEMMA KeysAreThere ==
    ASSUME NEW t \in Seq(Char), NEW p \in Packages, NEW o \in Orders,
           NEW e1 \in 1 .. Len(t), NEW e2 \in 1 .. Len(t), NEW e3 \in 1 .. Len(t),
           Manifests(t, p, o, e1, e2, e3),
           NEW q \in 1 .. Len(t), t[q] = Quote, t[q + 1] = Colon, t[q - 1] \in Keys
    PROVE  q = 4 \/ q = e1 + 4 \/ q = e2 + 4
<1>1. /\ t[1] = LBrace /\ EntryAt(t, 2, p, o[1], e1)
      /\ t[e1 + 1] = Comma /\ EntryAt(t, e1 + 2, p, o[2], e2)
      /\ t[e2 + 1] = Comma /\ EntryAt(t, e2 + 2, p, o[3], e3)
      /\ Len(t) = e3 + 1 /\ t[e3 + 1] = RBrace
  BY DEF Manifests
<1>2. e1 \in 2 + 4 .. Len(t) /\ e2 \in (e1 + 2) + 4 .. Len(t) /\ e3 \in (e2 + 2) + 4 .. Len(t)
  BY <1>1 DEF EntryAt
<1>3. q # 1 /\ q # e1 + 1 /\ q # e2 + 1 /\ q # e3 + 1
  BY <1>1, CharsDiffer
<1>4. o[1] \in Keys /\ o[2] \in Keys /\ o[3] \in Keys
  BY OrdersAre
<1>5. CASE q <= e1
  <2>1. 2 \in 2 .. Len(t) /\ e1 \in 1 .. Len(t) - 1 /\ q \in 2 .. e1 /\ 2 - 1 = 1
    BY <1>1, <1>2, <1>3, <1>5
  <2>2. t[2 - 1] \in {LBrace, Comma} /\ t[e1 + 1] \in {Comma, RBrace}
    BY <1>1, <2>1
  <2> DEFINE i == 2
  <2>3. i \in 2 .. Len(t) /\ q \in i .. e1 /\ t[i - 1] \in {LBrace, Comma} /\ EntryAt(t, i, p, o[1], e1)
    BY <1>1, <2>1, <2>2
  <2> HIDE DEF i
  <2>4. q = i + 2
    BY <1>4, <2>1, <2>2, <2>3, EntryQuotes
  <2> QED BY <2>4 DEF i
<1>6. CASE e1 < q /\ q <= e2
  <2> DEFINE i == e1 + 2
  <2>1. i \in 2 .. Len(t) /\ e2 \in 1 .. Len(t) - 1 /\ q \in i .. e2 /\ i - 1 = e1 + 1 /\ i + 2 = e1 + 4
    BY <1>1, <1>2, <1>3, <1>6
  <2>2. t[i - 1] \in {LBrace, Comma} /\ t[e2 + 1] \in {Comma, RBrace} /\ EntryAt(t, i, p, o[2], e2)
    BY <1>1, <2>1
  <2> HIDE DEF i
  <2>4. q = i + 2
    BY <1>4, <2>1, <2>2, EntryQuotes
  <2> QED BY <2>1, <2>4
<1>7. CASE e2 < q
  <2> DEFINE i == e2 + 2
  <2>1. i \in 2 .. Len(t) /\ e3 \in 1 .. Len(t) - 1 /\ q \in i .. e3 /\ i - 1 = e2 + 1 /\ i + 2 = e2 + 4
    BY <1>1, <1>2, <1>3, <1>7
  <2>2. t[i - 1] \in {LBrace, Comma} /\ t[e3 + 1] \in {Comma, RBrace} /\ EntryAt(t, i, p, o[3], e3)
    BY <1>1, <2>1
  <2> HIDE DEF i
  <2>4. q = i + 2
    BY <1>4, <2>1, <2>2, EntryQuotes
  <2> QED BY <2>1, <2>4
<1> QED BY <1>5, <1>6, <1>7

(* An entry that nothing with its key comes before is the one that is      *)
(* found.                                                                  *)
LEMMA EntryIsFound ==
    ASSUME NEW t \in Seq(Char), NEW p, NEW key \in Keys, NEW i \in 2 .. Len(t), NEW e \in 1 .. Len(t),
           EntryAt(t, i, p, key, e), t[i - 1] \in {LBrace, Comma},
           \A q \in 1 .. Len(t) :
               t[q] = Quote /\ t[q + 1] = Colon /\ t[q - 1] = key => q = i + 2
    PROVE  json_find_key(t, key) = i + 4
<1>1. /\ e \in i + 4 .. Len(t) /\ t[i] = Quote /\ t[i + 1] = key /\ t[i + 2] = Quote /\ t[i + 3] = Colon
  BY DEF EntryAt
<1>2. key # Quote /\ key # LBrace /\ key # Comma
  BY CharsDiffer DEF Keys
<1>3. i \in 1 .. Len(t) /\ KeyHere(t, key, i) /\ ColonThere(t, i)
  <2>1. i \in 1 .. Len(t) /\ i + 2 <= Len(t) /\ i + 3 <= Len(t)
    BY <1>1
  <2> QED BY <1>1, <2>1, KeyHereIs DEF ColonThere
<1>4. ASSUME NEW j \in 1 .. Len(t), j < i
      PROVE  ~(KeyHere(t, key, j) /\ ColonThere(t, j))
  <2> SUFFICES ASSUME KeyHere(t, key, j), ColonThere(t, j)
               PROVE  FALSE
    OBVIOUS
  <2> DEFINE q == j + 2
  <2>1. t[j + 1] = key /\ t[j + 2] = Quote /\ t[j + 3] = Colon /\ j + 3 <= Len(t)
    BY KeyHereIs DEF ColonThere
  <2>2. q \in 1 .. Len(t) /\ q - 1 = j + 1 /\ q + 1 = j + 3 /\ q # i + 2
    BY <2>1, <1>4
  <2> HIDE DEF q
  <2>3. t[q] = Quote /\ t[q + 1] = Colon /\ t[q - 1] = key
    BY <2>1, <2>2 DEF q
  <2> QED BY <2>2, <2>3
<1>5. ASSUME NEW j \in 1 .. Len(t), j + 1 = i \/ j + 2 = i
      PROVE  ~KeyHere(t, key, j)
  <2> SUFFICES ASSUME KeyHere(t, key, j)
               PROVE  FALSE
    OBVIOUS
  <2>1. t[j + 1] = key /\ t[j + 2] = Quote
    BY KeyHereIs
  <2>2. CASE j + 1 = i
    BY <2>1, <2>2, <1>1, <1>2
  <2>3. CASE j + 2 = i
    <3>1. i - 1 = j + 1
      BY <2>3
    <3> QED BY <2>1, <3>1, <1>2
  <2> QED BY <1>5, <2>2, <2>3
<1> QED BY <1>3, <1>4, <1>5, FirstIsFound

Finds(t, p, key) ==
    \E i, e \in 1 .. Len(t) : EntryAt(t, i, p, key, e) /\ json_find_key(t, key) = i + 4

(* Whatever its values look like, each key of a manifest is found.         *)
LEMMA KeysAreFound ==
    ASSUME NEW p \in Packages, NEW o \in Orders, NEW t, IsManifest(t, p, o), NEW key \in Keys
    PROVE  Finds(t, p, key)
<1>0. t \in Seq(Char)
  BY DEF IsManifest
<1>1. PICK e1, e2, e3 \in 1 .. Len(t) : Manifests(t, p, o, e1, e2, e3)
  BY DEF IsManifest
<1>2. /\ t[1] = LBrace /\ EntryAt(t, 2, p, o[1], e1)
      /\ t[e1 + 1] = Comma /\ EntryAt(t, e1 + 2, p, o[2], e2)
      /\ t[e2 + 1] = Comma /\ EntryAt(t, e2 + 2, p, o[3], e3)
  BY <1>1 DEF Manifests
<1>3. /\ 2 \in 1 .. Len(t) /\ e1 \in 2 + 4 .. Len(t) /\ e2 \in (e1 + 2) + 4 .. Len(t)
      /\ e3 \in (e2 + 2) + 4 .. Len(t) /\ Len(t) \in Nat
      /\ t[3] = o[1] /\ t[(e1 + 2) + 1] = o[2] /\ t[(e2 + 2) + 1] = o[3]
  BY <1>0, <1>2 DEF EntryAt
<1>4. ASSUME NEW q \in 1 .. Len(t), t[q] = Quote, t[q + 1] = Colon, t[q - 1] = key
      PROVE  /\ q = 4 \/ q = e1 + 4 \/ q = e2 + 4
             /\ q = 4 => key = o[1]
             /\ q = e1 + 4 => key = o[2]
             /\ q = e2 + 4 => key = o[3]
  <2>1. q = 4 \/ q = e1 + 4 \/ q = e2 + 4
    BY <1>0, <1>1, <1>4, KeysAreThere
  <2>2. q = 4 => t[q - 1] = o[1]
    BY <1>3
  <2>3. q = e1 + 4 => t[q - 1] = o[2]
    <3>1. (e1 + 4) - 1 = (e1 + 2) + 1
      OBVIOUS
    <3> QED BY <1>3, <3>1
  <2>4. q = e2 + 4 => t[q - 1] = o[3]
    <3>1. (e2 + 4) - 1 = (e2 + 2) + 1
      OBVIOUS
    <3> QED BY <1>3, <3>1
  <2> QED BY <1>4, <2>1, <2>2, <2>3, <2>4
<1>5. o[1] # o[2] /\ o[1] # o[3] /\ o[2] # o[3] /\ (key = o[1] \/ key = o[2] \/ key = o[3])
  BY DEF Orders, Keys
<1>6. CASE key = o[1]
  <2> DEFINE i == 2
  <2>1. i \in 2 .. Len(t) /\ i \in 1 .. Len(t) /\ i - 1 = 1 /\ i + 2 = 4
    BY <1>3
  <2>2. EntryAt(t, i, p, key, e1) /\ t[i - 1] \in {LBrace, Comma}
    BY <1>2, <1>6, <2>1
  <2>3. \A q \in 1 .. Len(t) : t[q] = Quote /\ t[q + 1] = Colon /\ t[q - 1] = key => q = i + 2
    BY <1>4, <1>5, <1>6, <2>1
  <2> HIDE DEF i
  <2>4. json_find_key(t, key) = i + 4
    BY <1>0, <2>1, <2>2, <2>3, EntryIsFound
  <2> QED BY <2>1, <2>2, <2>4 DEF Finds
<1>7. CASE key = o[2]
  <2> DEFINE i == e1 + 2
  <2>1. i \in 2 .. Len(t) /\ i \in 1 .. Len(t) /\ i - 1 = e1 + 1 /\ i + 2 = e1 + 4
    BY <1>3
  <2>2. EntryAt(t, i, p, key, e2) /\ t[i - 1] \in {LBrace, Comma}
    BY <1>2, <1>7, <2>1
  <2>3. \A q \in 1 .. Len(t) : t[q] = Quote /\ t[q + 1] = Colon /\ t[q - 1] = key => q = i + 2
    BY <1>4, <1>5, <1>7, <2>1
  <2> HIDE DEF i
  <2>4. json_find_key(t, key) = i + 4
    BY <1>0, <2>1, <2>2, <2>3, EntryIsFound
  <2> QED BY <2>1, <2>2, <2>4 DEF Finds
<1>8. CASE key = o[3]
  <2> DEFINE i == e2 + 2
  <2>1. i \in 2 .. Len(t) /\ i \in 1 .. Len(t) /\ i - 1 = e2 + 1 /\ i + 2 = e2 + 4
    BY <1>3
  <2>2. EntryAt(t, i, p, key, e3) /\ t[i - 1] \in {LBrace, Comma}
    BY <1>2, <1>8, <2>1
  <2>3. \A q \in 1 .. Len(t) : t[q] = Quote /\ t[q + 1] = Colon /\ t[q - 1] = key => q = i + 2
    BY <1>4, <1>5, <1>8, <2>1
  <2> HIDE DEF i
  <2>4. json_find_key(t, key) = i + 4
    BY <1>0, <2>1, <2>2, <2>3, EntryIsFound
  <2> QED BY <2>1, <2>2, <2>4 DEF Finds
<1> QED BY <1>5, <1>6, <1>7, <1>8

(***************************************************************************)
(* Reading the dependencies.                                               *)
(***************************************************************************)
ItemPast(t, j) == IF t[j] = Quote THEN json_read_string(t, j, DepRoom).next ELSE j

ItemNext(t, j) ==
    IF ItemPast(t, j) <= Len(t) /\ t[ItemPast(t, j)] = Comma THEN ItemPast(t, j) + 1 ELSE ItemPast(t, j)

ItemsOver(t, j, n) == j > Len(t) \/ t[j] = RBracket \/ n = MaxDeps

ItemsAt(t) == (1 .. Len(t) + 2) \X (0 .. MaxDeps)

ItemsStep(t, f) ==
    [at \in ItemsAt(t) |->
        IF ItemsOver(t, at[1], at[2]) THEN <<>>
        ELSE IF ItemNext(t, at[1]) = at[1] THEN <<Number>>
        ELSE IF t[at[1]] = Quote
             THEN <<json_read_string(t, at[1], DepRoom).value>> \o f[<<ItemNext(t, at[1]), at[2] + 1>>]
        ELSE f[<<ItemNext(t, at[1]), at[2]>>]]

Items(t) == CHOOSE f : f = ItemsStep(t, f)

LEMMA StringArrayIs ==
    ASSUME NEW t, NEW key
    PROVE  json_get_string_array(t, key)
              = IF json_find_key(t, key) \in 1 .. Len(t) /\ t[json_find_key(t, key)] = LBracket
                THEN Items(t)[<<json_find_key(t, key) + 1, 0>>] ELSE <<>>
  BY DEF json_get_string_array, Items, ItemsStep, ItemsAt, ItemsOver, ItemNext, ItemPast

ItemsOn(t) == {at \in ItemsAt(t) : ~ItemsOver(t, at[1], at[2]) /\ ItemNext(t, at[1]) # at[1]}

ItemsNext(t) ==
    [at \in ItemsOn(t) |-> <<ItemNext(t, at[1]), IF t[at[1]] = Quote THEN at[2] + 1 ELSE at[2]>>]

ItemsRank(t) == [at \in ItemsAt(t) |-> Len(t) + 2 - at[1]]

Listing == Seq({Number} \cup Seq(Char))

(* Where a round of the loop comes to.                                     *)
LEMMA ItemNextIs ==
    ASSUME NEW t \in Seq(Char), NEW j \in 1 .. Len(t)
    PROVE  /\ ItemPast(t, j) \in j .. Len(t) + 2 /\ ItemNext(t, j) \in j .. Len(t) + 2
           /\ ItemNext(t, j) \in Nat
           /\ json_read_string(t, j, DepRoom).value \in Seq(Char)
           /\ Len(json_read_string(t, j, DepRoom).value) < DepRoom
<1> DEFINE r == json_read_string(t, j, DepRoom)
           L == Len(t)
<1>0. DepRoom \in Nat \ {0}
  BY ManifestAssumption DEF ManifestAssumption
<1>1. r \in ReadResult(t) /\ Len(r.value) < DepRoom /\ r.next > j
  BY <1>0, ReadStays
<1>2. r.next \in 1 .. L + 2 /\ r.value \in Seq(Char) /\ L \in Nat /\ j \in 1 .. L
  BY <1>1 DEF ReadResult
<1> DEFINE past == ItemPast(t, j)
<1>3. past \in j .. L + 2
  <2> DEFINE z == r.next
  <2>1. past = z \/ past = j
    BY DEF ItemPast
  <2>2. z \in 1 .. L + 2 /\ z > j
    BY <1>1, <1>2
  <2> HIDE DEF z, past, L
  <2> QED BY <2>1, <2>2, <1>2
<1>4. ItemNext(t, j) = past \/ (past <= L /\ ItemNext(t, j) = past + 1)
  BY DEF ItemNext
<1>5. ItemNext(t, j) \in j .. L + 2 /\ ItemNext(t, j) \in Nat
  <2> DEFINE y == ItemNext(t, j)
  <2> HIDE DEF past, L, y
  <2>1. y \in j .. L + 2 /\ y \in Nat
    BY <1>2, <1>3, <1>4 DEF y
  <2> QED BY <2>1 DEF y
<1> QED BY <1>1, <1>2, <1>3, <1>5

LEMMA ItemsGoOn ==
    ASSUME NEW t \in Seq(Char)
    PROVE  /\ ItemsRank(t) \in [ItemsAt(t) -> 0 .. Len(t) + 2]
           /\ ItemsNext(t) \in [ItemsOn(t) -> ItemsAt(t)]
           /\ Descends(ItemsOn(t), ItemsRank(t), ItemsNext(t))
<1> DEFINE L == Len(t)
<1>0. L \in Nat /\ MaxDeps \in Nat
  BY ManifestAssumption DEF ManifestAssumption
<1>1. ASSUME NEW at \in ItemsAt(t)
      PROVE  at[1] \in 1 .. L + 2 /\ at[2] \in 0 .. MaxDeps /\ L + 2 - at[1] \in 0 .. L + 2
  <2>1. at[1] \in 1 .. L + 2 /\ at[2] \in 0 .. MaxDeps
    BY DEF ItemsAt
  <2> HIDE DEF L
  <2> QED BY <2>1, <1>0
<1>2. ItemsRank(t) \in [ItemsAt(t) -> 0 .. L + 2]
  BY <1>1 DEF ItemsRank
<1>3. ASSUME NEW at \in ItemsOn(t)
      PROVE  /\ ItemsNext(t)[at] \in ItemsAt(t) /\ at \in ItemsAt(t)
             /\ ItemsNext(t)[at][1] > at[1]
  <2> DEFINE i == at[1]
             n == at[2]
             y == ItemNext(t, i)
             m == IF t[i] = Quote THEN n + 1 ELSE n
  <2>1. at \in ItemsAt(t) /\ ~(i > L) /\ n # MaxDeps /\ y # i
    BY DEF ItemsOn, ItemsOver
  <2>2. i \in 1 .. L + 2 /\ n \in 0 .. MaxDeps
    BY <1>1, <2>1
  <2>3. i \in 1 .. Len(t)
    BY <2>1, <2>2
  <2>4. y \in i .. L + 2
    BY <2>3, ItemNextIs
  <2>5. ItemsNext(t)[at] = <<y, m>>
    BY DEF ItemsNext
  <2>6. m = n \/ m = n + 1
    OBVIOUS
  <2> HIDE DEF L, i, n, y, m
  <2>7. y \in 1 .. L + 2 /\ m \in 0 .. MaxDeps /\ y > i
    BY <2>1, <2>2, <2>4, <2>6, <1>0
  <2>8. <<y, m>> \in ItemsAt(t)
    BY <2>7 DEF ItemsAt, L
  <2> QED BY <2>1, <2>5, <2>7, <2>8 DEF i
<1>4. ItemsNext(t) \in [ItemsOn(t) -> ItemsAt(t)]
  <2>1. \A at \in ItemsOn(t) : <<ItemNext(t, at[1]), IF t[at[1]] = Quote THEN at[2] + 1 ELSE at[2]>> \in ItemsAt(t)
    BY <1>3 DEF ItemsNext
  <2> QED BY <2>1 DEF ItemsNext
<1>5. ASSUME NEW at \in ItemsOn(t)
      PROVE  ItemsRank(t)[ItemsNext(t)[at]] < ItemsRank(t)[at]
  <2> DEFINE z == ItemsNext(t)[at]
             i == at[1]
             j == z[1]
  <2>1. z \in ItemsAt(t) /\ at \in ItemsAt(t) /\ j > i
    BY <1>3
  <2>2. ItemsRank(t)[z] = L + 2 - j /\ ItemsRank(t)[at] = L + 2 - i
    BY <2>1 DEF ItemsRank
  <2>3. i \in 1 .. L + 2 /\ j \in 1 .. L + 2
    BY <2>1, <1>1
  <2> HIDE DEF L, i, j, z
  <2>4. ItemsRank(t)[z] < ItemsRank(t)[at]
    BY <2>1, <2>2, <2>3, <1>0
  <2> QED BY <2>4 DEF z
<1> QED BY <1>2, <1>4, <1>5 DEF Descends

(* The scan is what its definition says, and lists texts.                  *)
LEMMA ItemsHold ==
    ASSUME NEW t \in Seq(Char)
    PROVE  /\ Items(t) = ItemsStep(t, Items(t))
           /\ Items(t) \in [ItemsAt(t) -> Listing]
<1> DEFINE X == ItemsAt(t)
           V == Listing
           D == ItemsOn(t)
           base == [at \in X |-> IF ItemsOver(t, at[1], at[2]) THEN <<>> ELSE <<Number>>]
           comb == [at \in D |-> [v \in V |->
                       IF t[at[1]] = Quote THEN <<json_read_string(t, at[1], DepRoom).value>> \o v ELSE v]]
           succ == ItemsNext(t)
<1>0. Len(t) + 2 \in Nat /\ D \in SUBSET X
  BY DEF ItemsOn
<1>1. base \in [X -> V]
  <2>1. <<>> \in V /\ <<Number>> \in V
    BY DEF Listing
  <2> HIDE DEF V
  <2> QED BY <2>1
<1>2. ASSUME NEW at \in D, NEW v \in V
      PROVE  (IF t[at[1]] = Quote THEN <<json_read_string(t, at[1], DepRoom).value>> \o v ELSE v) \in V
  <2>1. at[1] \in 1 .. Len(t)
    BY DEF ItemsOn, ItemsAt, ItemsOver
  <2> DEFINE s == json_read_string(t, at[1], DepRoom).value
  <2>2. s \in Seq(Char)
    BY <2>1, ItemNextIs
  <2> HIDE DEF s
  <2>3. <<s>> \o v \in V
    BY <2>2 DEF Listing
  <2> QED BY <2>3 DEF s
<1>3. comb \in [D -> [V -> V]]
  <2> HIDE DEF V
  <2> QED BY <1>2
<1>4. PICK f \in [X -> V] : Recurs(f, X, D, succ, base, comb)
  <2> HIDE DEF X, V, D, base, comb
  <2> DEFINE N == Len(t) + 2
             rk == ItemsRank(t)
  <2>1. N \in Nat /\ rk \in [X -> 0 .. N] /\ succ \in [D -> X] /\ Descends(D, rk, succ)
    BY ItemsGoOn DEF X, D
  <2> HIDE DEF N, rk, succ
  <2>2. HasFunction(X, V, D, succ, base, comb)
    BY <2>1, <1>0, <1>1, <1>3, RecursionHasFunction
  <2> QED BY <2>2 DEF HasFunction, succ
<1>5. ASSUME NEW x \in D
      PROVE  /\ succ[x] \in X
             /\ succ[x] = <<ItemNext(t, x[1]), IF t[x[1]] = Quote THEN x[2] + 1 ELSE x[2]>>
  BY ItemsGoOn DEF ItemsNext
<1> DEFINE Body(g, x) ==
        IF ItemsOver(t, x[1], x[2]) THEN <<>>
        ELSE IF ItemNext(t, x[1]) = x[1] THEN <<Number>>
        ELSE IF t[x[1]] = Quote
             THEN <<json_read_string(t, x[1], DepRoom).value>> \o g[<<ItemNext(t, x[1]), x[2] + 1>>]
        ELSE g[<<ItemNext(t, x[1]), x[2]>>]
<1>6. ASSUME NEW x \in X
      PROVE  f[x] = Body(f, x)
  <2>1. f[x] = IF x \in D THEN comb[x][f[succ[x]]] ELSE base[x]
    BY <1>4 DEF Recurs
  <2>2. CASE x \in D
    <3>1. f[succ[x]] \in V
      BY <1>5, <2>2
    <3>2. f[x] = IF t[x[1]] = Quote THEN <<json_read_string(t, x[1], DepRoom).value>> \o f[succ[x]] ELSE f[succ[x]]
      BY <2>1, <2>2, <3>1
    <3>3. ~ItemsOver(t, x[1], x[2]) /\ ItemNext(t, x[1]) # x[1]
      BY <2>2 DEF ItemsOn
    <3>4. succ[x] = <<ItemNext(t, x[1]), IF t[x[1]] = Quote THEN x[2] + 1 ELSE x[2]>>
      BY <1>5, <2>2
    <3> HIDE DEF succ
    <3>5. CASE t[x[1]] = Quote
      BY <3>2, <3>3, <3>4, <3>5
    <3>6. CASE t[x[1]] # Quote
      BY <3>2, <3>3, <3>4, <3>6
    <3> QED BY <3>5, <3>6
  <2>3. CASE x \notin D
    <3>1. ItemsOver(t, x[1], x[2]) \/ ItemNext(t, x[1]) = x[1]
      BY <2>3 DEF ItemsOn
    <3>2. f[x] = base[x]
      BY <2>1, <2>3
    <3>3. f[x] = IF ItemsOver(t, x[1], x[2]) THEN <<>> ELSE <<Number>>
      BY <3>2
    <3> QED BY <3>1, <3>3
  <2> QED BY <2>2, <2>3
<1>7. f = ItemsStep(t, f)
  <2>1. f = [x \in X |-> Body(f, x)]
    <3> HIDE DEF Body, X, V
    <3> QED BY <1>6
  <2> QED BY <2>1 DEF ItemsStep
<1> DEFINE F == Items(t)
<1>8. F = ItemsStep(t, F)
  BY <1>7 DEF Items
<1>9. F \in [X -> V]
  <2> HIDE DEF F
  <2> DEFINE T == {x \in X : F[x] \in V}
  <2>0. \A x \in X : F[x] = Body(F, x)
    BY <1>8 DEF ItemsStep
  <2>1. X \ D \subseteq T
    <3> SUFFICES ASSUME NEW x \in X, x \notin D
                 PROVE  F[x] \in V
      OBVIOUS
    <3>1. ItemsOver(t, x[1], x[2]) \/ ItemNext(t, x[1]) = x[1]
      BY DEF ItemsOn
    <3>2. F[x] = <<>> \/ F[x] = <<Number>>
      BY <2>0, <3>1
    <3>3. <<>> \in V /\ <<Number>> \in V
      BY DEF Listing
    <3> HIDE DEF F, V
    <3> QED BY <3>2, <3>3
  <2>2. ASSUME NEW x \in D, succ[x] \in T
        PROVE  x \in T
    <3>1. x \in X /\ ~ItemsOver(t, x[1], x[2]) /\ ItemNext(t, x[1]) # x[1]
      BY DEF ItemsOn
    <3>2. F[x] = Body(F, x)
      BY <2>0, <3>1
    <3>3. F[succ[x]] \in V
      BY <2>2
    <3>4. succ[x] = <<ItemNext(t, x[1]), IF t[x[1]] = Quote THEN x[2] + 1 ELSE x[2]>>
      BY <1>5
    <3>5. F[x] = IF t[x[1]] = Quote THEN <<json_read_string(t, x[1], DepRoom).value>> \o F[succ[x]] ELSE F[succ[x]]
      <4> HIDE DEF succ
      <4>1. CASE t[x[1]] = Quote
        BY <3>1, <3>2, <3>4, <4>1
      <4>2. CASE t[x[1]] # Quote
        BY <3>1, <3>2, <3>4, <4>2
      <4> QED BY <4>1, <4>2
    <3>6. F[x] \in V
      <4> HIDE DEF V, D, X, succ
      <4> QED BY <1>2, <3>3, <3>5
    <3> QED BY <3>1, <3>6
  <2>3. X \subseteq T
    <3> HIDE DEF X, D, T, V
    <3> DEFINE N == Len(t) + 2
               rk == ItemsRank(t)
    <3>1. N \in Nat /\ rk \in [X -> 0 .. N] /\ succ \in [D -> X] /\ Descends(D, rk, succ)
      BY ItemsGoOn DEF X, D
    <3>2. Inherited(D, succ, T)
      BY <2>2 DEF Inherited
    <3> HIDE DEF N, rk, succ
    <3> QED BY <3>1, <3>2, <1>0, <2>1, RecursionHolds
  <2>4. F = [x \in X |-> F[x]]
    <3>1. ItemsStep(t, F) = [x \in X |-> ItemsStep(t, F)[x]]
      BY DEF ItemsStep
    <3> QED BY <3>1, <1>8
  <2> QED BY <2>3, <2>4
<1> QED BY <1>8, <1>9

(* One round of the scan.                                                  *)
ItemsTurn(t, j, n) ==
    LET r == Items(t)[<<j, n>>]
        s == json_read_string(t, j, DepRoom).value
        next == ItemNext(t, j)
    IN  /\ r \in Listing /\ <<j, n>> \in ItemsAt(t)
        /\ ItemsOver(t, j, n) => r = <<>>
        /\ ~ItemsOver(t, j, n) =>
               /\ j \in 1 .. Len(t) /\ n < MaxDeps
               /\ next = j => r = <<Number>>
               /\ next # j =>
                      /\ next \in 1 .. Len(t) + 2
                      /\ t[j] = Quote => /\ Items(t)[<<next, n + 1>>] \in Listing
                                         /\ r = <<s>> \o Items(t)[<<next, n + 1>>]
                      /\ t[j] # Quote => r = Items(t)[<<next, n>>]

LEMMA ItemsTurns ==
    ASSUME NEW t \in Seq(Char), NEW j \in 1 .. Len(t) + 2, NEW n \in 0 .. MaxDeps
    PROVE  ItemsTurn(t, j, n)
<1> DEFINE F == Items(t)
           x == <<j, n>>
<1>0. F = ItemsStep(t, F) /\ F \in [ItemsAt(t) -> Listing] /\ MaxDeps \in Nat
  BY ItemsHold, ManifestAssumption DEF ManifestAssumption
<1>1. x \in ItemsAt(t) /\ x[1] = j /\ x[2] = n
  BY DEF ItemsAt
<1>2. F[x] \in Listing
  BY <1>0, <1>1
<1>3. F[x] = IF ItemsOver(t, j, n) THEN <<>>
             ELSE IF ItemNext(t, j) = j THEN <<Number>>
             ELSE IF t[j] = Quote
                  THEN <<json_read_string(t, j, DepRoom).value>> \o F[<<ItemNext(t, j), n + 1>>]
             ELSE F[<<ItemNext(t, j), n>>]
  <2> HIDE DEF F, x
  <2> QED BY <1>0, <1>1 DEF ItemsStep
<1>4. ASSUME ~ItemsOver(t, j, n)
      PROVE  /\ j \in 1 .. Len(t) /\ n < MaxDeps /\ ItemNext(t, j) \in 1 .. Len(t) + 2
             /\ F[<<ItemNext(t, j), n + 1>>] \in Listing
  <2>1. ~(j > Len(t)) /\ n # MaxDeps
    BY <1>4 DEF ItemsOver
  <2>2. j \in 1 .. Len(t) /\ n < MaxDeps /\ n + 1 \in 0 .. MaxDeps
    BY <2>1, <1>0
  <2>3. ItemNext(t, j) \in j .. Len(t) + 2 /\ ItemNext(t, j) \in Nat
    BY <2>2, ItemNextIs
  <2>4. ItemNext(t, j) \in 1 .. Len(t) + 2
    BY <2>2, <2>3
  <2>5. <<ItemNext(t, j), n + 1>> \in ItemsAt(t)
    BY <2>2, <2>4 DEF ItemsAt
  <2> QED BY <1>0, <2>2, <2>4, <2>5
<1> HIDE DEF F, x
<1>5. ItemsOver(t, j, n) => F[x] = <<>>
  BY <1>3
<1>6. ~ItemsOver(t, j, n) /\ ItemNext(t, j) = j => F[x] = <<Number>>
  BY <1>3
<1>7. ~ItemsOver(t, j, n) /\ ItemNext(t, j) # j /\ t[j] = Quote =>
          F[x] = <<json_read_string(t, j, DepRoom).value>> \o F[<<ItemNext(t, j), n + 1>>]
  BY <1>3
<1>8. ~ItemsOver(t, j, n) /\ ItemNext(t, j) # j /\ t[j] # Quote => F[x] = F[<<ItemNext(t, j), n>>]
  BY <1>3
<1> QED BY <1>1, <1>2, <1>4, <1>5, <1>6, <1>7, <1>8 DEF ItemsTurn, F, x

(* What the scan may list, of a text of any kind.                          *)
Listable(ds, n) ==
    /\ ds \in Listing /\ Len(ds) <= n
    /\ \A k \in 1 .. Len(ds) : ds[k] # Number => ds[k] \in Seq(Char) /\ Len(ds[k]) < DepRoom

LEMMA ListableGrows ==
    ASSUME NEW ds, NEW n \in Nat, Listable(ds, n), NEW s \in Seq(Char), Len(s) < DepRoom
    PROVE  Listable(<<s>> \o ds, n + 1)
<1> DEFINE A == {Number} \cup Seq(Char)
           r == <<s>> \o ds
           L == Len(ds)
<1>1. ds \in Seq(A) /\ L \in Nat /\ L <= n
  BY DEF Listable, Listing
<1>2. s \in A /\ <<s>> \in Seq(A)
  OBVIOUS
<1>3. r \in Seq(A) /\ Len(r) = 1 + L
  <2> HIDE DEF A
  <2> QED BY <1>1, <1>2, ConcatProperties
<1>4. \A k \in 1 .. 1 + L : r[k] = IF k = 1 THEN s ELSE ds[k - 1]
  <2> HIDE DEF A
  <2> QED BY <1>1, <1>2, ConcatProperties
<1>5. \A k \in 1 .. L : ds[k] # Number => ds[k] \in Seq(Char) /\ Len(ds[k]) < DepRoom
  BY DEF Listable
<1>6. ASSUME NEW k \in 1 .. 1 + L, r[k] # Number
      PROVE  r[k] \in Seq(Char) /\ Len(r[k]) < DepRoom
  <2> HIDE DEF A, r
  <2>1. CASE k = 1
    BY <1>1, <1>4, <2>1
  <2>2. CASE k # 1
    <3> HIDE DEF L
    <3>1. k - 1 \in 1 .. L
      BY <1>1, <2>2
    <3>2. r[k] = ds[k - 1]
      BY <1>4, <2>2
    <3>3. ds[k - 1] # Number
      BY <3>2, <1>6
    <3> QED BY <1>5, <3>1, <3>2, <3>3
  <2> QED BY <2>1, <2>2
<1>7. Len(r) <= n + 1
  BY <1>1, <1>3
<1> HIDE DEF r
<1> QED BY <1>3, <1>6, <1>7 DEF Listable, Listing, r

LEMMA ItemsStay ==
    ASSUME NEW t \in Seq(Char)
    PROVE  \A at \in ItemsAt(t) : Listable(Items(t)[at], MaxDeps - at[2])
<1> DEFINE F == Items(t)
           X == ItemsAt(t)
           D == ItemsOn(t)
           T == {x \in X : Listable(F[x], MaxDeps - x[2])}
<1>0. MaxDeps \in Nat
  BY ManifestAssumption DEF ManifestAssumption
<1>1. ASSUME NEW x \in X
      PROVE  /\ x = <<x[1], x[2]>> /\ x[1] \in 1 .. Len(t) + 2 /\ x[2] \in 0 .. MaxDeps
             /\ ItemsTurn(t, x[1], x[2])
  <2>1. x = <<x[1], x[2]>> /\ x[1] \in 1 .. Len(t) + 2 /\ x[2] \in 0 .. MaxDeps
    BY DEF ItemsAt
  <2> QED BY <2>1, ItemsTurns
<1>2. ASSUME NEW n \in Nat
      PROVE  Listable(<<>>, n)
  BY DEF Listable, Listing
<1>3. ASSUME NEW n \in Nat, n # 0
      PROVE  Listable(<<Number>>, n)
  BY <1>3 DEF Listable, Listing
<1>4. X \ D \subseteq T
  <2> SUFFICES ASSUME NEW x \in X, x \notin D
               PROVE  Listable(F[x], MaxDeps - x[2])
    OBVIOUS
  <2> DEFINE i == x[1]
             n == x[2]
  <2>1. x = <<i, n>> /\ n \in 0 .. MaxDeps /\ ItemsTurn(t, i, n)
    BY <1>1
  <2>2. ItemsOver(t, i, n) \/ ItemNext(t, i) = i
    BY DEF ItemsOn
  <2>3. CASE ItemsOver(t, i, n)
    <3>1. F[x] = <<>>
      BY <2>1, <2>3 DEF ItemsTurn
    <3>2. MaxDeps - n \in Nat
      BY <2>1, <1>0
    <3> QED BY <3>1, <3>2, <1>2
  <2>4. CASE ~ItemsOver(t, i, n) /\ ItemNext(t, i) = i
    <3>1. F[x] = <<Number>> /\ n < MaxDeps
      BY <2>1, <2>4 DEF ItemsTurn
    <3>2. MaxDeps - n \in Nat /\ MaxDeps - n # 0
      BY <2>1, <1>0, <3>1
    <3> QED BY <3>1, <3>2, <1>3
  <2> QED BY <2>2, <2>3, <2>4
<1>5. Inherited(D, ItemsNext(t), T)
  <2> SUFFICES ASSUME NEW x \in D, ItemsNext(t)[x] \in T
               PROVE  x \in T
    BY DEF Inherited
  <2> DEFINE i == x[1]
             n == x[2]
             z == ItemNext(t, i)
             s == json_read_string(t, i, DepRoom).value
             y == ItemsNext(t)[x]
  <2>0. x \in X /\ ~ItemsOver(t, i, n) /\ z # i
    BY DEF ItemsOn
  <2>1. x = <<i, n>> /\ n \in 0 .. MaxDeps /\ ItemsTurn(t, i, n)
    BY <1>1, <2>0
  <2>2. y = <<z, IF t[i] = Quote THEN n + 1 ELSE n>>
    BY DEF ItemsNext
  <2>3. Listable(F[y], MaxDeps - y[2])
    OBVIOUS
  <2>4. i \in 1 .. Len(t) /\ n < MaxDeps
    BY <2>0, <2>1 DEF ItemsTurn
  <2>5. s \in Seq(Char) /\ Len(s) < DepRoom
    BY <2>4, ItemNextIs
  <2>6. CASE t[i] = Quote
    <3>1. F[x] = <<s>> \o F[<<z, n + 1>>]
      BY <2>0, <2>1, <2>6 DEF ItemsTurn
    <3>2. y = <<z, n + 1>> /\ y[2] = n + 1
      BY <2>2, <2>6
    <3> DEFINE m == MaxDeps - (n + 1)
    <3>3. m \in Nat /\ m + 1 = MaxDeps - n
      BY <2>1, <2>4, <1>0
    <3>4. Listable(F[<<z, n + 1>>], m)
      <4> HIDE DEF F, y, z, n
      <4> QED BY <2>3, <3>2
    <3>5. Listable(<<s>> \o F[<<z, n + 1>>], m + 1)
      <4> HIDE DEF m, s, F, z, n
      <4> QED BY <3>3, <3>4, <2>5, ListableGrows
    <3>6. Listable(F[x], MaxDeps - n)
      <4> HIDE DEF s, F, z, n
      <4> QED BY <3>1, <3>3, <3>5
    <3> QED BY <3>6, <2>0
  <2>7. CASE t[i] # Quote
    <3>1. F[x] = F[<<z, n>>]
      BY <2>0, <2>1, <2>7 DEF ItemsTurn
    <3>2. y = <<z, n>> /\ y[2] = n
      BY <2>2, <2>7
    <3>3. Listable(F[x], MaxDeps - n)
      <4> HIDE DEF F, z, y, n
      <4> QED BY <3>1, <3>2, <2>3
    <3> QED BY <3>3, <2>0
  <2> QED BY <2>6, <2>7
<1>6. X \subseteq T
  <2> HIDE DEF X, D, T
  <2> DEFINE N == Len(t) + 2
             rk == ItemsRank(t)
             succ == ItemsNext(t)
  <2>1. N \in Nat /\ rk \in [X -> 0 .. N] /\ succ \in [D -> X] /\ Descends(D, rk, succ)
    BY ItemsGoOn DEF X, D
  <2>2. Inherited(D, succ, T)
    BY <1>5
  <2>3. D \in SUBSET X
    BY DEF D, X, ItemsOn
  <2> HIDE DEF N, rk, succ
  <2> QED BY <2>1, <2>2, <2>3, <1>4, RecursionHolds
<1> QED BY <1>6

(* The dependencies of a text of any kind.                                 *)
LEMMA ArrayIsListable ==
    ASSUME NEW t \in Seq(Char), NEW key
    PROVE  Listable(json_get_string_array(t, key), MaxDeps)
<1> DEFINE k == json_find_key(t, key)
<1>0. MaxDeps \in Nat /\ MaxDeps - 0 = MaxDeps
  BY ManifestAssumption DEF ManifestAssumption
<1>1. CASE k \in 1 .. Len(t) /\ t[k] = LBracket
  <2> DEFINE x == <<k + 1, 0>>
  <2>1. x \in ItemsAt(t) /\ x[2] = 0
    BY <1>0, <1>1 DEF ItemsAt
  <2>2. json_get_string_array(t, key) = Items(t)[x]
    BY <1>1, StringArrayIs
  <2> HIDE DEF x
  <2> QED BY <2>1, <2>2, <1>0, ItemsStay
<1>2. CASE ~(k \in 1 .. Len(t) /\ t[k] = LBracket)
  <2>1. json_get_string_array(t, key) = <<>>
    BY <1>2, StringArrayIs
  <2> QED BY <2>1, <1>0 DEF Listable, Listing
<1> QED BY <1>1, <1>2

CutDeps(vs) == IF Len(vs) < MaxDeps THEN Len(vs) ELSE MaxDeps

(* The scan has read the first m values.                                   *)
HasListed(t, i, vs, at, m) ==
    Items(t)[<<i + 1, 0>>] = SubSeq(vs, 1, m) \o Items(t)[<<at[m], m>>]

(* A value that fits is read, and the scan comes to the next.              *)
LEMMA ItemIsRead ==
    ASSUME NEW t \in Seq(Char), NEW v \in Seq(Char), Len(v) < DepRoom, NEW last \in BOOLEAN,
           NEW p \in 1 .. Len(t), NEW q \in 1 .. Len(t), ListItem(t, p, q, v, last),
           last => t[q] = RBracket, NEW n \in 0 .. MaxDeps, n # MaxDeps
    PROVE  /\ Items(t)[<<p, n>>] = <<v>> \o Items(t)[<<q, n + 1>>]
           /\ Items(t)[<<q, n + 1>>] \in Listing
<1> DEFINE r == json_read_string(t, p, DepRoom)
<1>0. DepRoom \in Nat \ {0} /\ MaxDeps \in Nat /\ Len(t) \in Nat
  BY ManifestAssumption DEF ManifestAssumption
<1>1. PICK z \in 1 .. Len(t) : /\ Spelt(t, p, v, z)
                               /\ last => q = z + 1
                               /\ ~last => q = z + 2 /\ t[z + 1] = Comma
  BY DEF ListItem
<1>2. p < z /\ t[p] = Quote
  BY <1>1, SpeltGoesOn
<1>3. r.value = Cut(v, DepRoom) /\ r.next = z + 1
  BY <1>0, <1>1, SpeltIsRead
<1>4. Cut(v, DepRoom) = v
  BY DEF Cut
<1>5. Quote # RBracket /\ Comma # RBracket
  BY CharsDiffer
<1>6. ItemPast(t, p) = z + 1
  BY <1>2, <1>3 DEF ItemPast
<1>7. ItemNext(t, p) = q
  <2>1. CASE last
    <3>1. q = z + 1 /\ t[z + 1] = RBracket
      BY <1>1, <2>1
    <3> QED BY <3>1, <1>5, <1>6 DEF ItemNext
  <2>2. CASE ~last
    <3>1. q = z + 2 /\ t[z + 1] = Comma /\ z + 1 <= Len(t) /\ (z + 1) + 1 = q
      BY <1>0, <1>1, <2>2
    <3> QED BY <3>1, <1>6 DEF ItemNext
  <2> QED BY <2>1, <2>2
<1>8. ~ItemsOver(t, p, n)
  BY <1>0, <1>2, <1>5 DEF ItemsOver
<1>9. q # p
  BY <1>1, <1>2, <1>0
<1>10. ItemsTurn(t, p, n)
  <2>1. p \in 1 .. Len(t) + 2
    BY <1>0
  <2> QED BY <2>1, ItemsTurns
<1> QED BY <1>2, <1>3, <1>4, <1>7, <1>8, <1>9, <1>10 DEF ItemsTurn

LEMMA ListedSoFar ==
    ASSUME NEW t \in Seq(Char), NEW vs \in Seq(Seq(Char)), \A k \in 1 .. Len(vs) : Len(vs[k]) < DepRoom,
           NEW i \in 1 .. Len(t), NEW e \in 1 .. Len(t),
           NEW at \in [0 .. Len(vs) -> 1 .. Len(t)], Lists(t, i, vs, e, at),
           NEW m \in 0 .. CutDeps(vs)
    PROVE  HasListed(t, i, vs, at, m)
<1> DEFINE F == Items(t)
           C == CutDeps(vs)
           r == F[<<i + 1, 0>>]
           N == Len(vs)
           A == {Number} \cup Seq(Char)
           Turned(n) == r = SubSeq(vs, 1, n) \o F[<<at[n], n>>]
           S == {n \in Nat : n <= C => Turned(n)}
<1>0. C \in Nat /\ C <= N /\ C <= MaxDeps /\ MaxDeps \in Nat /\ N \in Nat
  BY ManifestAssumption DEF CutDeps, ManifestAssumption
<1>1. vs \in Seq(A)
  <2> DEFINE d == 1 .. N
  <2>1. \A k \in d : vs[k] \in A
    <3> SUFFICES ASSUME NEW k \in d
                 PROVE  vs[k] \in Seq(Char)
      OBVIOUS
    <3> DEFINE B == Seq(Char)
    <3>1. vs \in Seq(B) /\ k \in 1 .. Len(vs)
      OBVIOUS
    <3> HIDE DEF B
    <3>2. vs[k] \in B
      BY <3>1, ElementOfSeq
    <3> QED BY <3>2 DEF B
  <2>2. vs = [k \in 1 .. N |-> vs[k]]
    OBVIOUS
  <2> HIDE DEF A
  <2>3. vs \in [d -> A] /\ DOMAIN vs = d
    <3> HIDE DEF d
    <3> QED BY <2>1, <2>2 DEF d
  <2> HIDE DEF N
  <2> QED BY <1>0, <2>3
<1>2. 0 \in S
  <2>1. at[0] = i + 1
    BY DEF Lists
  <2>2. i + 1 \in 1 .. Len(t) + 2 /\ 0 \in 0 .. MaxDeps
    BY <1>0
  <2>3. ItemsTurn(t, i + 1, 0)
    BY <2>2, ItemsTurns
  <2>4. r \in Seq(A)
    BY <2>3 DEF ItemsTurn, Listing
  <2>5. SubSeq(vs, 1, 0) = <<>>
    OBVIOUS
  <2> HIDE DEF A, r
  <2>6. r = <<>> \o r
    BY <2>4
  <2> QED BY <2>1, <2>5, <2>6 DEF r
<1>3. ASSUME NEW n \in S
      PROVE  n + 1 \in S
  <2> SUFFICES ASSUME n + 1 <= C
               PROVE  Turned(n + 1)
    <3> HIDE DEF Turned, C
    <3> QED OBVIOUS
  <2>0. n \in Nat /\ n < C /\ n \in 0 .. MaxDeps /\ n # MaxDeps /\ n < N /\ n <= C
    <3>1. n \in Nat /\ n + 1 <= C
      OBVIOUS
    <3> HIDE DEF C, N
    <3> QED BY <3>1, <1>0
  <2>1. Turned(n)
    <3> HIDE DEF Turned, C
    <3> QED BY <2>0
  <2>2. n + 1 \in 1 .. N /\ (n + 1) - 1 = n /\ n \in 0 .. N /\ n + 1 \in 0 .. N
    BY <1>0, <2>0
  <2> DEFINE p == at[n]
             q == at[n + 1]
             v == vs[n + 1]
             last == (n + 1 = N)
             s == F[<<q, n + 1>>]
  <2>3. p \in 1 .. Len(t) /\ q \in 1 .. Len(t)
    BY <2>2
  <2>4. ListItem(t, p, q, v, last)
    <3>1. ListItem(t, at[(n + 1) - 1], at[n + 1], vs[n + 1], n + 1 = Len(vs))
      BY <2>2 DEF Lists
    <3> QED BY <2>2, <3>1
  <2>5. last => t[q] = RBracket
    BY DEF Lists
  <2>6. v \in Seq(Char) /\ Len(v) < DepRoom /\ last \in BOOLEAN
    <3> DEFINE B == Seq(Char)
    <3>1. vs \in Seq(B) /\ n + 1 \in 1 .. Len(vs)
      BY <2>2
    <3> HIDE DEF B
    <3>2. vs[n + 1] \in B
      BY <3>1, ElementOfSeq
    <3> QED BY <3>1, <3>2 DEF B
  <2>7. F[<<p, n>>] = <<v>> \o s /\ s \in Seq(A)
    <3>1. F[<<p, n>>] = <<v>> \o s /\ s \in Listing
      <4> HIDE DEF p, q, v, last
      <4> QED BY <2>0, <2>3, <2>4, <2>5, <2>6, ItemIsRead
    <3> QED BY <3>1 DEF Listing
  <2>8. Moved(vs, n, s)
    <3> HIDE DEF A, s
    <3>1. n < Len(vs)
      BY <2>0
    <3> QED BY <2>0, <3>1, <2>7, <1>1, OneMore
  <2> QED BY <2>1, <2>7, <2>8 DEF Moved
<1>4. Turned(m)
  <2>1. S \subseteq Nat
    OBVIOUS
  <2> HIDE DEF S
  <2>2. \A n \in Nat : n \in S
    BY <1>2, <1>3, <2>1, AllNumbers
  <2>3. m \in S /\ m <= C
    BY <2>2, <1>0
  <2> QED BY <2>3 DEF S
<1> QED BY <1>4 DEF HasListed

(* What a text lists is read, up to MaxDeps.                               *)
LEMMA ListIsRead ==
    ASSUME NEW t \in Seq(Char), NEW vs \in Seq(Seq(Char)), \A k \in 1 .. Len(vs) : Len(vs[k]) < DepRoom,
           NEW i \in 1 .. Len(t), NEW e \in 1 .. Len(t), ListedAt(t, i, vs, e)
    PROVE  Items(t)[<<i + 1, 0>>] = SubSeq(vs, 1, CutDeps(vs))
<1> DEFINE m == CutDeps(vs)
           F == Items(t)
<1>0. m \in Nat /\ m \in 0 .. m /\ m \in 0 .. Len(vs) /\ m \in 0 .. MaxDeps /\ MaxDeps \in Nat
  BY ManifestAssumption DEF CutDeps, ManifestAssumption
<1>1. PICK at \in [0 .. Len(vs) -> 1 .. Len(t)] : Lists(t, i, vs, e, at)
  BY DEF ListedAt
<1>2. HasListed(t, i, vs, at, m)
  BY <1>0, <1>1, ListedSoFar
<1> DEFINE p == at[m]
<1>3. p \in 1 .. Len(t) /\ p \in 1 .. Len(t) + 2
  BY <1>0
<1>4. m = Len(vs) \/ m = MaxDeps
  BY DEF CutDeps
<1>5. ItemsOver(t, p, m)
  BY <1>1, <1>4 DEF Lists, ItemsOver
<1>6. ItemsTurn(t, p, m)
  BY <1>0, <1>3, ItemsTurns
<1>7. F[<<p, m>>] = <<>>
  BY <1>5, <1>6 DEF ItemsTurn
<1>8. F[<<i + 1, 0>>] = SubSeq(vs, 1, m) \o <<>>
  BY <1>2, <1>7 DEF HasListed
<1>9. SubSeq(vs, 1, m) \in Seq(Seq(Char))
  <2> DEFINE B == Seq(Char)
  <2>1. vs \in Seq(B)
    OBVIOUS
  <2> HIDE DEF B, m
  <2>2. SubSeq(vs, 1, m) \in Seq(B)
    BY <1>0, <2>1
  <2> QED BY <2>2 DEF B
<1>10. SubSeq(vs, 1, m) \o <<>> = SubSeq(vs, 1, m)
  <2> DEFINE B == Seq(Char)
             u == SubSeq(vs, 1, m)
  <2> HIDE DEF B, u
  <2>1. u \in Seq(B)
    BY <1>9 DEF B, u
  <2> QED BY <2>1 DEF u
<1> QED BY <1>8, <1>10

GetsString(t, key, v, room) == json_get_string(t, key, room) = Cut(v, room)

LEMMA GetStringIs ==
    ASSUME NEW t, NEW key, NEW room
    PROVE  json_get_string(t, key, room)
              = IF json_find_key(t, key) \in 1 .. Len(t) /\ t[json_find_key(t, key)] = Quote
                THEN json_read_string(t, json_find_key(t, key), room).value ELSE <<>>
  BY DEF json_get_string

(* The strings of a manifest are read as far as there is room for them.    *)
LEMMA StringIsGot ==
    ASSUME NEW t \in Seq(Char), NEW key, NEW v \in Seq(Char), NEW room \in Nat \ {0},
           NEW i \in 1 .. Len(t), NEW e \in 1 .. Len(t), Spelt(t, i, v, e), json_find_key(t, key) = i
    PROVE  GetsString(t, key, v, room)
<1>1. t[i] = Quote
  BY SpeltGoesOn
<1>2. json_read_string(t, i, room).value = Cut(v, room)
  BY SpeltIsRead
<1>3. json_get_string(t, key, room) = json_read_string(t, i, room).value
  BY <1>1, GetStringIs
<1> QED BY <1>2, <1>3 DEF GetsString

LEMMA NumberIsNoText ==
    ASSUME NEW ds \in Seq(Seq(Char))
    PROVE  Number \notin {ds[k] : k \in DOMAIN ds}
<1> SUFFICES ASSUME NEW k \in DOMAIN ds
             PROVE  ds[k] # Number
  OBVIOUS
<1>1. k \in 1 .. Len(ds) /\ Number \notin Seq(Char)
  BY ManifestAssumption DEF ManifestAssumption
<1> DEFINE B == Seq(Char)
<1>2. ds \in Seq(B) /\ Number \notin B
  BY <1>1
<1> HIDE DEF B
<1>3. ds[k] \in B
  BY <1>1, <1>2, ElementOfSeq
<1> QED BY <1>2, <1>3

LEMMA ParseIs ==
    ASSUME NEW t
    PROVE  manifest_parse_string(t)
              = LET deps    == json_get_string_array(t, "d")
                    version == json_get_string(t, "v", VersionRoom)
                    name    == json_get_string(t, "n", NameRoom)
                IN  IF name = <<>> THEN Failed
                    ELSE IF Number \in {deps[k] : k \in DOMAIN deps} THEN Hangs
                    ELSE [name |-> name, version |-> IF version = <<>> THEN <<"0">> ELSE version,
                          deps |-> deps]
  BY DEF manifest_parse_string

LEMMA CutIsNone ==
    ASSUME NEW v \in Seq(Char), NEW room \in Nat \ {0, 1}
    PROVE  Cut(v, room) = <<>> <=> v = <<>>
<1> DEFINE m == IF Len(v) < room THEN Len(v) ELSE room - 1
<1>1. m \in 0 .. Len(v) /\ m \in Nat /\ (m = 0 <=> Len(v) = 0)
  OBVIOUS
<1>2. Cut(v, room) = SubSeq(v, 1, m)
  BY DEF Cut
<1> HIDE DEF m
<1>3. SubSeq(v, 1, m) \in Seq(Char) /\ Len(SubSeq(v, 1, m)) = m
  BY <1>1, SubSeqProperties
<1> DEFINE w == SubSeq(v, 1, m)
<1>4. w = <<>> <=> Len(w) = 0
  <2> HIDE DEF w
  <2>1. w \in Seq(Char)
    BY <1>3 DEF w
  <2> QED BY <2>1, EmptySeq
<1>5. v = <<>> <=> Len(v) = 0
  BY EmptySeq
<1> QED BY <1>1, <1>2, <1>3, <1>4, <1>5

(* The dependencies of a manifest are read, up to MaxDeps.                 *)
LEMMA DepsAreGot ==
    ASSUME NEW p \in Packages, \A k \in 1 .. Len(p.deps) : Len(p.deps[k]) < DepRoom,
           NEW o \in Orders, NEW t, IsManifest(t, p, o)
    PROVE  json_get_string_array(t, "d") = SubSeq(p.deps, 1, CutDeps(p.deps))
<1>0. t \in Seq(Char) /\ p.deps \in Seq(Seq(Char))
  BY DEF IsManifest, Packages
<1>1. Finds(t, p, "d")
  BY KeysAreFound DEF Keys
<1>2. PICK i, e \in 1 .. Len(t) : EntryAt(t, i, p, "d", e) /\ json_find_key(t, "d") = i + 4
  BY <1>1 DEF Finds
<1>3. ListedAt(t, i + 4, p.deps, e) /\ i + 4 \in 1 .. Len(t)
  BY <1>2 DEF EntryAt
<1>4. t[i + 4] = LBracket
  BY <1>3 DEF ListedAt, Lists
<1>5. json_get_string_array(t, "d") = Items(t)[<<(i + 4) + 1, 0>>]
  BY <1>2, <1>3, <1>4, StringArrayIs
<1> DEFINE ds == p.deps
           j == i + 4
<1>6. Items(t)[<<j + 1, 0>>] = SubSeq(ds, 1, CutDeps(ds))
  <2>1. ListedAt(t, j, ds, e) /\ j \in 1 .. Len(t) /\ ds \in Seq(Seq(Char))
    BY <1>0, <1>3
  <2>2. \A k \in 1 .. Len(ds) : Len(ds[k]) < DepRoom
    OBVIOUS
  <2> HIDE DEF ds, j
  <2> QED BY <2>1, <2>2, <1>0, ListIsRead
<1> QED BY <1>5, <1>6

LEMMA TextsAreGot ==
    ASSUME NEW p \in Packages, NEW o \in Orders, NEW t, IsManifest(t, p, o)
    PROVE  /\ json_get_string(t, "n", NameRoom) = Cut(p.name, NameRoom)
           /\ json_get_string(t, "v", VersionRoom) = Cut(p.version, VersionRoom)
<1>0. /\ t \in Seq(Char) /\ p.name \in Seq(Char) /\ p.version \in Seq(Char)
      /\ NameRoom \in Nat \ {0} /\ VersionRoom \in Nat \ {0}
  BY ManifestAssumption DEF IsManifest, Packages, ManifestAssumption
<1>1. json_get_string(t, "n", NameRoom) = Cut(p.name, NameRoom)
  <2>1. Finds(t, p, "n")
    BY KeysAreFound DEF Keys
  <2>2. PICK i, e \in 1 .. Len(t) : EntryAt(t, i, p, "n", e) /\ json_find_key(t, "n") = i + 4
    BY <2>1 DEF Finds
  <2>3. Spelt(t, i + 4, p.name, e) /\ i + 4 \in 1 .. Len(t)
    BY <2>2 DEF EntryAt
  <2>4. GetsString(t, "n", p.name, NameRoom)
    BY <1>0, <2>2, <2>3, StringIsGot
  <2> QED BY <2>4 DEF GetsString
<1>2. json_get_string(t, "v", VersionRoom) = Cut(p.version, VersionRoom)
  <2>1. Finds(t, p, "v")
    BY KeysAreFound DEF Keys
  <2>2. PICK i, e \in 1 .. Len(t) : EntryAt(t, i, p, "v", e) /\ json_find_key(t, "v") = i + 4
    BY <2>1 DEF Finds
  <2>3. Spelt(t, i + 4, p.version, e) /\ i + 4 \in 1 .. Len(t)
    BY <2>2 DEF EntryAt
  <2>4. GetsString(t, "v", p.version, VersionRoom)
    BY <1>0, <2>2, <2>3, StringIsGot
  <2> QED BY <2>4 DEF GetsString
<1> QED BY <1>1, <1>2

(* A manifest of a package that fits says what was meant.                  *)
LEMMA ParseOfManifest ==
    ASSUME NEW p \in PackagesSaid, Fits(p), NEW o \in Orders, NEW t, IsManifest(t, p, o)
    PROVE  manifest_parse_string(t) = Meant(p)
<1> DEFINE ds == p.deps
           got == json_get_string_array(t, "d")
           name == json_get_string(t, "n", NameRoom)
           version == json_get_string(t, "v", VersionRoom)
<1>0. NameRoom \in Nat \ {0, 1} /\ VersionRoom \in Nat \ {0, 1} /\ MaxDeps \in Nat
  BY ManifestAssumption DEF ManifestAssumption
<1>1. ds \in Seq(Seq(Char))
  BY DepPartsAre DEF PackagesSaid
<1>2. p \in Packages /\ p.name \in Seq(Char) /\ p.version \in Seq(Char)
  BY <1>1 DEF Packages, PackagesSaid
<1>3. \A k \in 1 .. Len(ds) : Len(ds[k]) < DepRoom
  <2>1. DOMAIN ds = 1 .. Len(ds)
    BY <1>1
  <2> QED BY <2>1 DEF Fits
<1>4. got = SubSeq(ds, 1, CutDeps(ds))
  BY <1>2, <1>3, DepsAreGot
<1>5. name = Cut(p.name, NameRoom) /\ version = Cut(p.version, VersionRoom)
  BY <1>2, TextsAreGot
<1>6. got \in Seq(Seq(Char))
  <2> DEFINE B == Seq(Char)
             m == CutDeps(ds)
  <2>1. ds \in Seq(B) /\ m \in 0 .. Len(ds)
    BY <1>0, <1>1 DEF CutDeps
  <2> HIDE DEF B, m, ds
  <2>2. SubSeq(ds, 1, m) \in Seq(B)
    BY <2>1
  <2> QED BY <2>2, <1>4 DEF B, m
<1>7. Number \notin {got[k] : k \in DOMAIN got}
  BY <1>6, NumberIsNoText
<1>8. (name = <<>> <=> p.name = <<>>) /\ (version = <<>> <=> p.version = <<>>)
  BY <1>0, <1>2, <1>5, CutIsNone
<1>9. manifest_parse_string(t)
        = IF name = <<>> THEN Failed
          ELSE [name |-> name, version |-> IF version = <<>> THEN <<"0">> ELSE version, deps |-> got]
  <2> HIDE DEF got, name, version
  <2> QED BY <1>7, ParseIs DEF got, name, version
<1>10. Meant(p) = IF p.name = <<>> THEN Failed
                  ELSE [name |-> Cut(p.name, NameRoom),
                        version |-> IF p.version = <<>> THEN <<"0">> ELSE Cut(p.version, VersionRoom),
                        deps |-> SubSeq(ds, 1, CutDeps(ds))]
  BY DEF Meant, CutDeps
<1> DEFINE upto == SubSeq(ds, 1, CutDeps(ds))
<1> HIDE DEF got, name, version, ds, upto
<1>11. CASE p.name = <<>>
  BY <1>8, <1>9, <1>10, <1>11
<1>12. CASE p.name # <<>>
  <2>1. manifest_parse_string(t)
          = [name |-> name, version |-> IF version = <<>> THEN <<"0">> ELSE version, deps |-> got]
    BY <1>8, <1>9, <1>12
  <2>2. Meant(p) = [name |-> Cut(p.name, NameRoom),
                    version |-> IF p.version = <<>> THEN <<"0">> ELSE Cut(p.version, VersionRoom),
                    deps |-> upto]
    BY <1>10, <1>12 DEF upto
  <2>3. got = upto
    BY <1>4 DEF upto
  <2>4. (IF version = <<>> THEN <<"0">> ELSE version)
           = IF p.version = <<>> THEN <<"0">> ELSE Cut(p.version, VersionRoom)
    BY <1>5, <1>8
  <2> QED BY <2>1, <2>2, <2>3, <2>4, <1>5
<1> QED BY <1>11, <1>12

(* What a parse may come to, of a text of any kind: every field is within  *)
(* its room, and none but the dependencies is empty.                       *)
ParsedWell(p) ==
    /\ p \in Packages /\ p.name # <<>> /\ p.version # <<>>
    /\ Len(p.name) < NameRoom /\ Len(p.version) < VersionRoom /\ Len(p.deps) <= MaxDeps
    /\ \A k \in 1 .. Len(p.deps) : Len(p.deps[k]) < DepRoom

LEMMA StringsFit ==
    ASSUME NEW t \in Seq(Char), NEW key, NEW room \in Nat \ {0}
    PROVE  /\ json_get_string(t, key, room) \in Seq(Char)
           /\ Len(json_get_string(t, key, room)) < room
<1> DEFINE k == json_find_key(t, key)
<1>1. CASE k \in 1 .. Len(t) /\ t[k] = Quote
  <2> DEFINE r == json_read_string(t, k, room)
  <2>1. r \in ReadResult(t) /\ Len(r.value) < room
    BY <1>1, ReadStays
  <2>2. r.value \in Seq(Char)
    BY <2>1 DEF ReadResult
  <2>3. json_get_string(t, key, room) = r.value
    BY <1>1, GetStringIs
  <2> QED BY <2>1, <2>2, <2>3
<1>2. CASE ~(k \in 1 .. Len(t) /\ t[k] = Quote)
  <2>1. json_get_string(t, key, room) = <<>>
    BY <1>2, GetStringIs
  <2> QED BY <2>1
<1> QED BY <1>1, <1>2

LEMMA ParseOfAny ==
    ASSUME NEW t \in Seq(Char)
    PROVE  manifest_parse_string(t) \in {Failed, Hangs} \/ ParsedWell(manifest_parse_string(t))
<1> DEFINE got == json_get_string_array(t, "d")
           name == json_get_string(t, "n", NameRoom)
           version == json_get_string(t, "v", VersionRoom)
           ver == IF version = <<>> THEN <<"0">> ELSE version
           p == [name |-> name, version |-> ver, deps |-> got]
<1>0. NameRoom \in Nat \ {0, 1} /\ VersionRoom \in Nat \ {0, 1} /\ MaxDeps \in Nat
  BY ManifestAssumption DEF ManifestAssumption
<1>1. /\ name \in Seq(Char) /\ Len(name) < NameRoom /\ version \in Seq(Char)
      /\ Len(version) < VersionRoom
  BY <1>0, StringsFit
<1>2. Listable(got, MaxDeps)
  BY ArrayIsListable
<1>3. manifest_parse_string(t)
        = IF name = <<>> THEN Failed
          ELSE IF Number \in {got[k] : k \in DOMAIN got} THEN Hangs ELSE p
  BY ParseIs
<1> SUFFICES ASSUME name # <<>>, Number \notin {got[k] : k \in DOMAIN got}
             PROVE  ParsedWell(p)
  <2> HIDE DEF name, got, p
  <2> QED BY <1>3
<1> HIDE DEF got, name, version
<1>4. /\ got \in Seq({Number} \cup Seq(Char)) /\ Len(got) <= MaxDeps /\ Len(got) \in Nat
      /\ \A k \in 1 .. Len(got) : got[k] # Number => got[k] \in Seq(Char) /\ Len(got[k]) < DepRoom
  BY <1>2 DEF Listable, Listing
<1>5. DOMAIN got = 1 .. Len(got)
  <2> DEFINE A == {Number} \cup Seq(Char)
  <2>1. got \in Seq(A)
    BY <1>4
  <2> HIDE DEF A
  <2> QED BY <2>1
<1>6. \A k \in 1 .. Len(got) : got[k] \in Seq(Char) /\ Len(got[k]) < DepRoom
  <2>1. \A k \in 1 .. Len(got) : got[k] # Number
    BY <1>5
  <2> QED BY <2>1, <1>4
<1>7. got \in Seq(Seq(Char))
  <2> DEFINE B == Seq(Char)
             A == {Number} \cup B
             N == Len(got)
             d == 1 .. N
  <2>1. got \in Seq(A)
    BY <1>4
  <2>2. \A k \in d : got[k] \in B
    BY <1>6
  <2> HIDE DEF A, B
  <2>3. got = [k \in d |-> got[k]]
    BY <2>1
  <2>4. got \in [d -> B] /\ N \in Nat
    <3> HIDE DEF d
    <3> QED BY <2>2, <2>3, <1>4
  <2> HIDE DEF N
  <2>5. got \in Seq(B)
    BY <2>4, <1>5
  <2> QED BY <2>5 DEF B
<1>8. ver \in Seq(Char) /\ ver # <<>> /\ Len(ver) < VersionRoom
  <2>1. CASE version = <<>>
    <3>1. ver = <<"0">> /\ "0" \in Char
      BY <2>1, CharsAre
    <3> DEFINE z == "0"
    <3> HIDE DEF z
    <3>2. ver = <<z>> /\ z \in Char
      BY <3>1 DEF z
    <3> HIDE DEF ver
    <3>3. ver \in Seq(Char) /\ Len(ver) = 1
      BY <3>2
    <3>4. ver # <<>>
      <4>1. Len(ver) # 0
        BY <3>3
      <4> QED BY <4>1, <3>3, EmptySeq
    <3> QED BY <3>3, <3>4, <1>0
  <2>2. CASE version # <<>>
    BY <2>2, <1>1
  <2> QED BY <2>1, <2>2
<1> HIDE DEF ver
<1>9. p \in Packages
  BY <1>1, <1>7, <1>8 DEF Packages
<1>10. p.name = name /\ p.version = ver /\ p.deps = got
  OBVIOUS
<1> HIDE DEF p
<1> QED BY <1>1, <1>4, <1>6, <1>8, <1>9, <1>10 DEF ParsedWell

(* A package that was parsed fits, and is what is meant by it.             *)
LEMMA ParsedIsItself ==
    ASSUME NEW p, ParsedWell(p)
    PROVE  /\ p \in Packages /\ p \in PackagesSaid /\ Fits(p) /\ Meant(p) = p
           /\ p # Failed /\ p # Hangs
<1> DEFINE ds == p.deps
<1>0. /\ p \in Packages /\ p.name # <<>> /\ p.version # <<>>
      /\ Len(p.name) < NameRoom /\ Len(p.version) < VersionRoom /\ Len(ds) <= MaxDeps
      /\ \A k \in 1 .. Len(ds) : Len(ds[k]) < DepRoom
  BY DEF ParsedWell
<1>1. p.name \in Seq(Char) /\ p.version \in Seq(Char) /\ ds \in Seq(Seq(Char)) /\ MaxDeps \in Nat
  BY <1>0, ManifestAssumption DEF Packages, ManifestAssumption
<1>2. ds \in Seq({Number} \cup Seq(Char)) /\ DOMAIN ds = 1 .. Len(ds) /\ Len(ds) \in Nat
  <2> DEFINE B == Seq(Char)
             A == {Number} \cup B
             N == Len(ds)
             d == 1 .. N
  <2>1. ds \in Seq(B)
    BY <1>1
  <2>2. B \subseteq A
    OBVIOUS
  <2> HIDE DEF A, B, ds
  <2>3. N \in Nat /\ ds \in [d -> B] /\ DOMAIN ds = d
    BY <2>1
  <2>4. ds \in [d -> A]
    <3> HIDE DEF d
    <3> QED BY <2>2, <2>3
  <2> HIDE DEF N
  <2>5. ds \in Seq(A)
    BY <2>3, <2>4
  <2> QED BY <2>3, <2>5 DEF A, B, N
<1>3. p \in PackagesSaid
  BY <1>0, <1>2 DEF Packages, PackagesSaid
<1>4. Fits(p)
  <2>1. Number \notin {ds[k] : k \in DOMAIN ds}
    BY <1>1, NumberIsNoText
  <2> HIDE DEF ds
  <2>2. \A k \in DOMAIN ds : ds[k] # Number /\ Len(ds[k]) < DepRoom
    BY <2>1, <1>0, <1>2
  <2> QED BY <2>2 DEF Fits, ds
<1>5. Cut(p.name, NameRoom) = p.name /\ Cut(p.version, VersionRoom) = p.version
  BY <1>0, <1>1 DEF Cut
<1>6. SubSeq(ds, 1, IF Len(ds) < MaxDeps THEN Len(ds) ELSE MaxDeps) = ds
  <2>1. (IF Len(ds) < MaxDeps THEN Len(ds) ELSE MaxDeps) = Len(ds)
    BY <1>0, <1>1, <1>2
  <2> DEFINE B == Seq(Char)
  <2>2. ds \in Seq(B)
    BY <1>1
  <2> HIDE DEF B, ds
  <2>3. SubSeq(ds, 1, Len(ds)) = ds
    BY <2>2
  <2> QED BY <2>1, <2>3
<1>7. p = [name |-> p.name, version |-> p.version, deps |-> ds]
  BY <1>0 DEF Packages
<1>8. Meant(p) = p
  <2> HIDE DEF ds
  <2>1. Meant(p) = [name |-> Cut(p.name, NameRoom),
                    version |-> Cut(p.version, VersionRoom),
                    deps |-> SubSeq(ds, 1, IF Len(ds) < MaxDeps THEN Len(ds) ELSE MaxDeps)]
    BY <1>0 DEF Meant, ds
  <2> QED BY <2>1, <1>5, <1>6, <1>7
<1>9. p # Failed /\ p # Hangs
  BY <1>0 DEF Failed, Hangs
<1> QED BY <1>0, <1>3, <1>4, <1>8, <1>9

(* What stands in a text still stands there when something is appended.    *)
LEMMA StillStands ==
    ASSUME NEW s \in Seq(Char), NEW u \in Seq(Char), NEW x \in Seq(Char), NEW p \in Nat, Stands(s, p, x)
    PROVE  Stands(s \o u, p, x)
<1>1. s \o u \in Seq(Char) /\ Stands(s \o u, 0, s)
  BY ConcatStands
<1> DEFINE w == s \o u
<1>2. w \in Seq(Char) /\ Stands(w, 0, s) /\ 0 \in Nat
  BY <1>1
<1> HIDE DEF w
<1>3. Stands(w, 0 + p, x)
  BY <1>2, StandsWithin
<1>4. 0 + p = p
  OBVIOUS
<1> QED BY <1>3, <1>4 DEF w

(* A sequence w and what is appended to it.                                *)
Appends(w, u, q) ==
    /\ q = w \o u /\ q \in Seq(Char) /\ Len(q) = Len(w) + Len(u)
    /\ Stands(q, Len(w), u)
    /\ \A x \in Seq(Char) : \A p \in Nat : Stands(w, p, x) => Stands(q, p, x)

LEMMA OneAppends ==
    ASSUME NEW w \in Seq(Char), NEW u \in Seq(Char)
    PROVE  Appends(w, u, w \o u)
<1>1. w \o u \in Seq(Char) /\ Len(w \o u) = Len(w) + Len(u) /\ Stands(w \o u, Len(w), u)
  BY ConcatStands
<1>2. ASSUME NEW x \in Seq(Char), NEW p \in Nat, Stands(w, p, x)
      PROVE  Stands(w \o u, p, x)
  BY <1>2, StillStands
<1> QED BY <1>1, <1>2 DEF Appends

(* The pieces of the text of a package, one behind the other.              *)
Pieces(t, a1, a2, a3, a4, a5, a6, a7) ==
    LET p2 == Len(a1)
        p3 == p2 + Len(a2)
        p4 == p3 + Len(a3)
        p5 == p4 + Len(a4)
        p6 == p5 + Len(a5)
        p7 == p6 + Len(a6)
    IN  /\ t \in Seq(Char) /\ Len(t) = p7 + Len(a7)
        /\ Stands(t, 0, a1) /\ Stands(t, p2, a2) /\ Stands(t, p3, a3) /\ Stands(t, p4, a4)
        /\ Stands(t, p5, a5) /\ Stands(t, p6, a6) /\ Stands(t, p7, a7)

LEMMA PiecesStand ==
    ASSUME NEW a1 \in Seq(Char), NEW a2 \in Seq(Char), NEW a3 \in Seq(Char), NEW a4 \in Seq(Char),
           NEW a5 \in Seq(Char), NEW a6 \in Seq(Char), NEW a7 \in Seq(Char)
    PROVE  Pieces(a1 \o a2 \o a3 \o a4 \o a5 \o a6 \o a7, a1, a2, a3, a4, a5, a6, a7)
<1> DEFINE w2 == a1 \o a2
           w3 == w2 \o a3
           w4 == w3 \o a4
           w5 == w4 \o a5
           w6 == w5 \o a6
           w7 == w6 \o a7
<1>2. Appends(a1, a2, w2) /\ w2 \in Seq(Char) /\ Stands(w2, 0, a1)
  BY OneAppends, ConcatStands
<1> HIDE DEF w2
<1>3. Appends(w2, a3, w3) /\ w3 \in Seq(Char)
  BY <1>2, OneAppends, ConcatStands
<1> HIDE DEF w3
<1>4. Appends(w3, a4, w4) /\ w4 \in Seq(Char)
  BY <1>3, OneAppends, ConcatStands
<1> HIDE DEF w4
<1>5. Appends(w4, a5, w5) /\ w5 \in Seq(Char)
  BY <1>4, OneAppends, ConcatStands
<1> HIDE DEF w5
<1>6. Appends(w5, a6, w6) /\ w6 \in Seq(Char)
  BY <1>5, OneAppends, ConcatStands
<1> HIDE DEF w6
<1>7. Appends(w6, a7, w7) /\ w7 \in Seq(Char)
  BY <1>6, OneAppends, ConcatStands
<1> HIDE DEF w7
<1> DEFINE p2 == Len(a1)
           p3 == p2 + Len(a2)
           p4 == p3 + Len(a3)
           p5 == p4 + Len(a4)
           p6 == p5 + Len(a5)
           p7 == p6 + Len(a6)
<1>8. Len(w2) = p3 /\ Len(w3) = p4 /\ Len(w4) = p5 /\ Len(w5) = p6 /\ Len(w6) = p7 /\ Len(w7) = p7 + Len(a7)
  BY <1>2, <1>3, <1>4, <1>5, <1>6, <1>7 DEF Appends
<1>9. p2 \in Nat /\ p3 \in Nat /\ p4 \in Nat /\ p5 \in Nat /\ p6 \in Nat /\ p7 \in Nat /\ 0 \in Nat
  OBVIOUS
<1> HIDE DEF p2, p3, p4, p5, p6, p7
<1>10. Stands(w2, 0, a1) /\ Stands(w2, p2, a2)
  BY <1>2 DEF Appends, p2
<1>11. Stands(w3, 0, a1) /\ Stands(w3, p2, a2) /\ Stands(w3, p3, a3)
  BY <1>3, <1>8, <1>9, <1>10 DEF Appends
<1>12. Stands(w4, 0, a1) /\ Stands(w4, p2, a2) /\ Stands(w4, p3, a3) /\ Stands(w4, p4, a4)
  BY <1>4, <1>8, <1>9, <1>11 DEF Appends
<1>13. /\ Stands(w5, 0, a1) /\ Stands(w5, p2, a2) /\ Stands(w5, p3, a3) /\ Stands(w5, p4, a4)
       /\ Stands(w5, p5, a5)
  BY <1>5, <1>8, <1>9, <1>12 DEF Appends
<1>14. /\ Stands(w6, 0, a1) /\ Stands(w6, p2, a2) /\ Stands(w6, p3, a3) /\ Stands(w6, p4, a4)
       /\ Stands(w6, p5, a5) /\ Stands(w6, p6, a6)
  BY <1>6, <1>8, <1>9, <1>13 DEF Appends
<1>15. /\ Stands(w7, 0, a1) /\ Stands(w7, p2, a2) /\ Stands(w7, p3, a3) /\ Stands(w7, p4, a4)
       /\ Stands(w7, p5, a5) /\ Stands(w7, p6, a6) /\ Stands(w7, p7, a7)
  BY <1>7, <1>8, <1>9, <1>14 DEF Appends
<1>16. Pieces(w7, a1, a2, a3, a4, a5, a6, a7)
  BY <1>7, <1>8, <1>15 DEF Pieces, p2, p3, p4, p5, p6, p7
<1> QED BY <1>16 DEF w2, w3, w4, w5, w6, w7

RawParts(p) == [k \in DOMAIN p.deps |-> Raw(p.deps[k])]

LEMMA RawPartsAre ==
    ASSUME NEW p \in Packages, Plain(p)
    PROVE  /\ SpellOut(RawParts(p), p.deps) /\ Listed(RawParts(p)) \in Seq(Char)
           /\ Raw(p.name) \in Seq(Char) /\ SpellsOut(Raw(p.name), p.name) /\ Len(Raw(p.name)) >= 2
           /\ Raw(p.version) \in Seq(Char) /\ SpellsOut(Raw(p.version), p.version) /\ Len(Raw(p.version)) >= 2
<1> DEFINE ds == p.deps
           parts == RawParts(p)
           N == Len(ds)
<1>1. p.name \in Seq(Char) /\ p.version \in Seq(Char) /\ ds \in Seq(Seq(Char)) /\ DOMAIN ds = 1 .. N /\ N \in Nat
  BY DEF Packages
<1>2. \A v \in {p.name, p.version} \cup {ds[k] : k \in DOMAIN ds} : \A k \in DOMAIN v : v[k] \notin {Quote, Slash}
  BY DEF Plain
<1>3. ASSUME NEW k \in 1 .. N
      PROVE  ds[k] \in Seq(Char) /\ Raw(ds[k]) \in Seq(Char) /\ SpellsOut(Raw(ds[k]), ds[k])
  <2> DEFINE B == Seq(Char)
             v == ds[k]
  <2>1. ds \in Seq(B) /\ k \in 1 .. Len(ds) /\ k \in DOMAIN ds
    BY <1>1
  <2> HIDE DEF B
  <2>2. ds[k] \in B
    BY <2>1, ElementOfSeq
  <2>3. v \in Seq(Char)
    BY <2>2 DEF B
  <2>4. \A j \in DOMAIN v : v[j] \notin {Quote, Slash}
    BY <1>2, <2>1
  <2> HIDE DEF v
  <2>5. Raw(v) \in Seq(Char) /\ SpellsOut(Raw(v), v)
    BY <2>3, <2>4, RawSpells
  <2> QED BY <2>3, <2>5 DEF v
<1>4. parts = [k \in 1 .. N |-> Raw(ds[k])]
  BY <1>1 DEF RawParts
<1>5. parts \in Seq(Seq(Char)) /\ Len(parts) = N
  <2>1. parts \in [1 .. N -> Seq(Char)] /\ DOMAIN parts = 1 .. N
    BY <1>3, <1>4
  <2> HIDE DEF parts, N
  <2> QED BY <2>1, <1>1
<1>6. \A k \in 1 .. N : SpellsOut(parts[k], ds[k])
  BY <1>3, <1>4
<1>7. SpellOut(parts, ds)
  BY <1>1, <1>5, <1>6 DEF SpellOut
<1>8. Listed(parts) \in Seq(Char)
  <2> HIDE DEF parts
  <2> QED BY <1>5, ListedIsText
<1>9. ASSUME NEW v \in Seq(Char), \A k \in DOMAIN v : v[k] \notin {Quote, Slash}
      PROVE  Raw(v) \in Seq(Char) /\ SpellsOut(Raw(v), v) /\ Len(Raw(v)) >= 2
  <2>1. Raw(v) \in Seq(Char) /\ SpellsOut(Raw(v), v)
    BY <1>9, RawSpells
  <2>2. Len(Raw(v)) = Len(v) + 2
    BY QuotesAround DEF Raw
  <2> QED BY <2>1, <2>2
<1>10. /\ \A k \in DOMAIN p.name : p.name[k] \notin {Quote, Slash}
       /\ \A k \in DOMAIN p.version : p.version[k] \notin {Quote, Slash}
  BY <1>2
<1> QED BY <1>1, <1>7, <1>8, <1>9, <1>10

LEMMA PiecesAre ==
    /\ <<LBrace, Quote, "n", Quote, Colon>> \in Seq(Char)
    /\ Len(<<LBrace, Quote, "n", Quote, Colon>>) = 5
    /\ <<Comma, Quote, "v", Quote, Colon>> \in Seq(Char)
    /\ Len(<<Comma, Quote, "v", Quote, Colon>>) = 5
    /\ <<Comma, Quote, "d", Quote, Colon, LBracket>> \in Seq(Char)
    /\ Len(<<Comma, Quote, "d", Quote, Colon, LBracket>>) = 6
    /\ <<RBracket, RBrace>> \in Seq(Char)
    /\ Len(<<RBracket, RBrace>>) = 2
  BY CharsAre

(* A package without quotes and backslashes is written as a manifest of    *)
(* it.                                                                     *)
LEMMA InstalledIsManifest ==
    ASSUME NEW p \in Packages, Plain(p)
    PROVE  IsManifest(json_text(p), p, <<"n", "v", "d">>)
<1> DEFINE t == json_text(p)
           h1 == <<LBrace, Quote, "n", Quote, Colon>>
           h2 == <<Comma, Quote, "v", Quote, Colon>>
           h3 == <<Comma, Quote, "d", Quote, Colon, LBracket>>
           h4 == <<RBracket, RBrace>>
           name == Raw(p.name)
           version == Raw(p.version)
           parts == RawParts(p)
           list == Listed(parts)
<1>1. t = h1 \o name \o h2 \o version \o h3 \o list \o h4
  BY DEF json_text, Raw, RawParts
<1>2. /\ SpellOut(parts, p.deps) /\ list \in Seq(Char)
      /\ name \in Seq(Char) /\ SpellsOut(name, p.name) /\ Len(name) >= 2
      /\ version \in Seq(Char) /\ SpellsOut(version, p.version) /\ Len(version) >= 2
  BY RawPartsAre
<1>3. /\ h1 \in Seq(Char) /\ Len(h1) = 5 /\ h2 \in Seq(Char) /\ Len(h2) = 5
      /\ h3 \in Seq(Char) /\ Len(h3) = 6 /\ h4 \in Seq(Char) /\ Len(h4) = 2
  BY PiecesAre
<1>4. /\ h1[1] = LBrace /\ h1[2] = Quote /\ h1[3] = "n" /\ h1[4] = Quote /\ h1[5] = Colon
      /\ h2[1] = Comma /\ h2[2] = Quote /\ h2[3] = "v" /\ h2[4] = Quote /\ h2[5] = Colon
      /\ h3[1] = Comma /\ h3[2] = Quote /\ h3[3] = "d" /\ h3[4] = Quote /\ h3[5] = Colon
      /\ h3[6] = LBracket /\ h4[1] = RBracket /\ h4[2] = RBrace
  OBVIOUS
<1> HIDE DEF h1, h2, h3, h4, name, version, list, t
<1>5. Pieces(t, h1, name, h2, version, h3, list, h4)
  BY <1>1, <1>2, <1>3, PiecesStand
<1> DEFINE e1 == 5 + Len(name)
           e2 == e1 + 5 + Len(version)
           e3 == e2 + 7 + Len(list)
<1>6. Len(name) \in Nat /\ Len(version) \in Nat /\ Len(list) \in Nat
  BY <1>2
<1>7. /\ t \in Seq(Char) /\ Len(t) = e3 + 1
      /\ Stands(t, 0, h1) /\ Stands(t, 5, name) /\ Stands(t, e1, h2) /\ Stands(t, e1 + 5, version)
      /\ Stands(t, e2, h3) /\ Stands(t, e2 + 6, list) /\ Stands(t, e2 + 6 + Len(list), h4)
  <2> DEFINE n == Len(name)
             v == Len(version)
             m == Len(list)
  <2> HIDE DEF n, v, m
  <2>0. n \in Nat /\ v \in Nat /\ m \in Nat
    BY <1>6 DEF n, v, m
  <2>1. /\ 5 + n = e1 /\ e1 + 5 + v = e2
        /\ ((((5 + n) + 5) + v) + 6) + m = e2 + 6 + m /\ (((5 + n) + 5) + v) + 6 = e2 + 6
        /\ ((((5 + n) + 5) + v) + 6) + m + 2 = e3 + 1
    BY <2>0 DEF n, v, m
  <2>2. /\ t \in Seq(Char) /\ Len(t) = ((((5 + n) + 5) + v) + 6) + m + 2
        /\ Stands(t, 0, h1) /\ Stands(t, 5, name) /\ Stands(t, 5 + n, h2) /\ Stands(t, (5 + n) + 5, version)
        /\ Stands(t, ((5 + n) + 5) + v, h3) /\ Stands(t, (((5 + n) + 5) + v) + 6, list)
        /\ Stands(t, ((((5 + n) + 5) + v) + 6) + m, h4)
    BY <1>3, <1>5 DEF Pieces, n, v, m
  <2>3. e1 = 5 + n /\ e2 = ((5 + n) + 5) + v
    BY <2>1
  <2> HIDE DEF e1, e2, e3
  <2> QED BY <2>1, <2>2, <2>3 DEF m
<1>8. e1 \in Nat /\ e2 \in Nat /\ e3 \in Nat /\ e1 >= 6 /\ e2 >= (e1 + 2) + 4 /\ e3 >= (e2 + 2) + 4
  BY <1>2, <1>6
<1>9. /\ t[1] = LBrace /\ t[2] = Quote /\ t[2 + 1] = "n" /\ t[2 + 2] = Quote /\ t[2 + 3] = Colon
  BY <1>3, <1>4, <1>7 DEF Stands
<1>10. ASSUME NEW q \in Nat, NEW h, Stands(t, q, h), NEW k \in 1 .. Len(h)
       PROVE  t[q + k] = h[k]
  BY <1>10 DEF Stands
<1> HIDE DEF e1, e2, e3
<1>11. /\ t[e1 + 1] = Comma /\ t[e1 + 2] = Quote /\ t[e1 + 3] = "v" /\ t[e1 + 4] = Quote /\ t[e1 + 5] = Colon
  BY <1>3, <1>4, <1>7, <1>8 DEF Stands
<1>12. /\ t[e2 + 1] = Comma /\ t[e2 + 2] = Quote /\ t[e2 + 3] = "d" /\ t[e2 + 4] = Quote /\ t[e2 + 5] = Colon
       /\ t[e2 + 6] = LBracket
  BY <1>3, <1>4, <1>7, <1>8 DEF Stands
<1> DEFINE q4 == e2 + 6 + Len(list)
<1>13. t[q4 + 1] = RBracket /\ t[q4 + 2] = RBrace
  BY <1>3, <1>4, <1>7 DEF Stands
<1>14. q4 + 1 = e3 /\ q4 + 2 = e3 + 1 /\ e3 = (e2 + 5) + 2 + Len(list)
  BY <1>6, <1>8 DEF e3
<1>15. t[e3] = RBracket /\ t[e3 + 1] = RBrace
  <2> HIDE DEF q4
  <2> QED BY <1>13, <1>14
<1>16. Spelt(t, 2 + 4, p.name, e1)
  <2>1. Spelt(t, 5 + 1, p.name, 5 + Len(name))
    BY <1>2, <1>7 DEF SpellsOut
  <2> QED BY <2>1 DEF e1
<1>17. Spelt(t, (e1 + 2) + 4, p.version, e2)
  <2>1. Spelt(t, (e1 + 5) + 1, p.version, (e1 + 5) + Len(version))
    <3>1. e1 + 5 \in Nat
      BY <1>8
    <3> QED BY <1>2, <1>7, <3>1 DEF SpellsOut
  <2>2. (e1 + 5) + 1 = (e1 + 2) + 4 /\ (e1 + 5) + Len(version) = e2
    BY <1>8 DEF e2
  <2> QED BY <2>1, <2>2
<1>18. ListedAt(t, (e2 + 2) + 4, p.deps, e3)
  <2> DEFINE q == e2 + 5
  <2>1. q \in Nat /\ q + 1 = e2 + 6 /\ q + 1 = (e2 + 2) + 4 /\ q + 2 + Len(list) = e3 /\ e3 <= Len(t)
    BY <1>6, <1>7, <1>8, <1>14
  <2> HIDE DEF q
  <2>2. /\ t[q + 1] = LBracket /\ Stands(t, q + 1, list) /\ q + 2 + Len(list) <= Len(t)
        /\ t[q + 2 + Len(list)] = RBracket
    BY <2>1, <1>7, <1>12, <1>15
  <2>3. ListedAt(t, q + 1, p.deps, q + 2 + Len(list))
    <3> HIDE DEF parts
    <3> QED BY <2>1, <2>2, <1>2, <1>7, ListSpells DEF list
  <2> QED BY <2>1, <2>3
<1>19. /\ 2 \in 1 .. Len(t) /\ e1 + 2 \in 1 .. Len(t) /\ e2 + 2 \in 1 .. Len(t)
       /\ e1 \in 2 + 4 .. Len(t) /\ e2 \in (e1 + 2) + 4 .. Len(t) /\ e3 \in (e2 + 2) + 4 .. Len(t)
       /\ e1 \in 1 .. Len(t) /\ e2 \in 1 .. Len(t) /\ e3 \in 1 .. Len(t)
  BY <1>7, <1>8
<1>20. EntryAt(t, 2, p, "n", e1)
  BY <1>9, <1>16, <1>19 DEF EntryAt
<1>21. EntryAt(t, e1 + 2, p, "v", e2)
  <2>1. (e1 + 2) + 1 = e1 + 3 /\ (e1 + 2) + 2 = e1 + 4 /\ (e1 + 2) + 3 = e1 + 5
    BY <1>8
  <2> QED BY <2>1, <1>11, <1>17, <1>19 DEF EntryAt
<1>22. EntryAt(t, e2 + 2, p, "d", e3)
  <2>1. (e2 + 2) + 1 = e2 + 3 /\ (e2 + 2) + 2 = e2 + 4 /\ (e2 + 2) + 3 = e2 + 5
    BY <1>8
  <2> QED BY <2>1, <1>12, <1>18, <1>19 DEF EntryAt
<1> DEFINE o == <<"n", "v", "d">>
<1>23. o[1] = "n" /\ o[2] = "v" /\ o[3] = "d"
  OBVIOUS
<1>24. Manifests(t, p, o, e1, e2, e3)
  <2> HIDE DEF o
  <2> QED BY <1>7, <1>9, <1>11, <1>12, <1>15, <1>19, <1>20, <1>21, <1>22, <1>23 DEF Manifests
<1> HIDE DEF o
<1>25. IsManifest(t, p, o)
  BY <1>7, <1>19, <1>24 DEF IsManifest
<1> QED BY <1>25 DEF t, o

(***************************************************************************)
(* The invariant: what is served is the text of the package; what is       *)
(* parsed of it is within its room, and as meant if the package fits; what *)
(* is in the database is the text of the copy.                             *)
(***************************************************************************)
WhenServed == text = ServedText(said, order) /\ copy = Failed /\ parsed = Failed

WhenInstalling == ParsedWell(parsed) /\ copy = Failed /\ (Fits(said) => parsed = Meant(said))

WhenInstalled == ParsedWell(copy) /\ parsed = copy /\ text = manifest_to_json(copy)

WhenListed ==
    \/ copy = Failed /\ parsed \in {Failed, Hangs} /\ (Fits(said) => parsed = Meant(said))
    \/ ParsedWell(copy) /\ (Writable(copy) => parsed = copy)

IManifest ==
    /\ said \in Release /\ order \in Orders
    /\ stage \in {"served", "installing", "refused", "corrupt", "installed", "listed"}
    /\ stage = "served" => WhenServed
    /\ stage \in {"installing", "refused", "corrupt"} => WhenInstalling
    /\ stage = "installed" => WhenInstalled
    /\ stage = "listed" => WhenListed

LEMMA ManifestStarts == ManifestInit => IManifest
<1> SUFFICES ASSUME ManifestInit
             PROVE  IManifest
  OBVIOUS
<1>1. text = ServedText(said, order)
  BY DEF ManifestInit, ServedText, Entries
<1> QED BY <1>1 DEF ManifestInit, IManifest, WhenServed, Orders

LEMMA ManifestGoesOn == IManifest /\ [ManifestNext]_manifestVars => IManifest'
<1> SUFFICES ASSUME IManifest, [ManifestNext]_manifestVars
             PROVE  IManifest'
  OBVIOUS
<1>0. said \in Release /\ order \in Orders /\ said \in PackagesSaid
  BY ManifestAssumption DEF IManifest, ManifestAssumption, PackagesSaid
<1>1. CASE manifest_parse
  <2>1. /\ WhenServed /\ parsed' = manifest_parse_string(text) /\ copy' = copy
        /\ said' = said /\ order' = order
        /\ stage' = IF parsed' \in {Failed, Hangs} THEN "listed" ELSE "installing"
    BY <1>1 DEF manifest_parse, IManifest
  <2>2. text = ServedText(said, order) /\ copy' = Failed
    BY <2>1 DEF WhenServed
  <2>3. text \in Seq(Char)
    BY <1>0, <2>2, ServedIsText
  <2>4. parsed' \in {Failed, Hangs} \/ ParsedWell(parsed')
    BY <2>1, <2>3, ParseOfAny
  <2>5. Fits(said) => parsed' = Meant(said)
    <3> SUFFICES ASSUME Fits(said)
                 PROVE  parsed' = Meant(said)
      OBVIOUS
    <3>1. IsManifest(text, said, order)
      BY <1>0, <2>2, ServedIsManifest
    <3> QED BY <1>0, <2>1, <3>1, ParseOfManifest
  <2>6. CASE parsed' \in {Failed, Hangs}
    <3>1. WhenListed'
      BY <2>1, <2>2, <2>5, <2>6 DEF WhenListed, Fits, Meant
    <3> QED BY <1>0, <2>1, <2>6, <3>1 DEF IManifest
  <2>7. CASE parsed' \notin {Failed, Hangs}
    <3>1. WhenInstalling'
      BY <2>1, <2>2, <2>4, <2>5, <2>7 DEF WhenInstalling, Fits, Meant, ParsedWell
    <3> QED BY <1>0, <2>1, <2>7, <3>1 DEF IManifest
  <2> QED BY <2>6, <2>7
<1>2. CASE db_register_package
  <2>1. /\ WhenInstalling /\ text' = manifest_to_json(parsed) /\ copy' = parsed /\ stage' = "installed"
        /\ said' = said /\ order' = order /\ parsed' = parsed
    BY <1>2 DEF db_register_package, IManifest
  <2>2. WhenInstalled'
    BY <2>1 DEF WhenInstalling, WhenInstalled, ParsedWell
  <2> QED BY <1>0, <2>1, <2>2 DEF IManifest
<1>3. CASE db_find_reverse_dep
  <2>1. /\ WhenInstalled /\ parsed' = manifest_parse_string(text) /\ copy' = copy /\ stage' = "listed"
        /\ said' = said /\ order' = order
    BY <1>3 DEF db_find_reverse_dep, IManifest
  <2>2. ParsedWell(copy) /\ text = manifest_to_json(copy)
    BY <2>1 DEF WhenInstalled
  <2>3. Writable(copy) => parsed' = copy
    <3> SUFFICES ASSUME Writable(copy)
                 PROVE  parsed' = copy
      OBVIOUS
    <3>0. Plain(copy) /\ text = json_text(copy)
      BY <2>2 DEF Writable, manifest_to_json
    <3>1. copy \in Packages /\ copy \in PackagesSaid /\ Fits(copy) /\ Meant(copy) = copy
      BY <2>2, ParsedIsItself
    <3>2. IsManifest(text, copy, <<"n", "v", "d">>)
      BY <3>0, <3>1, InstalledIsManifest
    <3>3. manifest_parse_string(text) = Meant(copy)
      <4> DEFINE o == <<"n", "v", "d">>
      <4>1. o \in Orders /\ IsManifest(text, copy, o)
        BY <3>2 DEF Orders
      <4> HIDE DEF o
      <4> QED BY <3>1, <4>1, ParseOfManifest
    <3> QED BY <2>1, <3>1, <3>3
  <2>4. WhenListed'
    BY <2>1, <2>2, <2>3 DEF WhenListed, ParsedWell
  <2> QED BY <1>0, <2>1, <2>4 DEF IManifest
<1>4. CASE not_registered \/ json_overrun
  <2>1. /\ WhenInstalling /\ stage' \in {"refused", "corrupt"}
        /\ UNCHANGED <<said, order, text, parsed, copy>>
    BY <1>4 DEF not_registered, json_overrun, IManifest
  <2>2. WhenInstalling'
    BY <2>1 DEF WhenInstalling
  <2> QED BY <1>0, <2>1, <2>2 DEF IManifest
<1>5. CASE UNCHANGED manifestVars
  BY <1>5 DEF manifestVars, IManifest, WhenServed, WhenInstalling, WhenInstalled, WhenListed
<1> QED BY <1>1, <1>2, <1>3, <1>4, <1>5 DEF ManifestNext

LEMMA MeantIsNone ==
    ASSUME NEW p \in PackagesSaid, Meant(p) \in {Failed, Hangs}
    PROVE  Meant(p) = Failed
<1> SUFFICES ASSUME p.name # <<>>
             PROVE  FALSE
  BY DEF Meant
<1>1. p.name \in Seq(Char) /\ NameRoom \in Nat \ {0, 1}
  BY ManifestAssumption DEF PackagesSaid, ManifestAssumption
<1>2. Cut(p.name, NameRoom) # <<>>
  BY <1>1, CutIsNone
<1>3. Meant(p).name = Cut(p.name, NameRoom)
  BY DEF Meant
<1>4. Meant(p).name = <<>>
  BY DEF Failed, Hangs
<1> QED BY <1>2, <1>3, <1>4

LEMMA ManifestHolds == IManifest => ManifestInv
<1> SUFFICES ASSUME IManifest
             PROVE  ManifestInv
  OBVIOUS
<1>0. /\ said \in PackagesSaid
      /\ stage \in {"served", "installing", "refused", "corrupt", "installed", "listed"}
      /\ stage = "served" => WhenServed
      /\ stage \in {"installing", "refused", "corrupt"} => WhenInstalling
      /\ stage = "installed" => WhenInstalled
      /\ stage = "listed" => WhenListed
  BY ManifestAssumption DEF IManifest, ManifestAssumption, PackagesSaid
<1>1. Failed # Hangs
  BY DEF Failed, Hangs
<1>2. ASSUME NEW p, ParsedWell(p)
      PROVE  p # Failed /\ p # Hangs
  BY <1>2, ParsedIsItself
<1>3. ParsedIsMeant
  <2> SUFFICES ASSUME Fits(said)
               PROVE  /\ stage = "installing" => parsed = Meant(said)
                      /\ stage = "listed" /\ copy = Failed => Meant(said) = Failed
    BY DEF ParsedIsMeant
  <2>1. stage = "installing" => parsed = Meant(said)
    BY <1>0 DEF WhenInstalling
  <2>2. ASSUME stage = "listed", copy = Failed
        PROVE  Meant(said) = Failed
    <3>1. WhenListed /\ ~ParsedWell(copy)
      BY <1>0, <1>2, <2>2
    <3>2. Meant(said) \in {Failed, Hangs}
      BY <3>1 DEF WhenListed
    <3> QED BY <3>2, <1>0, MeantIsNone
  <2> QED BY <2>1, <2>2
<1>4. ReadsBack
  <2> SUFFICES ASSUME stage = "listed", copy # Failed, Writable(copy)
               PROVE  parsed = copy
    BY DEF ReadsBack
  <2> QED BY <1>0 DEF WhenListed
<1>5. HangDeserved
  <2> SUFFICES ASSUME parsed = Hangs, Fits(said)
               PROVE  copy # Failed /\ ~Writable(copy)
    BY DEF HangDeserved
  <2>1. stage # "served"
    BY <1>0, <1>1 DEF WhenServed
  <2>2. stage \notin {"installing", "refused", "corrupt"}
    BY <1>0, <1>2 DEF WhenInstalling
  <2>3. stage # "installed"
    BY <1>0, <1>2 DEF WhenInstalled
  <2>4. WhenListed
    BY <1>0, <2>1, <2>2, <2>3
  <2>5. CASE copy = Failed /\ parsed \in {Failed, Hangs} /\ (Fits(said) => parsed = Meant(said))
    <3>1. Meant(said) = Hangs
      BY <2>5
    <3>2. Meant(said) = Failed
      BY <1>0, <3>1, MeantIsNone
    <3> QED BY <1>1, <3>1, <3>2
  <2>6. CASE ParsedWell(copy) /\ (Writable(copy) => parsed = copy)
    BY <1>2, <2>6
  <2> QED BY <2>4, <2>5, <2>6 DEF WhenListed
<1> QED BY <1>3, <1>4, <1>5 DEF ManifestInv

(***************************************************************************)
(* Whatever the names, versions and dependencies of packages look like, a  *)
(* manifest that manifest_parse_string reads says what its author meant,   *)
(* as far as there is room for it; what manifest_to_json writes is read as *)
(* the same package, if no value has a quote or a backslash and all of it  *)
(* has room in the buffer of 512 bytes and 80 per dependency; and the scan *)
(* of the dependencies ends, unless one is too long or no string.          *)
(***************************************************************************)
THEOREM ManifestsAreMeant == ManifestSpec => []ManifestInv
<1>1. ManifestSpec => []IManifest
  BY ManifestStarts, ManifestGoesOn, PTL DEF ManifestSpec
<1> QED BY <1>1, ManifestHolds, PTL
=============================================================================
