-------------------------- MODULE RecursionProofs ---------------------------
(***************************************************************************)
(* What the proofs about recursive functions need: induction over the      *)
(* natural numbers as a fact about sets, that a recursion which descends   *)
(* has a function and what holds of all of it, and what FlattenSeq of the  *)
(* community modules returns.                                              *)
(***************************************************************************)
EXTENDS Integers, Sequences, SequencesExt, SequenceTheorems, WellFoundedInduction, TLAPS

(* A set of numbers that is not empty has a least. *)
LEMMA LeastIs ==
    ASSUME NEW S, S \subseteq Nat, S # {}
    PROVE  \E k \in S : \A j \in S : k <= j
<1>1. PICK k \in S : \A j \in S : <<j, k>> \notin OpToRel(<, Nat)
  BY NatLessThanWellFounded, WFMin
<1>2. ASSUME NEW j \in S
      PROVE  k <= j
  <2>1. ~(j < k)
    BY <1>1 DEF OpToRel
  <2>2. j \in Nat /\ k \in Nat
    OBVIOUS
  <2> QED BY <2>1, <2>2
<1> QED BY <1>2

(* A set with 0 and the successor of each of its numbers has them all.     *)
LEMMA AllNumbers ==
    ASSUME NEW S, S \subseteq Nat, 0 \in S, \A n \in S : n + 1 \in S
    PROVE  \A n \in Nat : n \in S
<1> SUFFICES ASSUME Nat \ S # {}
             PROVE  FALSE
  OBVIOUS
<1>1. PICK k \in Nat \ S : \A j \in Nat \ S : k <= j
  BY LeastIs
<1>2. k - 1 \in Nat /\ k - 1 \notin Nat \ S
  BY <1>1
<1>3. (k - 1) + 1 \in S
  BY <1>2
<1> QED BY <1>1, <1>3

Descends(D, rk, succ) == \A x \in D : rk[succ[x]] < rk[x]

Recurs(f, X, D, succ, base, comb) ==
    \A x \in X : f[x] = IF x \in D THEN comb[x][f[succ[x]]] ELSE base[x]

HasFunction(X, V, D, succ, base, comb) ==
    \E f \in [X -> V] : Recurs(f, X, D, succ, base, comb)

(* A recursion that comes closer to its end with every step has a function: *)
(* x goes on to succ[x] if it is in D, and is over with base[x] if not.    *)
LEMMA RecursionHasFunction ==
    ASSUME NEW X, NEW V, NEW N \in Nat, NEW rk \in [X -> 0 .. N],
           NEW D \in SUBSET X, NEW succ \in [D -> X], NEW base \in [X -> V],
           NEW comb \in [D -> [V -> V]],
           Descends(D, rk, succ)
    PROVE  HasFunction(X, V, D, succ, base, comb)
<1>0. \A x \in D : rk[succ[x]] < rk[x]
  BY DEF Descends
<1> DEFINE Fits1(f, x) == f[x] = IF x \in D THEN comb[x][f[succ[x]]] ELSE base[x]
           S == {n \in Nat : \E f \in [X -> V] : \A x \in X : rk[x] < n => Fits1(f, x)}
<1>1. 0 \in S
  <2>1. \A x \in X : ~(rk[x] < 0)
    OBVIOUS
  <2> QED BY <2>1
<1>2. ASSUME NEW n \in S
      PROVE  n + 1 \in S
  <2>1. PICK f \in [X -> V] : \A x \in X : rk[x] < n => Fits1(f, x)
    OBVIOUS
  <2> DEFINE g == [x \in X |-> IF rk[x] = n THEN IF x \in D THEN comb[x][f[succ[x]]] ELSE base[x]
                               ELSE f[x]]
  <2>2. \A x \in D : succ[x] \in X /\ f[succ[x]] \in V /\ comb[x] \in [V -> V]
    OBVIOUS
  <2>3. \A x \in D : comb[x][f[succ[x]]] \in V
    BY <2>2
  <2>4. g \in [X -> V]
    BY <2>3
  <2>5. ASSUME NEW x \in X, rk[x] < n + 1
        PROVE  Fits1(g, x)
    <3>0. rk[x] \in 0 .. N /\ n \in Nat
      OBVIOUS
    <3>1. CASE x \notin D
      <4>1. g[x] = IF rk[x] = n THEN base[x] ELSE f[x]
        BY <3>1
      <4>2. rk[x] # n => f[x] = base[x]
        BY <2>1, <3>1, <3>0, <2>5
      <4> QED BY <4>1, <4>2, <3>1
    <3>2. CASE x \in D
      <4>1. succ[x] \in X /\ rk[succ[x]] \in 0 .. N /\ rk[succ[x]] < rk[x]
        BY <3>2, <1>0
      <4>2. rk[succ[x]] # n
        BY <4>1, <3>0, <2>5
      <4>3. g[succ[x]] = f[succ[x]]
        BY <4>1, <4>2
      <4>4. g[x] = IF rk[x] = n THEN comb[x][f[succ[x]]] ELSE f[x]
        BY <3>2
      <4>5. rk[x] # n => f[x] = comb[x][f[succ[x]]]
        BY <2>1, <3>2, <3>0, <2>5
      <4> QED BY <4>3, <4>4, <4>5, <3>2
    <3> QED BY <3>1, <3>2
  <2> HIDE DEF g
  <2> QED BY <2>4, <2>5
<1>3. N + 1 \in S
  <2> HIDE DEF S
  <2>1. S \subseteq Nat
    BY DEF S
  <2> QED BY <1>1, <1>2, <2>1, AllNumbers
<1>4. \A x \in X : rk[x] \in 0 .. N
  OBVIOUS
<1>5. \A x \in X : rk[x] < N + 1
  BY <1>4
<1> QED BY <1>3, <1>5 DEF HasFunction, Recurs

Inherited(D, succ, T) == \A x \in D : succ[x] \in T => x \in T

(* What holds where the recursion is over, and of a place if it holds of   *)
(* the next, holds everywhere.                                             *)
LEMMA RecursionHolds ==
    ASSUME NEW X, NEW N \in Nat, NEW rk \in [X -> 0 .. N],
           NEW D \in SUBSET X, NEW succ \in [D -> X],
           Descends(D, rk, succ),
           NEW T, X \ D \subseteq T, Inherited(D, succ, T)
    PROVE  X \subseteq T
<1>0. /\ \A x \in D : rk[succ[x]] < rk[x]
      /\ \A x \in D : succ[x] \in T => x \in T
  BY DEF Descends, Inherited
<1> DEFINE S == {n \in Nat : \A x \in X : rk[x] < n => x \in T}
<1>1. 0 \in S
  <2>1. \A x \in X : ~(rk[x] < 0)
    OBVIOUS
  <2> QED BY <2>1
<1>2. ASSUME NEW n \in S
      PROVE  n + 1 \in S
  <2> SUFFICES ASSUME NEW x \in X, rk[x] < n + 1
               PROVE  x \in T
    OBVIOUS
  <2>1. CASE x \notin D
    BY <2>1
  <2>2. CASE x \in D
    <3>1. succ[x] \in X /\ rk[succ[x]] < rk[x]
      BY <2>2, <1>0
    <3>2. rk[succ[x]] \in 0 .. N /\ rk[x] \in 0 .. N
      BY <3>1
    <3>3. rk[succ[x]] < n
      BY <3>1, <3>2
    <3> QED BY <2>2, <3>1, <3>3, <1>0
  <2> QED BY <2>1, <2>2
<1>3. N + 1 \in S
  <2> HIDE DEF S
  <2>1. S \subseteq Nat
    BY DEF S
  <2> QED BY <1>1, <1>2, <2>1, AllNumbers
<1>4. \A x \in X : rk[x] \in 0 .. N
  OBVIOUS
<1>5. \A x \in X : rk[x] < N + 1
  BY <1>4
<1> QED BY <1>3, <1>5

(***************************************************************************)
(* A sequence stands in another one, behind its first p elements.          *)
(***************************************************************************)
Stands(t, p, s) ==
    /\ p \in Nat /\ p + Len(s) <= Len(t)
    /\ \A k \in 1 .. Len(s) : t[p + k] = s[k]

LEMMA StandsWithin ==
    ASSUME NEW A, NEW t \in Seq(A), NEW s \in Seq(A), NEW u \in Seq(A),
           NEW p \in Nat, NEW q \in Nat, Stands(t, p, s), Stands(s, q, u)
    PROVE  Stands(t, p + q, u)
<1>1. Len(s) \in Nat /\ Len(u) \in Nat /\ Len(t) \in Nat
  OBVIOUS
<1>2. p + Len(s) <= Len(t) /\ q + Len(u) <= Len(s)
  BY DEF Stands
<1>3. (p + q) + Len(u) <= Len(t) /\ p + q \in Nat
  BY <1>1, <1>2
<1>4. ASSUME NEW k \in 1 .. Len(u)
      PROVE  t[(p + q) + k] = u[k]
  <2>1. q + k \in 1 .. Len(s) /\ p + (q + k) = (p + q) + k
    BY <1>1, <1>2
  <2>2. s[q + k] = u[k]
    BY DEF Stands
  <2>3. t[p + (q + k)] = s[q + k]
    BY <2>1 DEF Stands
  <2> QED BY <2>1, <2>2, <2>3
<1> QED BY <1>3, <1>4 DEF Stands

LEMMA ConcatStands ==
    ASSUME NEW A, NEW s \in Seq(A), NEW u \in Seq(A)
    PROVE  /\ s \o u \in Seq(A) /\ Len(s \o u) = Len(s) + Len(u)
           /\ Stands(s \o u, 0, s) /\ Stands(s \o u, Len(s), u)
<1>1. s \o u \in Seq(A) /\ Len(s \o u) = Len(s) + Len(u) /\ Len(s) \in Nat /\ Len(u) \in Nat
  OBVIOUS
<1>2. ASSUME NEW k \in 1 .. Len(s)
      PROVE  (s \o u)[0 + k] = s[k]
  OBVIOUS
<1>3. ASSUME NEW k \in 1 .. Len(u)
      PROVE  (s \o u)[Len(s) + k] = u[k]
  OBVIOUS
<1>4. Stands(s \o u, 0, s)
  <2>1. 0 + Len(s) <= Len(s \o u)
    BY <1>1
  <2> QED BY <1>2, <2>1 DEF Stands
<1>5. Stands(s \o u, Len(s), u)
  <2>1. Len(s) + Len(u) <= Len(s \o u)
    BY <1>1
  <2> QED BY <1>1, <1>3, <2>1 DEF Stands
<1> QED BY <1>1, <1>4, <1>5

(***************************************************************************)
(* FlattenSeq lays its parts one after the other.                          *)
(***************************************************************************)
FlattenStep(ss, f) == [i \in 1 .. Len(ss) |-> IF i = 1 THEN ss[i] ELSE f[i - 1] \o ss[i]]

Flattened(ss) == CHOOSE f : f = FlattenStep(ss, f)

LEMMA FlattenIs ==
    ASSUME NEW ss
    PROVE  FlattenSeq(ss) = IF Len(ss) = 0 THEN ss ELSE Flattened(ss)[Len(ss)]
  BY DEF FlattenSeq, Flattened, FlattenStep

LEMMA FlattenHolds ==
    ASSUME NEW A, NEW ss \in Seq(Seq(A))
    PROVE  /\ Flattened(ss) = FlattenStep(ss, Flattened(ss))
           /\ Flattened(ss) \in [1 .. Len(ss) -> Seq(A)]
<1> DEFINE N == Len(ss)
           X == 1 .. N
           V == Seq(A)
           D == 2 .. N
           rk == [x \in X |-> x]
           succ == [x \in D |-> x - 1]
           base == [x \in X |-> ss[x]]
           comb == [x \in D |-> [s \in V |-> s \o ss[x]]]
<1>0. N \in Nat /\ rk \in [X -> 0 .. N] /\ D \in SUBSET X /\ succ \in [D -> X] /\ Descends(D, rk, succ)
  BY DEF Descends
<1>1. \A x \in X : ss[x] \in V
  OBVIOUS
<1>2. base \in [X -> V]
  BY <1>1
<1>3. comb \in [D -> [V -> V]]
  <2>1. ASSUME NEW x \in D, NEW s \in V
        PROVE  s \o ss[x] \in V
    BY <1>0, <1>1
  <2> HIDE DEF V
  <2> QED BY <2>1
<1>4. PICK f \in [X -> V] : Recurs(f, X, D, succ, base, comb)
  <2> HIDE DEF N, X, V, D, rk, succ, base, comb
  <2>1. HasFunction(X, V, D, succ, base, comb)
    BY <1>0, <1>2, <1>3, RecursionHasFunction
  <2> QED BY <2>1 DEF HasFunction
<1>5. f = FlattenStep(ss, f)
  <2>1. ASSUME NEW x \in X
        PROVE  f[x] = IF x = 1 THEN ss[x] ELSE f[x - 1] \o ss[x]
    <3>1. f[x] = IF x \in D THEN comb[x][f[succ[x]]] ELSE base[x]
      BY <1>4 DEF Recurs
    <3>2. CASE x = 1
      BY <3>1, <3>2
    <3>3. CASE x # 1
      <4>1. x \in D /\ succ[x] = x - 1 /\ x - 1 \in X
        BY <3>3
      <4>2. f[x - 1] \in V
        BY <4>1
      <4>3. f[x] = comb[x][f[x - 1]]
        BY <3>1, <4>1
      <4> QED BY <3>3, <4>1, <4>2, <4>3
    <3> QED BY <3>2, <3>3
  <2>2. f = [x \in X |-> f[x]]
    OBVIOUS
  <2> HIDE DEF V
  <2> QED BY <2>1, <2>2 DEF FlattenStep
<1> DEFINE F == Flattened(ss)
<1>6. F = FlattenStep(ss, F)
  BY <1>5 DEF Flattened
<1>7. F \in [X -> V]
  <2> HIDE DEF F
  <2> DEFINE T == {x \in X : F[x] \in V}
  <2>1. \A x \in X : F[x] = IF x = 1 THEN ss[x] ELSE F[x - 1] \o ss[x]
    BY <1>6 DEF FlattenStep
  <2>2. X \ D \subseteq T
    <3> SUFFICES ASSUME NEW x \in X, x \notin D
                 PROVE  F[x] \in V
      OBVIOUS
    <3>1. x = 1
      OBVIOUS
    <3> QED BY <2>1, <3>1, <1>1
  <2>3. Inherited(D, succ, T)
    <3> SUFFICES ASSUME NEW x \in D, succ[x] \in T
                 PROVE  x \in T
      BY DEF Inherited
    <3>1. F[x - 1] \in Seq(A) /\ x \in X /\ x # 1
      OBVIOUS
    <3>2. F[x] = F[x - 1] \o ss[x] /\ ss[x] \in Seq(A)
      BY <2>1, <3>1, <1>1
    <3>3. F[x] \in Seq(A)
      BY <3>1, <3>2
    <3> QED BY <3>1, <3>3
  <2>4. X \subseteq T
    <3> HIDE DEF N, X, V, D, T, rk, succ
    <3> QED BY <1>0, <2>2, <2>3, RecursionHolds
  <2>5. F = [x \in X |-> F[x]]
    <3>1. FlattenStep(ss, F) = [x \in X |-> FlattenStep(ss, F)[x]]
      BY DEF FlattenStep
    <3> QED BY <3>1, <1>6
  <2> QED BY <2>4, <2>5
<1> QED BY <1>6, <1>7

(* at[k] is how much of s the first k parts are.                           *)
Lays(ss, at, s) ==
    /\ at[0] = 0 /\ at[Len(ss)] = Len(s)
    /\ \A k \in 1 .. Len(ss) : at[k] = at[k - 1] + Len(ss[k]) /\ Stands(s, at[k - 1], ss[k])

LEMMA FlattenLays ==
    ASSUME NEW A, NEW ss \in Seq(Seq(A))
    PROVE  /\ FlattenSeq(ss) \in Seq(A)
           /\ \E at \in [0 .. Len(ss) -> Nat] : Lays(ss, at, FlattenSeq(ss))
<1> DEFINE N == Len(ss)
           F == Flattened(ss)
           s == FlattenSeq(ss)
<1>1. CASE N = 0
  <2>1. ss = <<>>
    BY <1>1
  <2>a. s = ss
    BY <1>1, FlattenIs
  <2>2. s = <<>> /\ Len(s) = 0 /\ s \in Seq(A)
    <3> HIDE DEF s
    <3> QED BY <2>1, <2>a
  <2> DEFINE at == [k \in 0 .. 0 |-> 0]
  <2>3. at \in [0 .. N -> Nat] /\ Lays(ss, at, s)
    BY <1>1, <2>2 DEF Lays
  <2> QED BY <2>2, <2>3
<1>2. CASE N # 0
  <2>0. N \in Nat /\ N \in 1 .. N /\ s = F[N]
    BY <1>2, FlattenIs
  <2>h. F = FlattenStep(ss, F) /\ F \in [1 .. N -> Seq(A)]
    BY FlattenHolds
  <2>1. \A x \in 1 .. N : F[x] \in Seq(A) /\ ss[x] \in Seq(A)
    <3>1. \A x \in 1 .. N : ss[x] \in Seq(A)
      OBVIOUS
    <3> HIDE DEF F
    <3> QED BY <2>h, <3>1
  <2>2. \A x \in 1 .. N : F[x] = IF x = 1 THEN ss[x] ELSE F[x - 1] \o ss[x]
    <3> HIDE DEF F
    <3> QED BY <2>h DEF FlattenStep
  <2>3. s \in Seq(A)
    BY <2>0, <2>1
  <2> DEFINE at == [k \in 0 .. N |-> IF k = 0 THEN 0 ELSE Len(F[k])]
  <2>4. at \in [0 .. N -> Nat] /\ at[0] = 0 /\ at[N] = Len(s)
    BY <2>0, <2>1
  <2>5. ASSUME NEW k \in 1 .. N
        PROVE  at[k] = at[k - 1] + Len(ss[k]) /\ Stands(F[k], at[k - 1], ss[k])
    <3>0. k - 1 \in 0 .. N /\ F[k] \in Seq(A) /\ ss[k] \in Seq(A) /\ at[k] = Len(F[k])
      BY <2>1
    <3>a. at[k - 1] = IF k - 1 = 0 THEN 0 ELSE Len(F[k - 1])
      BY <3>0
    <3>1. CASE k = 1
      <4>1. F[k] = ss[k] /\ at[k - 1] = 0 /\ Len(ss[k]) \in Nat
        BY <3>1, <2>2, <3>0
      <4>2. Stands(ss[k], 0, ss[k])
        BY <3>0 DEF Stands
      <4>3. at[k] = 0 + Len(ss[k])
        BY <3>0, <4>1
      <4> HIDE DEF at, F
      <4> QED BY <4>1, <4>2, <4>3
    <3>2. CASE k # 1
      <4>0. k - 1 \in 1 .. N /\ k - 1 # 0
        BY <3>2
      <4>1. F[k - 1] \in Seq(A) /\ F[k] = F[k - 1] \o ss[k] /\ at[k - 1] = Len(F[k - 1])
        <5> HIDE DEF F, at
        <5> QED BY <3>2, <3>a, <4>0, <2>1, <2>2
      <4> HIDE DEF F, at
      <4> QED BY <3>0, <4>1, ConcatStands
    <3> QED BY <3>1, <3>2
  <2>6. ASSUME NEW k \in 1 .. N
        PROVE  Stands(s, at[k - 1], ss[k])
    <3> DEFINE S == {n \in Nat : k <= n /\ n <= N => Stands(F[n], at[k - 1], ss[k])}
    <3>1. 0 \in S
      OBVIOUS
    <3>2. ASSUME NEW n \in S
          PROVE  n + 1 \in S
      <4> SUFFICES ASSUME k <= n + 1, n + 1 <= N
                   PROVE  Stands(F[n + 1], at[k - 1], ss[k])
        OBVIOUS
      <4>0. n \in Nat
        OBVIOUS
      <4>1. CASE k = n + 1
        BY <2>5, <4>1
      <4>2. CASE k # n + 1
        <5>1. k <= n /\ n <= N /\ n \in 1 .. N /\ n + 1 \in 1 .. N /\ (n + 1) - 1 = n /\ n + 1 # 1
          BY <4>0, <4>2
        <5>2. Stands(F[n], at[k - 1], ss[k])
          BY <5>1
        <5>3. F[n + 1] = F[n] \o ss[n + 1] /\ F[n] \in Seq(A) /\ ss[n + 1] \in Seq(A)
          BY <5>1, <2>1, <2>2
        <5>4. Stands(F[n + 1], 0, F[n]) /\ F[n + 1] \in Seq(A)
          <6> HIDE DEF F
          <6> QED BY <5>3, ConcatStands
        <5>5. at[k - 1] \in Nat /\ ss[k] \in Seq(A) /\ 0 + at[k - 1] = at[k - 1]
          BY <2>1, <2>4
        <5>6. Stands(F[n + 1], 0 + at[k - 1], ss[k])
          <6> HIDE DEF F, at
          <6> QED BY <5>2, <5>3, <5>4, <5>5, StandsWithin
        <5> QED BY <5>5, <5>6
      <4> QED BY <4>1, <4>2
    <3>3. N \in S
      <4>1. S \subseteq Nat
        OBVIOUS
      <4> HIDE DEF S, F, s, at
      <4> QED BY <3>1, <3>2, <4>1, <2>0, AllNumbers
    <3> QED BY <3>3, <2>0
  <2>7. Lays(ss, at, s)
    <3> HIDE DEF s, at, F
    <3> QED BY <2>4, <2>5, <2>6 DEF Lays
  <2> QED BY <2>3, <2>4, <2>7
<1> QED BY <1>1, <1>2

(* A recursion over the numbers up to N has a function.                    *)
Forward(V, N, m, step) ==
    \E f \in [0 .. N -> V] : f[0] = m /\ \A k \in 1 .. N : f[k] = step[k][f[k - 1]]

LEMMA ForwardRuns ==
    ASSUME NEW V, NEW N \in Nat, NEW m \in V, NEW step \in [1 .. N -> [V -> V]]
    PROVE  Forward(V, N, m, step)
<1> DEFINE X == 0 .. N
           D == 1 .. N
           rk == [k \in X |-> k]
           succ == [k \in D |-> k - 1]
           base == [k \in X |-> m]
<1>1. rk \in [X -> 0 .. N] /\ D \in SUBSET X /\ succ \in [D -> X] /\ base \in [X -> V] /\ step \in [D -> [V -> V]]
  OBVIOUS
<1>2. Descends(D, rk, succ)
  BY DEF Descends
<1>3. HasFunction(X, V, D, succ, base, step)
  <2> HIDE DEF X, D, rk, succ, base
  <2> QED BY <1>1, <1>2, RecursionHasFunction
<1>4. PICK f \in [X -> V] : Recurs(f, X, D, succ, base, step)
  BY <1>3 DEF HasFunction
<1>5. f[0] = m
  BY <1>4 DEF Recurs
<1>6. ASSUME NEW k \in 1 .. N
      PROVE  f[k] = step[k][f[k - 1]]
  BY <1>4 DEF Recurs
<1> QED BY <1>5, <1>6 DEF Forward

LEMMA ForwardHolds ==
    ASSUME NEW N \in Nat, NEW T, 0 \in T, \A k \in 1 .. N : k - 1 \in T => k \in T
    PROVE  \A k \in 0 .. N : k \in T
<1> DEFINE S == {n \in Nat : n <= N => n \in T}
<1>1. 0 \in S
  OBVIOUS
<1>2. ASSUME NEW n \in S
      PROVE  n + 1 \in S
  <2> SUFFICES ASSUME n + 1 <= N
               PROVE  n + 1 \in T
    OBVIOUS
  <2>1. n \in Nat /\ n + 1 \in 1 .. N /\ (n + 1) - 1 = n
    OBVIOUS
  <2> QED BY <2>1
<1>3. \A n \in Nat : n \in S
  <2>1. S \subseteq Nat
    OBVIOUS
  <2> HIDE DEF S
  <2> QED BY <1>1, <1>2, <2>1, AllNumbers
<1> QED BY <1>3

Regroups(A) == \A x, y, z \in Seq(A) : (x \o y) \o z = x \o (y \o z)

LEMMA ConcatRegroups == \A A : Regroups(A)
BY ConcatAssociative, Zenon DEF Regroups

(* FlattenSeq joins its parts one by one.                                  *)
Joins(ss, f) ==
    /\ Len(ss) # 0 => f[1] = ss[1]
    /\ \A k \in 1 .. Len(ss) - 1 : f[k + 1] = f[k] \o ss[k + 1]

LEMMA FlattenJoins ==
    ASSUME NEW A, NEW ss \in Seq(Seq(A)), ss # <<>>
    PROVE  \E f \in [1 .. Len(ss) -> Seq(A)] : Joins(ss, f) /\ FlattenSeq(ss) = f[Len(ss)]
<1> DEFINE F == Flattened(ss)
<1>1. F = FlattenStep(ss, F) /\ F \in [1 .. Len(ss) -> Seq(A)]
  BY FlattenHolds
<1>2. Len(ss) \in Nat \ {0}
  BY EmptySeq
<1>3. FlattenSeq(ss) = F[Len(ss)]
  BY <1>2, FlattenIs
<1> HIDE DEF F
<1>4. \A k \in 1 .. Len(ss) : F[k] = IF k = 1 THEN ss[k] ELSE F[k - 1] \o ss[k]
  BY <1>1 DEF FlattenStep
<1>5. ASSUME NEW k \in 1 .. Len(ss) - 1
      PROVE  F[k + 1] = F[k] \o ss[k + 1]
  <2>1. k + 1 \in 1 .. Len(ss) /\ k + 1 # 1 /\ (k + 1) - 1 = k
    BY <1>2
  <2>2. F[k + 1] = F[(k + 1) - 1] \o ss[k + 1]
    BY <1>4, <2>1
  <2> QED BY <2>1, <2>2
<1>6. F[1] = ss[1]
  <2>1. 1 \in 1 .. Len(ss)
    BY <1>2
  <2> QED BY <1>4, <2>1
<1> QED BY <1>1, <1>3, <1>5, <1>6 DEF Joins

(* FlattenSeq puts the first part in front of what the others make.        *)
LEMMA FlattenFirst ==
    ASSUME NEW A, NEW ss \in Seq(Seq(A)), ss # <<>>
    PROVE  FlattenSeq(ss) = ss[1] \o FlattenSeq(Tail(ss))
<1> DEFINE B == Seq(A)
           N == Len(ss)
           tt == Tail(ss)
<1>1. /\ N \in Nat /\ N # 0 /\ tt \in Seq(B) /\ Len(tt) = N - 1
      /\ \A k \in 1 .. N - 1 : tt[k] = ss[k + 1]
      /\ \A k \in 1 .. N : ss[k] \in Seq(A)
  <2>1. ss \in Seq(B) /\ \A k \in 1 .. Len(ss) : ss[k] \in Seq(A)
    OBVIOUS
  <2> HIDE DEF B
  <2>2. Len(ss) \in Nat \ {0}
    BY <2>1, EmptySeq
  <2>3. tt \in Seq(B) /\ Len(tt) = N - 1 /\ \A k \in 1 .. Len(tt) : tt[k] = ss[k + 1]
    BY <2>1, HeadTailProperties
  <2> QED BY <2>1, <2>2, <2>3
<1>2. PICK f \in [1 .. N -> Seq(A)] : Joins(ss, f) /\ FlattenSeq(ss) = f[N]
  BY FlattenJoins
<1> HIDE DEF tt
<1>3. CASE N = 1
  <2>1. Len(tt) = 0
    BY <1>1, <1>3
  <2>2. FlattenSeq(tt) = <<>>
    <3>1. tt = <<>>
      <4> HIDE DEF B
      <4> QED BY <1>1, <2>1, EmptySeq
    <3> QED BY <2>1, <3>1, FlattenIs
  <2>3. FlattenSeq(ss) = ss[1] /\ ss[1] \in Seq(A)
    BY <1>1, <1>2, <1>3 DEF Joins
  <2>4. ss[1] \o <<>> = ss[1]
    BY <2>3, ConcatEmptySeq
  <2> QED BY <2>2, <2>3, <2>4 DEF tt
<1>4. CASE N # 1
  <2>0. tt # <<>> /\ tt \in Seq(Seq(A))
    <3>1. Len(tt) # 0 /\ Len(<<>>) = 0
      BY <1>1, <1>4
    <3> QED BY <1>1, <3>1
  <2>1. PICK g \in [1 .. Len(tt) -> Seq(A)] : Joins(tt, g) /\ FlattenSeq(tt) = g[Len(tt)]
    <3> HIDE DEF B
    <3> QED BY <2>0, FlattenJoins
  <2> DEFINE S == {n \in Nat : n + 1 <= N - 1 => f[(n + 1) + 1] = ss[1] \o g[n + 1]}
  <2> HIDE DEF B, N
  <2>2. 0 \in S
    <3>1. 1 \in 1 .. N - 1 /\ Len(tt) # 0 /\ 1 + 1 = 2 /\ 0 + 1 = 1
      BY <1>1, <1>4
    <3>2. f[1 + 1] = f[1] \o ss[1 + 1]
      BY <1>2, <3>1 DEF Joins, N
    <3>3. f[1] = ss[1] /\ g[1] = tt[1]
      BY <1>1, <1>2, <2>1, <3>1 DEF Joins, N
    <3>4. tt[1] = ss[1 + 1]
      BY <1>1, <3>1
    <3>5. f[(0 + 1) + 1] = ss[1] \o g[0 + 1]
      BY <3>1, <3>2, <3>3, <3>4
    <3> QED BY <3>5
  <2>3. ASSUME NEW n \in S
        PROVE  n + 1 \in S
    <3>0. n \in Nat /\ (n + 1 <= N - 1 => f[(n + 1) + 1] = ss[1] \o g[n + 1])
      OBVIOUS
    <3> DEFINE m == n + 1
    <3>1. ASSUME m + 1 <= N - 1
          PROVE  f[(m + 1) + 1] = ss[1] \o g[m + 1]
      <4>1. /\ m \in 1 .. N - 1 /\ m + 1 \in 1 .. N - 1 /\ m \in 1 .. Len(tt) - 1 /\ m \in 1 .. Len(tt)
            /\ 1 \in 1 .. N /\ m + 1 \in 1 .. Len(tt) /\ m <= N - 1
        BY <1>1, <3>0, <3>1
      <4>2. f[m + 1] = ss[1] \o g[m]
        BY <3>0, <4>1
      <4> HIDE DEF m, S
      <4>3. f[(m + 1) + 1] = f[m + 1] \o ss[(m + 1) + 1]
        BY <1>2, <4>1 DEF Joins, N
      <4>4. g[m + 1] = g[m] \o tt[m + 1]
        BY <2>1, <4>1 DEF Joins
      <4>5. tt[m + 1] = ss[(m + 1) + 1]
        BY <1>1, <4>1
      <4>6. ss[1] \in Seq(A) /\ g[m] \in Seq(A)
        BY <1>1, <2>1, <4>1
      <4>7. tt[m + 1] \in Seq(A)
        BY <1>1, <4>1, ElementOfSeq DEF B
      <4>8. (ss[1] \o g[m]) \o tt[m + 1] = ss[1] \o (g[m] \o tt[m + 1])
        <5>1. \A x, y, z \in Seq(A) : (x \o y) \o z = x \o (y \o z)
          <6>1. Regroups(A)
            BY ConcatRegroups
          <6> QED BY <6>1 DEF Regroups
        <5> QED BY <4>6, <4>7, <5>1, Zenon
      <4>9. f[(m + 1) + 1] = (ss[1] \o g[m]) \o tt[m + 1]
        BY <4>2, <4>3, <4>5
      <4>10. ss[1] \o g[m + 1] = ss[1] \o (g[m] \o tt[m + 1])
        BY <4>4
      <4> QED BY <4>8, <4>9, <4>10
    <3>2. (n + 1) + 1 <= N - 1 => f[((n + 1) + 1) + 1] = ss[1] \o g[(n + 1) + 1]
      <4> HIDE DEF S
      <4> QED BY <3>1
    <3>3. n + 1 \in Nat
      BY <3>0
    <3> HIDE DEF m
    <3> QED BY <3>2, <3>3
  <2>4. N - 2 \in S
    <3>1. N - 2 \in Nat
      BY <1>1, <1>4
    <3>2. S \subseteq Nat
      OBVIOUS
    <3> HIDE DEF S
    <3> QED BY <2>2, <2>3, <3>1, <3>2, AllNumbers
  <2>5. (N - 2) + 1 <= N - 1 /\ ((N - 2) + 1) + 1 = N /\ (N - 2) + 1 = Len(tt)
    BY <1>1, <1>4
  <2>6. f[N] = ss[1] \o g[Len(tt)]
    BY <2>4, <2>5
  <2> QED BY <1>2, <2>1, <2>6 DEF tt
<1> QED BY <1>3, <1>4

(* What the parts from k + 1 on make: the next part, and so on.            *)
FlatFrom(ss, k) == FlattenSeq(SubSeq(ss, k + 1, Len(ss)))

LEMMA FlatFromIs ==
    ASSUME NEW A, NEW ss \in Seq(Seq(A))
    PROVE  /\ FlatFrom(ss, 0) = FlattenSeq(ss)
           /\ FlatFrom(ss, Len(ss)) = <<>>
           /\ \A k \in 0 .. Len(ss) : FlatFrom(ss, k) \in Seq(A)
           /\ \A k \in 1 .. Len(ss) : FlatFrom(ss, k - 1) = ss[k] \o FlatFrom(ss, k)
<1> DEFINE B == Seq(A)
<1>0. Len(ss) \in Nat /\ ss \in Seq(B)
  OBVIOUS
<1>1. SubSeq(ss, 0 + 1, Len(ss)) = ss
  <2> HIDE DEF B
  <2> QED BY <1>0
<1>2. SubSeq(ss, Len(ss) + 1, Len(ss)) = <<>>
  <2> HIDE DEF B
  <2> QED BY <1>0
<1>3. FlattenSeq(<<>>) = <<>>
  <2>1. Len(<<>>) = 0
    OBVIOUS
  <2> QED BY <2>1, FlattenIs
<1>4. \A k \in 0 .. Len(ss) : SubSeq(ss, k + 1, Len(ss)) \in Seq(B)
  <2> HIDE DEF B
  <2> QED BY <1>0
<1>5. ASSUME NEW k \in 0 .. Len(ss)
      PROVE  FlatFrom(ss, k) \in Seq(A)
  <2>1. FlattenSeq(SubSeq(ss, k + 1, Len(ss))) \in Seq(A)
    BY <1>4, FlattenLays
  <2> QED BY <2>1 DEF FlatFrom
<1>6. ASSUME NEW k \in 1 .. Len(ss)
      PROVE  FlatFrom(ss, k - 1) = ss[k] \o FlatFrom(ss, k)
  <2> DEFINE u == SubSeq(ss, (k - 1) + 1, Len(ss))
  <2>1. Head(u) = ss[k] /\ Tail(u) = SubSeq(ss, k + 1, Len(ss))
    <3>1. k \in 1 .. Len(ss) /\ Len(ss) \in k .. Len(ss) /\ (k - 1) + 1 = k
      BY <1>0
    <3> HIDE DEF B
    <3> QED BY <1>0, <3>1, HeadTailOfSubSeq
  <2>2. u \in Seq(B) /\ u # <<>> /\ Head(u) = u[1]
    <3>1. k - 1 \in 0 .. Len(ss)
      BY <1>0
    <3>2. u \in Seq(B)
      BY <1>4, <3>1
    <3>3. Len(u) = Len(ss) - k + 1
      <4> HIDE DEF B
      <4> QED BY <1>0
    <3>4. Len(u) # 0
      BY <1>0, <3>3
    <3> HIDE DEF B, u
    <3> QED BY <3>2, <3>4
  <2>3. FlattenSeq(u) = u[1] \o FlattenSeq(Tail(u))
    <3>1. u \in Seq(Seq(A)) /\ u # <<>>
      BY <2>2
    <3> HIDE DEF u
    <3> QED BY <3>1, FlattenFirst
  <2> QED BY <2>1, <2>2, <2>3 DEF FlatFrom
<1> QED BY <1>1, <1>2, <1>3, <1>5, <1>6 DEF FlatFrom

(* What holds of every part, of nothing and of one text behind another     *)
(* holds of what the parts make.                                           *)
LEMMA FlattenKeeps ==
    ASSUME NEW A, NEW ss \in Seq(Seq(A)), NEW T, <<>> \in T,
           \A s \in Seq(A), t \in Seq(A) : s \in T /\ t \in T => s \o t \in T,
           \A k \in 1 .. Len(ss) : ss[k] \in T
    PROVE  FlattenSeq(ss) \in T
<1> DEFINE N == Len(ss)
           S == {n \in Nat : n <= N => FlatFrom(ss, N - n) \in T}
<1>0. N \in Nat /\ \A k \in 1 .. N : ss[k] \in Seq(A)
  OBVIOUS
<1>1. 0 \in S
  <2>1. N - 0 = N
    BY <1>0
  <2> QED BY <2>1, FlatFromIs
<1>2. ASSUME NEW n \in S
      PROVE  n + 1 \in S
  <2> SUFFICES ASSUME n + 1 <= N
               PROVE  FlatFrom(ss, N - (n + 1)) \in T
    OBVIOUS
  <2>1. n \in Nat /\ N - n \in 1 .. N /\ N - n \in 0 .. N /\ N - (n + 1) = (N - n) - 1
    BY <1>0
  <2>2. FlatFrom(ss, N - n) \in T
    BY <2>1
  <2>3. FlatFrom(ss, (N - n) - 1) = ss[N - n] \o FlatFrom(ss, N - n) /\ FlatFrom(ss, N - n) \in Seq(A)
    BY <2>1, FlatFromIs
  <2> QED BY <2>1, <2>2, <2>3, <1>0
<1>3. N \in S
  <2>1. S \subseteq Nat
    OBVIOUS
  <2> HIDE DEF S
  <2> QED BY <1>0, <1>1, <1>2, <2>1, AllNumbers
<1>4. N - N = 0
  BY <1>0
<1> QED BY <1>0, <1>3, <1>4, FlatFromIs
=============================================================================
