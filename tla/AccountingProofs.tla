-------------------------- MODULE AccountingProofs --------------------------
(***************************************************************************)
(* Proofs about what is counted: the rate that Brutal keeps, for a ring of *)
(* any size, and that what TcpProxy delivers was accounted for, for any    *)
(* number of streams.  Both rest on facts about sums over finite sets.     *)
(***************************************************************************)
EXTENDS TcpProxy, Brutal, TLAPS

-----------------------------------------------------------------------------
(* Sums over finite sets.                                                  *)

(* What the lemmas need to know of naturals and of finite sets.  It is a   *)
(* hypothesis here, which keeps the library of theorems about them away    *)
(* from the steps that have no use for it; BasicsHold proves it.           *)
Basics ==
  /\ \A T : T \subseteq Nat /\ T # {} => \E x \in T : \A y \in T : x <= y
  /\ \A S, T : IsFiniteSet(S) /\ T \subseteq S => IsFiniteSet(T) /\ Cardinality(T) <= Cardinality(S)
  /\ \A S : IsFiniteSet(S) => Cardinality(S) \in Nat
  /\ \A S, x : IsFiniteSet(S) /\ x \in S => Cardinality(S \ {x}) = Cardinality(S) - 1
  /\ \A S : IsFiniteSet(S) /\ Cardinality(S) = 0 => S = {}
  /\ \A n \in Nat : IsFiniteSet(0..n)

(* A set of naturals that is not empty has a least element: induction, by *)
(* the smallest counterexample.                                            *)
LEMMA LeastNat ==
  ASSUME Basics, NEW T, T \subseteq Nat, T # {}
  PROVE  \E x \in T : \A y \in T : x <= y
BY Zenon DEF Basics

(* The parts of a finite set are finite and no larger. *)
LEMMA FinitePart ==
  ASSUME Basics, NEW S, IsFiniteSet(S)
  PROVE  \A T \in SUBSET S : IsFiniteSet(T) /\ Cardinality(T) \in Nat /\ Cardinality(T) <= Cardinality(S)
<1> SUFFICES ASSUME NEW T, T \subseteq S
             PROVE  IsFiniteSet(T) /\ Cardinality(T) \in Nat /\ Cardinality(T) <= Cardinality(S)
  BY Zenon
<1>1. IsFiniteSet(T) /\ Cardinality(T) <= Cardinality(S)
  BY Zenon DEF Basics
<1>2. Cardinality(T) \in Nat
  BY <1>1, Zenon DEF Basics
<1> QED BY <1>1, <1>2, Zenon

(* One element less. *)
LEMMA OneLess ==
  ASSUME Basics, NEW S, IsFiniteSet(S), NEW x \in S
  PROVE  Cardinality(S \ {x}) = Cardinality(S) - 1
BY Zenon DEF Basics

(* The element that MapThenFoldSet takes first. *)
Pick(t) == CHOOSE x \in t : TRUE

(* A set of subsets that has the empty one, and every other one that it    *)
(* has but for the element a fold takes first, has them all.               *)
LEMMA SubsetInduction ==
  ASSUME Basics, NEW T, IsFiniteSet(T), NEW Good, {} \in Good,
         \A t \in SUBSET T : t # {} /\ t \ {Pick(t)} \in Good => t \in Good
  PROVE  \A t \in SUBSET T : t \in Good
<1> DEFINE Bad == {k \in Nat : \E t \in SUBSET T : t \notin Good /\ Cardinality(t) = k}
<1>1. \A t \in SUBSET T : IsFiniteSet(t) /\ Cardinality(t) \in Nat
  BY FinitePart, Zenon
<1>2. SUFFICES ASSUME Bad # {} PROVE FALSE
  BY <1>1
<1>3. PICK k \in Bad : \A j \in Bad : k <= j
  <2>1. Bad \subseteq Nat
    OBVIOUS
  <2> HIDE DEF Bad
  <2> QED BY <1>2, <2>1, LeastNat, Zenon
<1>4. PICK t \in SUBSET T : t \notin Good /\ Cardinality(t) = k
  BY <1>3
<1>5. t # {}
  BY <1>4, ZenonT(30), SMTT(60)
<1>6. Pick(t) \in t
  BY <1>5 DEF Pick
<1> DEFINE u == t \ {Pick(t)}
<1>7. u \in SUBSET T /\ Cardinality(u) = k - 1
  BY <1>1, <1>4, <1>6, OneLess, Zenon
<1>8. u \notin Good
  BY <1>4, <1>5
<1>9. k \in Nat /\ k - 1 \in Nat
  BY <1>1, <1>3, <1>7
<1>10. k - 1 \in Bad
  BY <1>7, <1>8, <1>9
<1> QED BY <1>3, <1>9, <1>10

(* MapThenSumSet is a recursive function on the subsets. *)
SumRule(F, S, g) == [t \in SUBSET S |-> IF t = {} THEN 0 ELSE F[Pick(t)] + g[t \ {Pick(t)}]]
Iter(F, S) == CHOOSE g : g = SumRule(F, S, g)

LEMMA SumIs ==
  ASSUME NEW F, NEW S
  PROVE  SumOf(F, S) = Iter(F, S)[S]
BY DEF SumOf, MapThenSumSet, MapThenFoldSet, Iter, Pick, SumRule

(* The recursion has a solution: one for the subsets of up to k elements   *)
(* extends to those of k + 1.                                              *)
LEMMA IterIs ==
  ASSUME Basics, NEW F, NEW S, IsFiniteSet(S)
  PROVE  Iter(F, S) = SumRule(F, S, Iter(F, S))
<1> DEFINE Sub(k) == {t \in SUBSET S : Cardinality(t) <= k}
           Step(g, k) == [t \in Sub(k) |-> IF t = {} THEN 0 ELSE F[Pick(t)] + g[t \ {Pick(t)}]]
           Bad == {k \in Nat : ~ \E g : g = Step(g, k)}
<1>1. \A t \in SUBSET S : IsFiniteSet(t) /\ Cardinality(t) \in Nat /\ Cardinality(t) <= Cardinality(S)
  BY FinitePart, Zenon
<1>2. \A t \in SUBSET S : t # {} =>
        /\ t \ {Pick(t)} \in SUBSET S /\ Cardinality(t \ {Pick(t)}) = Cardinality(t) - 1
  <2> SUFFICES ASSUME NEW t \in SUBSET S, t # {}
               PROVE  t \ {Pick(t)} \in SUBSET S /\ Cardinality(t \ {Pick(t)}) = Cardinality(t) - 1
    OBVIOUS
  <2>1. Pick(t) \in t
    BY DEF Pick
  <2> QED BY <1>1, <2>1, OneLess, Zenon
<1>3. Bad = {}
  <2> SUFFICES ASSUME Bad # {} PROVE FALSE
    BY Zenon
  <2>1. PICK k \in Bad : \A j \in Bad : k <= j
    <3>1. Bad \subseteq Nat
      OBVIOUS
    <3> HIDE DEF Bad
    <3> QED BY <3>1, LeastNat, Zenon
  <2>2. CASE k = 0
    <3>1. \A t \in Sub(0) : t = {}
      <4>1. \A t \in Sub(0) : IsFiniteSet(t) /\ Cardinality(t) = 0
        BY <1>1
      <4> QED BY <4>1, Zenon DEF Basics
    <3> DEFINE g == [t \in Sub(0) |-> 0]
    <3>2. g = Step(g, 0)
      BY <3>1
    <3> QED BY <2>1, <2>2, <3>2, Zenon
  <2>3. CASE k # 0
    <3>1. k \in Nat /\ k - 1 \in Nat /\ k - 1 \notin Bad
      <4>1. k \in Nat
        BY <2>1
      <4> HIDE DEF Bad
      <4>2. k - 1 \in Nat /\ ~(k <= k - 1)
        BY <2>3, <4>1
      <4> QED BY <2>1, <4>1, <4>2
    <3>2. PICK g : g = Step(g, k - 1)
      BY <3>1, Zenon
    <3> DEFINE h == Step(g, k)
    <3>3. \A t \in Sub(k - 1) : t \in Sub(k)
      BY <3>1, <1>1
    <3>4. \A t \in Sub(k - 1) : h[t] = g[t]
      <4>1. \A t \in Sub(k - 1) : g[t] = IF t = {} THEN 0 ELSE F[Pick(t)] + g[t \ {Pick(t)}]
        BY <3>2, Zenon
      <4>2. \A t \in Sub(k) : h[t] = IF t = {} THEN 0 ELSE F[Pick(t)] + g[t \ {Pick(t)}]
        OBVIOUS
      <4> HIDE DEF h, Sub
      <4> QED BY <3>3, <4>1, <4>2, Zenon
    <3>5. \A t \in Sub(k) : t # {} => t \ {Pick(t)} \in Sub(k - 1)
      BY <1>1, <1>2, <3>1, SMTT(30)
    <3>6. \A t \in Sub(k) : t # {} => h[t \ {Pick(t)}] = g[t \ {Pick(t)}]
      <4> HIDE DEF h, Sub
      <4> QED BY <3>4, <3>5
    <3>7. h = Step(h, k)
      <4>1. h = [t \in Sub(k) |-> IF t = {} THEN 0 ELSE F[Pick(t)] + g[t \ {Pick(t)}]]
        OBVIOUS
      <4> HIDE DEF h, Sub
      <4> QED BY <4>1, <3>6, Zenon
    <3> HIDE DEF h
    <3> QED BY <2>1, <3>1, <3>7, Zenon
  <2> QED BY <2>2, <2>3
<1>4. Cardinality(S) \in Nat /\ Sub(Cardinality(S)) = SUBSET S
  BY <1>1
<1>5. PICK g : g = Step(g, Cardinality(S))
  BY <1>3, <1>4, Zenon
<1>6. g = SumRule(F, S, g)
  BY <1>4, <1>5, Zenon DEF SumRule
<1> QED BY <1>6, Zenon DEF Iter

(* What g makes of the subsets of S, one element after the other. *)
Recurs(F, S, g) ==
  /\ g[{}] = 0
  /\ \A t \in SUBSET S : t # {} => g[t] = F[Pick(t)] + g[t \ {Pick(t)}]

(* The same, with any of the elements first. *)
AnyFirst(F, S, g) ==
  \A t \in SUBSET S : g[t] \in Nat /\ \A y \in t : g[t] = F[y] + g[t \ {y}]

LEMMA IterStep ==
  ASSUME Basics, NEW F, NEW S, IsFiniteSet(S)
  PROVE  Recurs(F, S, Iter(F, S))
<1> DEFINE g == Iter(F, S)
<1>1. g = SumRule(F, S, g)
  BY IterIs, Zenon
<1> HIDE DEF g
<1>2. /\ g[{}] = 0
      /\ \A t \in SUBSET S : t # {} => g[t] = F[Pick(t)] + g[t \ {Pick(t)}]
  BY <1>1, Zenon DEF SumRule
<1> QED BY <1>2, Zenon DEF g, Recurs

(* A sum of naturals. *)
LEMMA SumType ==
  ASSUME Basics, NEW S, IsFiniteSet(S), NEW F, \A x \in S : F[x] \in Nat
  PROVE  SumOf(F, S) \in Nat
<1> DEFINE g == Iter(F, S)
           Good == {t \in SUBSET S : g[t] \in Nat}
<1>0. Recurs(F, S, g)
  BY IterStep, Zenon
<1> HIDE DEF g
<1>1. /\ g[{}] = 0
      /\ \A t \in SUBSET S : t # {} => g[t] = F[Pick(t)] + g[t \ {Pick(t)}]
  BY <1>0, Zenon DEF Recurs
<1>2. {} \in Good
  BY <1>1
<1>3. \A t \in SUBSET S : t # {} /\ t \ {Pick(t)} \in Good => t \in Good
  <2>1. \A t \in SUBSET S : t # {} => Pick(t) \in S
    BY DEF Pick
  <2> QED BY <1>1, <2>1, SMTT(30)
<1>4. \A t \in SUBSET S : t \in Good
  <2> HIDE DEF Good
  <2> QED BY <1>2, <1>3, SubsetInduction, ZenonT(30)
<1> QED BY <1>4, SumIs DEF g

(* One term grows. *)
LEMMA SumGrows ==
  ASSUME Basics, NEW S, IsFiniteSet(S), NEW F, NEW G, NEW a, NEW n \in Nat,
         \A x \in S : F[x] \in Nat /\ G[x] = (IF x = a THEN F[x] + n ELSE F[x])
  PROVE  SumOf(G, S) = SumOf(F, S) + (IF a \in S THEN n ELSE 0)
<1> DEFINE f == Iter(F, S)
           g == Iter(G, S)
           Good == {t \in SUBSET S : f[t] \in Nat /\ g[t] = f[t] + (IF a \in t THEN n ELSE 0)}
<1>0. Recurs(F, S, f) /\ Recurs(G, S, g)
  BY IterStep, Zenon
<1> HIDE DEF f, g
<1>1. /\ f[{}] = 0
      /\ \A t \in SUBSET S : t # {} => f[t] = F[Pick(t)] + f[t \ {Pick(t)}]
  BY <1>0, Zenon DEF Recurs
<1>2. /\ g[{}] = 0
      /\ \A t \in SUBSET S : t # {} => g[t] = G[Pick(t)] + g[t \ {Pick(t)}]
  BY <1>0, Zenon DEF Recurs
<1>3. {} \in Good
  BY <1>1, <1>2
<1>4. \A t \in SUBSET S : t # {} /\ t \ {Pick(t)} \in Good => t \in Good
  <2> SUFFICES ASSUME NEW t \in SUBSET S, t # {}, t \ {Pick(t)} \in Good
               PROVE  t \in Good
    OBVIOUS
  <2> DEFINE u == t \ {Pick(t)}
  <2>1. Pick(t) \in t /\ Pick(t) \in S
    BY DEF Pick
  <2>2. f[t] = F[Pick(t)] + f[u] /\ g[t] = G[Pick(t)] + g[u]
    BY <1>1, <1>2
  <2>3. f[u] \in Nat /\ g[u] = f[u] + (IF a \in u THEN n ELSE 0)
    OBVIOUS
  <2>4. CASE Pick(t) = a
    BY <2>1, <2>2, <2>3, <2>4, SMTT(30)
  <2>5. CASE Pick(t) # a
    BY <2>1, <2>2, <2>3, <2>5, SMTT(30)
  <2> QED BY <2>4, <2>5
<1>5. \A t \in SUBSET S : t \in Good
  <2> HIDE DEF Good
  <2> QED BY <1>3, <1>4, SubsetInduction, ZenonT(30)
<1> QED BY <1>5, SumIs DEF f, g

(* Smaller terms. *)
LEMMA SumMonotone ==
  ASSUME Basics, NEW S, IsFiniteSet(S), NEW F, NEW G,
         \A x \in S : F[x] \in Nat /\ G[x] \in Nat /\ F[x] <= G[x]
  PROVE  SumOf(F, S) <= SumOf(G, S)
<1> DEFINE f == Iter(F, S)
           g == Iter(G, S)
           Good == {t \in SUBSET S : f[t] \in Nat /\ g[t] \in Nat /\ f[t] <= g[t]}
<1>0. Recurs(F, S, f) /\ Recurs(G, S, g)
  BY IterStep, Zenon
<1> HIDE DEF f, g
<1>1. /\ f[{}] = 0
      /\ \A t \in SUBSET S : t # {} => f[t] = F[Pick(t)] + f[t \ {Pick(t)}]
  BY <1>0, Zenon DEF Recurs
<1>2. /\ g[{}] = 0
      /\ \A t \in SUBSET S : t # {} => g[t] = G[Pick(t)] + g[t \ {Pick(t)}]
  BY <1>0, Zenon DEF Recurs
<1>3. {} \in Good
  BY <1>1, <1>2, SMTT(30)
<1>4. \A t \in SUBSET S : t # {} /\ t \ {Pick(t)} \in Good => t \in Good
  <2> SUFFICES ASSUME NEW t \in SUBSET S, t # {}, t \ {Pick(t)} \in Good
               PROVE  t \in Good
    BY Zenon
  <2> DEFINE x == Pick(t)
             u == t \ {x}
  <2>1. F[x] \in Nat /\ G[x] \in Nat /\ F[x] <= G[x]
    <3>1. x \in S
      BY DEF Pick
    <3> QED BY <3>1, Zenon
  <2>2. f[t] = F[x] + f[u] /\ g[t] = G[x] + g[u]
    BY <1>1, <1>2, Zenon
  <2>3. f[u] \in Nat /\ g[u] \in Nat /\ f[u] <= g[u]
    BY ZenonT(60)
  <2> HIDE DEF x, u
  <2>4. f[t] \in Nat /\ g[t] \in Nat /\ f[t] <= g[t]
    BY <2>1, <2>2, <2>3
  <2> QED BY <2>4, Zenon
<1>5. \A t \in SUBSET S : t \in Good
  <2> HIDE DEF Good
  <2> QED BY <1>3, <1>4, SubsetInduction, ZenonT(30)
<1> QED BY <1>5, SumIs, ZenonT(30), SMTT(60) DEF f, g

LEMMA SumZero ==
  ASSUME Basics, NEW S, IsFiniteSet(S), NEW F, \A x \in S : F[x] = 0
  PROVE  SumOf(F, S) = 0
<1> DEFINE f == Iter(F, S)
           Good == {t \in SUBSET S : f[t] = 0}
<1>0. Recurs(F, S, f)
  BY IterStep, Zenon
<1> HIDE DEF f
<1>1. /\ f[{}] = 0
      /\ \A t \in SUBSET S : t # {} => f[t] = F[Pick(t)] + f[t \ {Pick(t)}]
  BY <1>0, Zenon DEF Recurs
<1>2. {} \in Good
  BY <1>1
<1>3. \A t \in SUBSET S : t # {} /\ t \ {Pick(t)} \in Good => t \in Good
  <2> SUFFICES ASSUME NEW t \in SUBSET S, t # {}, t \ {Pick(t)} \in Good
               PROVE  f[t] = 0
    BY Zenon
  <2>1. F[Pick(t)] = 0
    <3>1. Pick(t) \in S
      BY DEF Pick
    <3> QED BY <3>1, Zenon
  <2>2. f[t] = F[Pick(t)] + f[t \ {Pick(t)}] /\ f[t \ {Pick(t)}] = 0
    BY <1>1, Zenon
  <2> QED BY <2>1, <2>2
<1>4. \A t \in SUBSET S : t \in Good
  <2> HIDE DEF Good
  <2> QED BY <1>2, <1>3, SubsetInduction, ZenonT(30)
<1> QED BY <1>4, SumIs, ZenonT(30), SMTT(60) DEF f

(* A sum does not depend on the term it starts with. *)
LEMMA IterAny ==
  ASSUME Basics, NEW S, IsFiniteSet(S), NEW F, \A x \in S : F[x] \in Nat
  PROVE  AnyFirst(F, S, Iter(F, S))
<1> DEFINE f == Iter(F, S)
           Natural == {t \in SUBSET S : f[t] \in Nat}
           Any(t) == \A y \in t : f[t] = F[y] + f[t \ {y}]
           Bad == {k \in Nat : \E t \in SUBSET S : ~Any(t) /\ Cardinality(t) = k}
<1>0. Recurs(F, S, f)
  BY IterStep, Zenon
<1> HIDE DEF f
<1>1. /\ f[{}] = 0
      /\ \A t \in SUBSET S : t # {} => f[t] = F[Pick(t)] + f[t \ {Pick(t)}]
  BY <1>0, Zenon DEF Recurs
<1>2. \A t \in SUBSET S : f[t] \in Nat
  <2>1. {} \in Natural
    BY <1>1
  <2>2. \A t \in SUBSET S : t # {} /\ t \ {Pick(t)} \in Natural => t \in Natural
    <3>1. \A t \in SUBSET S : t # {} => Pick(t) \in S
      BY DEF Pick
    <3>2. \A t \in SUBSET S : t # {} => f[t] = F[Pick(t)] + f[t \ {Pick(t)}]
      BY <1>1, Zenon
    <3> QED BY <3>1, <3>2, SMTT(30)
  <2>3. \A t \in SUBSET S : t \in Natural
    <3> HIDE DEF Natural
    <3> QED BY <2>1, <2>2, SubsetInduction, ZenonT(30)
  <2> QED BY <2>3
<1>3. \A t \in SUBSET S : IsFiniteSet(t) /\ Cardinality(t) \in Nat
  BY FinitePart, Zenon
<1>4. \A t \in SUBSET S : \A y \in t : Cardinality(t \ {y}) = Cardinality(t) - 1
  BY <1>3, OneLess, ZenonT(60)
<1>5. Bad = {}
  <2> SUFFICES ASSUME Bad # {} PROVE FALSE
    BY Zenon
  <2>1. PICK k \in Bad : \A j \in Bad : k <= j
    <3>1. Bad \subseteq Nat
      OBVIOUS
    <3> HIDE DEF Bad
    <3> QED BY <3>1, LeastNat, Zenon
  <2>2. PICK t \in SUBSET S : ~Any(t) /\ Cardinality(t) = k
    BY <2>1
  <2>3. PICK y \in t : f[t] # F[y] + f[t \ {y}]
    BY <2>2, ZenonT(60)
  <2> DEFINE p == Pick(t)
             u == t \ {p}
             v == t \ {y}
  <2>4. p \in t /\ f[t] = F[p] + f[u]
    BY <1>1 DEF Pick
  <2>5. p # y
    BY <2>3, <2>4, ZenonT(60)
  <2>6. u \in SUBSET S /\ v \in SUBSET S /\ y \in u /\ p \in v
    BY <2>4, <2>5, ZenonT(30), SMTT(60)
  <2>7. k \in Nat /\ Cardinality(u) = k - 1 /\ Cardinality(v) = k - 1
    BY <1>4, <2>1, <2>2, <2>4
  <2>8. k - 1 \in Nat /\ k - 1 \notin Bad
    <3>1. k - 1 \in Nat
      BY <1>3, <2>6, <2>7
    <3> HIDE DEF Bad
    <3>2. ~(k <= k - 1)
      BY <2>7, SMTT(30)
    <3> QED BY <2>1, <3>1, <3>2, ZenonT(30), SMTT(60)
  <2>9. Any(u) /\ Any(v)
    BY <2>6, <2>7, <2>8, Zenon
  <2>10. f[u] = F[y] + f[u \ {y}] /\ f[v] = F[p] + f[v \ {p}]
    BY <2>6, <2>9, Zenon
  <2>11. u \ {y} = v \ {p}
    BY ZenonT(30), SMTT(60)
  <2>12. F[y] \in Nat /\ F[p] \in Nat /\ f[u \ {y}] \in Nat
    BY <1>2, <2>4
  <2>13. f[t] # F[y] + f[v] /\ f[v] = F[p] + f[u \ {y}]
    BY <2>3, <2>10, <2>11, Zenon
  <2> HIDE DEF p, u, v
  <2> QED BY <2>4, <2>10, <2>12, <2>13
<1>6. \A t \in SUBSET S : Any(t)
  BY <1>3, <1>5, ZenonT(60)
<1>7. AnyFirst(F, S, f)
  BY <1>2, <1>6, ZenonT(60) DEF AnyFirst
<1> QED BY <1>7, Zenon DEF f

(* The terms of one sum are terms of another under other names, and the    *)
(* other terms of that one are zero.                                       *)
LEMMA SumRenamed ==
  ASSUME Basics, NEW S, IsFiniteSet(S), NEW F, \A x \in S : F[x] \in Nat,
         NEW W, IsFiniteSet(W), NEW G, NEW b,
         \A x \in S : b[x] \in W /\ G[b[x]] = F[x],
         \A x, y \in S : b[x] = b[y] => x = y,
         \A w \in W : (\A x \in S : b[x] # w) => G[w] = 0
  PROVE  SumOf(F, S) = SumOf(G, W)
<1>0. IsFiniteSet(S) /\ IsFiniteSet(W)
  OBVIOUS
<1> DEFINE f == Iter(F, S)
           g == Iter(G, W)
           Named(t) == {x \in S : b[x] \in t}
           Good == {t \in SUBSET W : g[t] = f[Named(t)]}
<1>a. Recurs(G, W, g) /\ Recurs(F, S, f)
  BY ONLY Basics, <1>0, IterStep, Zenon
<1>b. AnyFirst(F, S, f)
  BY IterAny, Zenon
<1> HIDE DEF f, g
<1>1. /\ g[{}] = 0
      /\ \A t \in SUBSET W : t # {} => g[t] = G[Pick(t)] + g[t \ {Pick(t)}]
  BY <1>a, Zenon DEF Recurs
<1>2. f[{}] = 0
  BY <1>a, Zenon DEF Recurs
<1>3. \A t \in SUBSET S : f[t] \in Nat /\ \A y \in t : f[t] = F[y] + f[t \ {y}]
  BY <1>b, Zenon DEF AnyFirst
<1>4. {} \in Good
  <2>1. Named({}) = {}
    BY Zenon
  <2>2. g[{}] = f[Named({})]
    BY <1>1, <1>2, <2>1, Zenon
  <2> QED BY <2>2, Zenon
<1>5. \A t \in SUBSET W : t # {} /\ t \ {Pick(t)} \in Good => t \in Good
  <2> SUFFICES ASSUME NEW t \in SUBSET W, t # {}, t \ {Pick(t)} \in Good
               PROVE  g[t] = f[Named(t)]
    BY Zenon
  <2> DEFINE w == Pick(t)
             u == t \ {w}
  <2>1. w \in t /\ w \in W
    BY ZenonT(30), SMTT(60) DEF Pick
  <2>2. g[t] = G[w] + g[u]
    BY <1>1, ZenonT(30), SMTT(60)
  <2>3. g[u] = f[Named(u)]
    BY ZenonT(30), SMTT(60)
  <2>4. CASE \A x \in S : b[x] # w
    <3>1. Named(t) = Named(u)
      BY <2>4, ZenonT(30), SMTT(60)
    <3>2. G[w] = 0
      BY <2>1, <2>4, ZenonT(30), SMTT(60)
    <3>3. f[Named(u)] \in Nat
      BY <1>3, ZenonT(30), SMTT(60)
    <3> HIDE DEF w, u, Named
    <3> QED BY <2>2, <2>3, <3>1, <3>2, <3>3, SMTT(60)
  <2>5. ASSUME NEW x \in S, b[x] = w PROVE g[t] = f[Named(t)]
    <3>1. x \in Named(t) /\ Named(t) \in SUBSET S
      BY <2>1, <2>5, ZenonT(30), SMTT(60)
    <3>2. Named(u) = Named(t) \ {x}
      BY <2>5, SMTT(30)
    <3>3. f[Named(t)] = F[x] + f[Named(t) \ {x}]
      BY <1>3, <3>1, ZenonT(60)
    <3>4. G[w] = F[x]
      BY <2>5, ZenonT(30), SMTT(60)
    <3> HIDE DEF w, u, Named
    <3> QED BY <2>2, <2>3, <3>2, <3>3, <3>4, ZenonT(30), SMTT(60)
  <2> QED BY <2>4, <2>5, Zenon
<1>6. \A t \in SUBSET W : t \in Good
  <2> HIDE DEF Good
  <2> QED BY <1>4, <1>5, SubsetInduction, ZenonT(60)
<1>7. Named(W) = S
  OBVIOUS
<1> QED BY <1>6, <1>7, SumIs DEF f, g

-----------------------------------------------------------------------------
(* Brutal.                                                                 *)

(* The ring and the history agree: a slot holds what was reported in its   *)
(* second, and what was reported in a second is in its slot unless a later *)
(* second took the slot.                                                   *)
Infos == [timestamp : Int, acks : Nat, losses : Nat]
Quiet(n) == n.acks = 0 /\ n.losses = 0

Agree(now, ring, past) ==
  /\ now \in 0 .. MaxSeconds
  /\ ring \in [SlotSet -> Infos]
  /\ past \in [0 .. MaxSeconds -> Infos]
  /\ \A i \in SlotSet : LET t == ring[i].timestamp IN
       \/ t = Never
       \/ /\ t \in 0 .. now /\ t % SampleSlots = i
          /\ past[t].acks = ring[i].acks /\ past[t].losses = ring[i].losses
  /\ \A s \in 0 .. MaxSeconds :
       \/ Quiet(past[s])
       \/ s <= now /\ s <= ring[s % SampleSlots].timestamp

RingInv == Agree(second, slots, history)

LEMMA SlotFacts ==
  ASSUME NEW s \in Nat
  PROVE  s % SampleSlots \in SlotSet
BY BrutalAssumption DEF SlotSet

(* Seconds that share a slot are a turn of the ring apart. *)
LEMMA SlotApart ==
  ASSUME NEW s \in Nat, NEW t \in Nat, s % SampleSlots = t % SampleSlots, s < t
  PROVE  s + SampleSlots <= t
<1> DEFINE n == SampleSlots
           p == s \div n
           q == t \div n
           r == s % n
<1>1. n \in Nat \ {0}
  BY BrutalAssumption
<1>2. \A x \in Nat : x % n \in 0 .. n - 1 /\ x \div n \in Nat /\ x = n * (x \div n) + (x % n)
  BY <1>1
<1>3. p \in Nat /\ q \in Nat /\ r \in Nat /\ s = n * p + r /\ t = n * q + r
  BY <1>2
<1> HIDE DEF n, p, q, r
<1>4. p < q
  <2> SUFFICES ASSUME q <= p PROVE FALSE
    BY <1>3
  <2>1. n * q <= n * p
    BY <1>1, <1>3
  <2> QED BY <1>1, <1>3, <2>1
<1>5. n * q >= n * (p + 1) /\ n * (p + 1) = n * p + n
  BY <1>1, <1>3, <1>4
<1> QED BY <1>1, <1>3, <1>5 DEF n

LEMMA SlotTurn ==
  ASSUME NEW t \in Nat
  PROVE  (t + SampleSlots) % SampleSlots = t % SampleSlots
<1> DEFINE n == SampleSlots
           p == t \div n
           q == (t + n) \div n
           r == t % n
           k == (t + n) % n
<1>1. n \in Nat \ {0} /\ t + n \in Nat
  BY BrutalAssumption
<1>2. \A x \in Nat : x % n \in 0 .. n - 1 /\ x \div n \in Nat /\ x = n * (x \div n) + (x % n)
  BY <1>1
<1>3. /\ p \in Nat /\ q \in Nat /\ r \in Nat /\ k \in Nat /\ r < n /\ k < n
      /\ t = n * p + r /\ t + n = n * q + k
  <2>1. r \in 0 .. n - 1 /\ p \in Nat /\ t = n * p + r
    BY <1>2
  <2>2. k \in 0 .. n - 1 /\ q \in Nat /\ t + n = n * q + k
    BY <1>1, <1>2, ZenonT(30)
  <2> HIDE DEF n, p, q, r, k
  <2> QED BY <1>1, <2>1, <2>2
<1> HIDE DEF n, p, q, r, k
<1>4. n * q + k = n * p + n + r
  BY <1>1, <1>3
<1>5. q = p + 1
  <2>1. CASE q < p + 1
    <3>1. n * p >= n * q
      BY <1>1, <1>3, <2>1
    <3> QED BY <1>1, <1>3, <1>4, <3>1
  <2>2. CASE q > p + 1
    <3>1. n * q >= n * (p + 2) /\ n * (p + 2) = n * p + n + n
      BY <1>1, <1>3, <2>2
    <3> QED BY <1>1, <1>3, <1>4, <3>1
  <2> QED BY <1>3, <2>1, <2>2
<1>6. n * q = n * p + n
  BY <1>1, <1>3, <1>5
<1>7. k = r
  BY <1>1, <1>3, <1>4, <1>6
<1> QED BY <1>7 DEF k, r, n

LEMMA RecordKeepsRing ==
  ASSUME RingInv, NEW a \in Nat, NEW l \in Nat, Record(a, l), second' = second
  PROVE  RingInv'
<1> DEFINE i == second % SampleSlots
           old == IF slots[i].timestamp = second THEN slots[i] ELSE Info(second, 0, 0)
<1>1. second \in Nat /\ i \in SlotSet
  <2>1. second \in Nat
    BY BrutalAssumption DEF RingInv, Agree
  <2> QED BY <2>1, SlotFacts
<1>2. /\ slots' = [slots EXCEPT ![i] = Info(second, old.acks + a, old.losses + l)]
      /\ history' = [history EXCEPT ![second] = Info(second, @.acks + a, @.losses + l)]
  BY ZenonT(30) DEF Record
<1>3. old.acks = history[second].acks /\ old.losses = history[second].losses
  <2>1. CASE slots[i].timestamp = second
    BY <1>1, <2>1, SMTT(60) DEF RingInv, Agree, Never
  <2>2. CASE slots[i].timestamp # second
    <3>1. slots[i].timestamp = Never \/ slots[i].timestamp \in 0 .. second
      BY <1>1 DEF RingInv, Agree
    <3>2. ~(second <= slots[i].timestamp)
      BY <1>1, <2>2, <3>1, SMTT(60) DEF Never
    <3>3. Quiet(history[second])
      BY <1>1, <3>2, ZenonT(30), SMTT(60) DEF RingInv, Agree
    <3> QED BY <2>2, <3>3, ZenonT(30), SMTT(60) DEF Quiet, Info
  <2> QED BY <2>1, <2>2, ZenonT(60)
<1>4. history[second] \in Infos /\ slots[i] \in Infos
  BY <1>1 DEF RingInv, Agree
<1>5. slots'[i] = Info(second, history[second].acks + a, history[second].losses + l)
  BY <1>1, <1>2, <1>3, Zenon DEF RingInv, Agree
<1>6. history'[second] = slots'[i]
  BY <1>2, <1>5, ZenonT(60) DEF RingInv, Agree
<1>7. slots'[i] \in Infos /\ slots'[i].timestamp = second
  BY <1>1, <1>4, <1>5 DEF Info, Infos
<1>8. /\ \A j \in SlotSet : j # i => slots'[j] = slots[j]
      /\ \A s \in 0 .. MaxSeconds : s # second => history'[s] = history[s]
  BY <1>2, ZenonT(60) DEF RingInv, Agree
<1> HIDE DEF i, old
<1>9. slots' \in [SlotSet -> Infos] /\ history' \in [0 .. MaxSeconds -> Infos]
  BY <1>1, <1>2, <1>5, <1>6, <1>7, <1>8, ZenonT(30), SMTT(60) DEF RingInv, Agree
<1>10. ASSUME NEW j \in SlotSet
       PROVE  LET t == slots'[j].timestamp IN
              \/ t = Never
              \/ /\ t \in 0 .. second /\ t % SampleSlots = j
                 /\ history'[t].acks = slots'[j].acks /\ history'[t].losses = slots'[j].losses
  <2>1. CASE j = i
    BY <1>1, <1>6, <1>7, <2>1, SMTT(30) DEF i
  <2>2. CASE j # i
    <3>1. CASE slots[j].timestamp = Never
      BY <1>8, <2>2, <3>1, ZenonT(30), SMTT(60)
    <3>2. CASE slots[j].timestamp # Never
      <4>1. /\ slots[j].timestamp \in 0 .. second /\ slots[j].timestamp % SampleSlots = j
            /\ history[slots[j].timestamp].acks = slots[j].acks
            /\ history[slots[j].timestamp].losses = slots[j].losses
        BY <3>2, ZenonT(30), SMTT(60) DEF RingInv, Agree
      <4>2. slots[j].timestamp # second
        BY <2>2, <4>1, ZenonT(30), SMTT(60) DEF i
      <4>3. slots[j].timestamp \in 0 .. MaxSeconds
        BY <4>1, <1>1, BrutalAssumption, SMTT(30) DEF RingInv, Agree
      <4> QED BY <1>8, <2>2, <4>1, <4>2, <4>3, ZenonT(60)
    <3> QED BY <3>1, <3>2, ZenonT(60)
  <2> QED BY <2>1, <2>2, ZenonT(60)
<1>11. ASSUME NEW s \in 0 .. MaxSeconds
       PROVE  \/ Quiet(history'[s])
              \/ s <= second /\ s <= slots'[s % SampleSlots].timestamp
  <2>1. CASE s = second
    BY <1>1, <1>7, <2>1, SMTT(60) DEF i
  <2>2. CASE s # second
    <3>1. Quiet(history[s]) \/ (s <= second /\ s <= slots[s % SampleSlots].timestamp)
      BY DEF RingInv, Agree
    <3>2. s % SampleSlots \in SlotSet
      <4>1. s \in Nat
        BY ONLY BrutalAssumption, s \in 0 .. MaxSeconds, SMTT(60)
      <4> QED BY <4>1, SlotFacts, Zenon
    <3>3. CASE s % SampleSlots = i
      BY <1>1, <1>7, <1>8, <2>2, <3>1, <3>3, ZenonT(30), SMTT(60)
    <3>4. CASE s % SampleSlots # i
      BY <1>8, <2>2, <3>1, <3>2, <3>4, ZenonT(30), SMTT(60)
    <3> QED BY <3>3, <3>4, ZenonT(30), SMTT(60)
  <2> QED BY <2>1, <2>2, ZenonT(60)
<1>12. second' \in 0 .. MaxSeconds
  BY DEF RingInv, Agree
<1> QED BY <1>9, <1>10, <1>11, <1>12, Zenon DEF RingInv, Agree

(* The slots UpdateAckRate counts are the seconds of the window in which   *)
(* anything was reported.                                                  *)
Recent(now, ring) == {i \in SlotSet : /\ ring[i].timestamp # Never
                                      /\ ring[i].timestamp >= now - SampleSlots}
Window(now, past) == {s \in DOMAIN past : s <= now /\ s > now - SampleSlots}
RecentAcks(now, ring) == SumOf([i \in SlotSet |-> ring[i].acks], Recent(now, ring))
RecentLosses(now, ring) == SumOf([i \in SlotSet |-> ring[i].losses], Recent(now, ring))
WindowAcks(now, past) == SumOf([s \in DOMAIN past |-> past[s].acks], Window(now, past))
WindowLosses(now, past) == SumOf([s \in DOMAIN past |-> past[s].losses], Window(now, past))

LEMMA RecentIsWindow ==
  ASSUME Basics, NEW now, NEW ring, NEW past, Agree(now, ring, past),
         ring[now % SampleSlots].timestamp = now
  PROVE  /\ RecentAcks(now, ring) = WindowAcks(now, past)
         /\ RecentLosses(now, ring) = WindowLosses(now, past)
<1> DEFINE recent == Recent(now, ring)
           window == Window(now, past)
<1> USE DEF Recent, Window
<1> DEFINE b == [i \in SlotSet |-> ring[i].timestamp]
<1>1. now \in Nat /\ SampleSlots \in Nat \ {0} /\ MaxSeconds \in Nat
  BY BrutalAssumption, SMTT(30) DEF Agree
<1>2. IsFiniteSet(recent) /\ IsFiniteSet(window)
  <2>1. IsFiniteSet(SlotSet) /\ IsFiniteSet(0 .. MaxSeconds)
    <3>1. SlotSet = 0..(SampleSlots - 1) /\ SampleSlots - 1 \in Nat
      BY <1>1, SMTT(60) DEF SlotSet
    <3> QED BY <1>1, <3>1, ZenonT(60) DEF Basics
  <2>2. recent \subseteq SlotSet /\ window \subseteq 0 .. MaxSeconds
    BY ZenonT(30), SMTT(60) DEF Agree
  <2> QED BY <2>1, <2>2, FinitePart, Zenon
<1>3. ASSUME NEW i \in recent
      PROVE  /\ i \in SlotSet /\ b[i] = ring[i].timestamp
             /\ b[i] \in Nat /\ b[i] % SampleSlots = i
             /\ past[b[i]].acks = ring[i].acks /\ past[b[i]].losses = ring[i].losses
             /\ ring[i].acks \in Nat /\ ring[i].losses \in Nat
             /\ b[i] \in window
  <2>1. /\ i \in SlotSet /\ ring[i].timestamp # Never
        /\ ring[i].timestamp >= now - SampleSlots
    BY ZenonT(30), SMTT(60)
  <2> DEFINE t == ring[i].timestamp
  <2>2. /\ t \in 0 .. now /\ t % SampleSlots = i
        /\ past[t].acks = ring[i].acks /\ past[t].losses = ring[i].losses
    BY <2>1, ZenonT(30), SMTT(60) DEF Agree
  <2>3. ring[i].acks \in Nat /\ ring[i].losses \in Nat
    BY <2>1, ZenonT(30), SMTT(60) DEF Agree, Infos
  <2>4. t \in Nat
    BY <2>2, <1>1, SMTT(60)
  <2>5. t # now - SampleSlots
    <3> SUFFICES ASSUME t = now - SampleSlots PROVE FALSE
      BY ZenonT(30), SMTT(60)
    <3>1. (t + SampleSlots) % SampleSlots = t % SampleSlots
      BY <2>4, SlotTurn, ZenonT(30), SMTT(60)
    <3>2. t + SampleSlots = now
      BY <1>1, SMTT(60)
    <3>3. ring[i].timestamp = now
      BY <2>2, <3>1, <3>2, ZenonT(30), SMTT(60)
    <3> QED BY <1>1, <3>3, SMTT(60)
  <2>6. t \in window
    <3>1. now \in 0 .. MaxSeconds /\ DOMAIN past = 0 .. MaxSeconds
      BY Zenon DEF Agree
    <3> HIDE DEF t
    <3>2. t <= now /\ t \in 0 .. MaxSeconds
      BY ONLY <1>1, <2>2, <3>1
    <3>3. t > now - SampleSlots
      <4>1. t >= now - SampleSlots
        BY <2>1, Zenon DEF t
      <4> QED BY ONLY <1>1, <2>4, <2>5, <4>1
    <3> QED BY <3>1, <3>2, <3>3, Zenon
  <2> QED BY <2>1, <2>2, <2>3, <2>4, <2>6, ZenonT(60)
<1>4. ASSUME NEW s \in window, \A i \in recent : b[i] # s
      PROVE  Quiet(past[s])
  <2>1. s \in 0 .. MaxSeconds /\ s \in Nat /\ s <= now /\ now < s + SampleSlots
    BY <1>1, SMTT(60) DEF Agree
  <2> SUFFICES ASSUME ~Quiet(past[s]) PROVE FALSE
    OBVIOUS
  <2> DEFINE i == s % SampleSlots
             t == ring[i].timestamp
  <2>2. i \in SlotSet
    BY <2>1, SlotFacts, ZenonT(30), SMTT(60)
  <2>3. s <= t
    BY <2>1, ZenonT(30), SMTT(60) DEF Agree
  <2>4. t # Never
    BY <2>1, <2>3, SMTT(30) DEF Never
  <2>5. t \in 0 .. now /\ t % SampleSlots = i
    BY <2>2, <2>4, ZenonT(30) DEF Agree
  <2>6. t = s
    <3>1. t \in Nat /\ t <= now
      BY <1>1, <2>5
    <3> HIDE DEF t
    <3>2. ASSUME s < t PROVE s + SampleSlots <= t
      BY <2>1, <2>5, <3>1, <3>2, SlotApart, ZenonT(60)
    <3>3. s < t => s + SampleSlots <= t
      BY <3>2
    <3> QED BY ONLY <1>1, <2>1, <2>3, <3>1, <3>3, SMTT(60)
  <2>7. i \in recent
    <3>1. s >= now - SampleSlots
      BY ONLY <1>1, <2>1
    <3> QED BY <2>2, <2>4, <2>6, <3>1, Zenon
  <2>8. b[i] = s
    BY <2>2, <2>6, ZenonT(60)
  <2> HIDE DEF b, i
  <2> QED BY <1>4, <2>7, <2>8, ZenonT(60)
<1>5. \A i, j \in recent : b[i] = b[j] => i = j
  BY <1>3
<1>6. DOMAIN past = 0 .. MaxSeconds /\ window \subseteq DOMAIN past
  BY DEF Agree
<1> HIDE DEF b, recent, window, Recent, Window
<1>7. SumOf([i \in SlotSet |-> ring[i].acks], recent)
        = SumOf([s \in DOMAIN past |-> past[s].acks], window)
  <2> DEFINE F == [i \in SlotSet |-> ring[i].acks]
             G == [s \in DOMAIN past |-> past[s].acks]
  <2>1. \A i \in recent : F[i] \in Nat /\ b[i] \in window /\ G[b[i]] = F[i]
    BY <1>3, <1>6, ZenonT(30), SMTT(60)
  <2>2. \A s \in window : (\A i \in recent : b[i] # s) => G[s] = 0
    BY <1>4, <1>6, ZenonT(60) DEF Quiet
  <2> HIDE DEF F, G
  <2>3. SumOf(F, recent) = SumOf(G, window)
    BY ONLY Basics, <1>2, <1>5, <2>1, <2>2, SumRenamed, SMTT(30)
  <2> QED BY <2>3, ZenonT(60) DEF F, G
<1>8. SumOf([i \in SlotSet |-> ring[i].losses], recent)
        = SumOf([s \in DOMAIN past |-> past[s].losses], window)
  <2> DEFINE F == [i \in SlotSet |-> ring[i].losses]
             G == [s \in DOMAIN past |-> past[s].losses]
  <2>1. \A i \in recent : F[i] \in Nat /\ b[i] \in window /\ G[b[i]] = F[i]
    BY <1>3, <1>6, ZenonT(60)
  <2>2. \A s \in window : (\A i \in recent : b[i] # s) => G[s] = 0
    BY <1>4, <1>6, ZenonT(30), SMTT(60) DEF Quiet
  <2> HIDE DEF F, G
  <2>3. SumOf(F, recent) = SumOf(G, window)
    BY ONLY Basics, <1>2, <1>5, <2>1, <2>2, SumRenamed, SMTT(30)
  <2> QED BY <2>3, Zenon DEF F, G
<1> QED BY <1>7, <1>8, Zenon DEF RecentAcks, RecentLosses, WindowAcks, WindowLosses, recent, window

LEMMA RecordKeepsRate ==
  ASSUME Basics, RingInv, NEW a \in Nat, NEW l \in Nat, Record(a, l),
         second' = second, compensate' = compensate
  PROVE  AckRateRecent'
<1>1. RingInv'
  BY RecordKeepsRing
<1>2. second \in Nat /\ second % SampleSlots \in SlotSet
  <2>1. second \in Nat
    BY BrutalAssumption, SMTT(30) DEF RingInv, Agree
  <2> QED BY <2>1, SlotFacts, ZenonT(30), SMTT(60)
<1>3. slots'[second % SampleSlots].timestamp = second
  BY <1>2, Zenon DEF Record, RingInv, Agree, Info
<1>4. ackRate' = UpdateAckRate(slots', second) /\ updated' = second
  BY Zenon DEF Record
<1>5. ackRate' = RateFor(RecentAcks(second, slots'), RecentLosses(second, slots'))
  BY <1>4, Zenon DEF UpdateAckRate, RecentAcks, RecentLosses, Recent
<1>6. /\ RecentAcks(second, slots') = WindowAcks(second, history')
      /\ RecentLosses(second, slots') = WindowLosses(second, history')
  BY <1>1, <1>3, RecentIsWindow, ZenonT(60) DEF RingInv
<1>7. ackRate' = RateFor(WindowAcks(second, history'), WindowLosses(second, history'))
  BY <1>5, <1>6
<1> QED BY <1>4, <1>7, Zenon DEF AckRateRecent, RateFor, WindowAcks, WindowLosses, Window

(* The invariant of the sampler: its ring and the rate drawn from it. *)
WindowInv == RingInv /\ AckRateRecent

(* The sampler starts with empty slots and no rate. *)
LEMMA BrutalStart == BrutalInit => WindowInv
<1> SUFFICES ASSUME BrutalInit PROVE RingInv /\ AckRateRecent
  BY ZenonT(60) DEF WindowInv
<1>1. RingInv
  BY BrutalAssumption, SMTT(60) DEF BrutalInit, RingInv, Agree, Infos, Info, Quiet, Never
<1>2. AckRateRecent
  BY DEF BrutalInit, AckRateRecent
<1> QED BY <1>1, <1>2

(* Every step of the sampler keeps the ring and the rate. *)
LEMMA BrutalStep ==
  ASSUME Basics
  PROVE  WindowInv /\ [BrutalNext]_brutalVars => WindowInv'
<1> SUFFICES ASSUME RingInv, AckRateRecent, [BrutalNext]_brutalVars
             PROVE  RingInv' /\ AckRateRecent'
  BY Zenon DEF WindowInv
<1>1. CASE OnAck
  <2>1. Record(1, 0) /\ second' = second /\ compensate' = compensate
    BY <1>1 DEF OnAck
  <2> QED BY <2>1, RecordKeepsRing, RecordKeepsRate
<1>2. CASE OnCongestionEvent
  <2>1. Record(0, 1) /\ second' = second /\ compensate' = compensate
    BY <1>2, ZenonT(30), SMTT(60) DEF OnCongestionEvent
  <2> QED BY <2>1, RecordKeepsRing, RecordKeepsRate
<1>3. CASE UNCHANGED <<compensate, second, slots, ackRate, updated, history>>
  BY <1>3, Zenon DEF RingInv, AckRateRecent, RateFor
<1>4. CASE Tick
  <2>1. second' \in 0 .. MaxSeconds /\ second < second' /\ second \in Nat
    BY <1>4, BrutalAssumption DEF Tick, RingInv, Agree
  <2>2. UNCHANGED <<compensate, slots, ackRate, updated, history>>
    BY <1>4, ZenonT(60) DEF Tick
  <2>3. RingInv'
    BY <2>1, <2>2, BrutalAssumption, SMTT(30) DEF RingInv, Agree
  <2>4. AckRateRecent'
    BY <2>2, ZenonT(60) DEF AckRateRecent, RateFor
  <2> QED BY <2>3, <2>4, ZenonT(30), SMTT(60)
<1> QED BY <1>1, <1>2, <1>3, <1>4 DEF BrutalNext, StoreBandwidth, Enable, brutalVars

-----------------------------------------------------------------------------
(* Accounting.                                                             *)

(* The types that the relay keeps, as far as the counting needs them.      *)
Pipes == [sent : Nat, fin : BOOLEAN, read : Nat, held : SUBSET Nat, out : Seq(Nat), done : BOOLEAN]

PipeTypes == putback \in [Streams -> Seq(Nat)] /\ pipe \in [Streams -> [Directions -> Pipes]]

LEMMA InitPipes == ServerInit => PipeTypes
<1>1. EmptyPipe \in Pipes /\ <<>> \in Seq(Nat)
  BY DEF EmptyPipe, Pipes
<1> QED BY <1>1, SMTT(60) DEF ServerInit, TcpInit, PipeTypes

LEMMA PipeStep ==
  ASSUME PipeTypes, UNCHANGED putback, NEW s \in Streams, NEW d \in Directions, NEW q \in Pipes,
         pipe' = [pipe EXCEPT ![s][d] = q]
  PROVE  PipeTypes'
BY ZenonT(30) DEF PipeTypes

(* What the steps of a direction write is a pipe. *)
LEMMA PipesClosed ==
  ASSUME NEW p \in Pipes
  PROVE  /\ [p EXCEPT !.sent = @ + 1] \in Pipes /\ [p EXCEPT !.fin = TRUE] \in Pipes
         /\ [p EXCEPT !.read = @ + 1] \in Pipes /\ [p EXCEPT !.done = TRUE] \in Pipes
         /\ [p EXCEPT !.read = @ + 1, !.held = {p.read + 1}] \in Pipes
         /\ \A k \in p.held : [p EXCEPT !.held = {}, !.out = Append(@, k)] \in Pipes
         /\ \A seq \in Seq(Nat) : [p EXCEPT !.out = seq] \in Pipes
         /\ p.read + 1 \in Nat
<1>1. /\ p.sent + 1 \in Nat /\ p.read + 1 \in Nat /\ {p.read + 1} \in SUBSET Nat
      /\ \A k \in p.held : Append(p.out, k) \in Seq(Nat)
  BY DEF Pipes
<1> QED BY <1>1, ZenonT(30) DEF Pipes

(* What the writing of one direction leaves alone. *)
LEMMA PipeWritten ==
  ASSUME PipeTypes, NEW s \in Streams, NEW d \in Directions, NEW q,
         pipe' = [pipe EXCEPT ![s][d] = q]
  PROVE  /\ pipe'[s][d] = q /\ \A e \in Directions \ {d} : pipe'[s][e] = pipe[s][e]
         /\ \A t \in Streams \ {s} : pipe'[t] = pipe[t]
BY ZenonT(30) DEF PipeTypes

LEMMA NextPipes == PipeTypes /\ [ProxyNext]_proxyVars => PipeTypes'
<1> SUFFICES ASSUME PipeTypes, [ProxyNext]_proxyVars PROVE PipeTypes'
  OBVIOUS
<1>1. ASSUME NEW s \in Streams, NEW d \in Directions
      PROVE  pipe[s][d] \in Pipes
  BY DEF PipeTypes
<1>2. ASSUME NEW s \in Streams, NEW d \in Directions, Send(s, d)
      PROVE  PipeTypes'
  <2>1. PICK q \in {[pipe[s][d] EXCEPT !.sent = @ + 1], [pipe[s][d] EXCEPT !.fin = TRUE]} :
          pipe' = [pipe EXCEPT ![s][d] = q]
    BY <1>2, Zenon DEF Send, PipeTypes
  <2>2. q \in Pipes
    BY <1>1, PipesClosed, ZenonT(60)
  <2> QED BY <1>2, <2>1, <2>2, PipeStep, Zenon DEF Send
<1>3. ASSUME NEW s \in Streams, Hook(s)
      PROVE  PipeTypes'
  <2> DEFINE p == pipe[s]["up"]
  <2>1. p \in Pipes /\ "up" \in Directions
    BY <1>1 DEF Directions
  <2>2. CASE UNCHANGED <<putback, pipe>>
    BY <2>2 DEF PipeTypes
  <2>3. CASE putback' = [putback EXCEPT ![s] = Append(@, p.read + 1)]
             /\ pipe' = [pipe EXCEPT ![s]["up"].read = @ + 1]
    <3>1. putback' \in [Streams -> Seq(Nat)]
      <4>1. p.read + 1 \in Nat /\ putback[s] \in Seq(Nat)
        BY <2>1, PipesClosed, ZenonT(30) DEF PipeTypes
      <4>2. Append(putback[s], p.read + 1) \in Seq(Nat)
        BY <4>1
      <4> QED BY <2>3, <4>2, Zenon DEF PipeTypes
    <3>2. [p EXCEPT !.read = @ + 1] \in Pipes
      BY <2>1, PipesClosed, Zenon
    <3>3. pipe' = [pipe EXCEPT ![s]["up"] = [p EXCEPT !.read = @ + 1]]
      BY <2>3
    <3> QED BY <2>1, <3>1, <3>2, <3>3 DEF PipeTypes
  <2> QED BY <1>3, <2>2, <2>3, Zenon DEF Hook
<1>4. ASSUME NEW s \in Streams, WritePrefix(s)
      PROVE  PipeTypes'
  <2>1. UNCHANGED putback /\ "up" \in Directions
    BY <1>4, Zenon DEF WritePrefix, Directions
  <2>2. CASE UNCHANGED pipe
    BY <2>1, <2>2 DEF PipeTypes
  <2>3. CASE pipe' = [pipe EXCEPT ![s]["up"].out = putback[s]]
    <3>1. [pipe[s]["up"] EXCEPT !.out = putback[s]] \in Pipes
      BY <1>1, <2>1, PipesClosed, Zenon DEF PipeTypes
    <3>2. pipe' = [pipe EXCEPT ![s]["up"] = [pipe[s]["up"] EXCEPT !.out = putback[s]]]
      BY <2>3
    <3> QED BY <2>1, <3>1, <3>2, PipeStep, Zenon
  <2> QED BY <1>4, <2>2, <2>3, Zenon DEF WritePrefix
<1>5. ASSUME NEW s \in Streams, NEW d \in Directions, CopyRead(s, d) \/ CopyWrite(s, d) \/ CopyEnd(s, d)
      PROVE  PipeTypes'
  <2> DEFINE p == pipe[s][d]
  <2>1. UNCHANGED putback /\ p \in Pipes
    BY <1>1, <1>5, ZenonT(60) DEF CopyRead, CopyWrite, CopyEnd
  <2>2. CASE UNCHANGED pipe
    BY <2>1, <2>2 DEF PipeTypes
  <2>3. CASE pipe' = [pipe EXCEPT ![s][d].read = @ + 1, ![s][d].held = {pipe[s][d].read + 1}]
    <3>1. [p EXCEPT !.read = @ + 1, !.held = {p.read + 1}] \in Pipes
      BY <2>1, PipesClosed, Zenon
    <3>2. pipe' = [pipe EXCEPT ![s][d] = [p EXCEPT !.read = @ + 1, !.held = {p.read + 1}]]
      BY <2>3, ZenonT(30) DEF PipeTypes
    <3> QED BY <2>1, <3>1, <3>2, PipeStep, Zenon
  <2>4. ASSUME NEW k \in p.held, pipe' = [pipe EXCEPT ![s][d].held = {}, ![s][d].out = Append(@, k)]
        PROVE  PipeTypes'
    <3>1. [p EXCEPT !.held = {}, !.out = Append(@, k)] \in Pipes
      BY <2>1, PipesClosed, Zenon
    <3>2. pipe' = [pipe EXCEPT ![s][d] = [p EXCEPT !.held = {}, !.out = Append(@, k)]]
      BY <2>4, ZenonT(30) DEF PipeTypes
    <3> QED BY <2>1, <3>1, <3>2, PipeStep, Zenon
  <2>5. CASE pipe' = [pipe EXCEPT ![s][d].done = TRUE]
    <3>1. [p EXCEPT !.done = TRUE] \in Pipes
      BY <2>1, PipesClosed, Zenon
    <3>2. pipe' = [pipe EXCEPT ![s][d] = [p EXCEPT !.done = TRUE]]
      BY <2>5
    <3> QED BY <2>1, <3>1, <3>2, PipeStep, ZenonT(60)
  <2> QED BY <1>5, <2>2, <2>3, <2>4, <2>5, ZenonT(60) DEF CopyRead, CopyWrite, CopyEnd
<1>6. CASE UNCHANGED <<putback, pipe>>
  BY <1>6 DEF PipeTypes
<1>7. ASSUME NEW s \in Streams,
             Open(s) \/ ReadResponse(s) \/ EarlyFailure(s) \/ TargetFails(s) \/ ReadRequest(s)
               \/ Dial(s) \/ Reply(s) \/ LinkNoticed(s)
      PROVE  UNCHANGED <<putback, pipe>>
  BY <1>7, Zenon DEF Open, ReadResponse, EarlyFailure, TargetFails, ReadRequest, Dial, Reply, LinkNoticed
<1>8. CASE \/ ConnectionStep \/ OnlineStep \/ ClearTraffic \/ UNCHANGED proxyVars
           \/ (\E u \in Users : Kick(u)) \/ (\E c \in Conns : UdpTraffic(c))
  BY <1>6, <1>8, Zenon DEF ConnectionStep, OnlineStep, ClearTraffic, Kick, UdpTraffic, proxyVars, tcpVars
<1>9. ASSUME NEW s \in Streams, StreamTask(s)
      PROVE  PipeTypes'
  BY <1>3, <1>4, <1>5, <1>6, <1>7, <1>9, ZenonT(60) DEF StreamTask
<1> QED BY <1>2, <1>6, <1>7, <1>8, <1>9, ZenonT(60) DEF ProxyNext

(* What was accounted for a stream: what it delivered and what it holds.   *)
Share(p) == Len(p.out) + (IF p.held = {} THEN 0 ELSE 1)
Amount(ps) == Share(ps["up"]) + Share(ps["down"])
Accounted == [s \in Streams |-> Amount(pipe[s])]

StreamsOf(u) == {s \in Streams : User(s) = u}

(* A chunk is accounted for before it is held, and held before it is out.  *)
CountInv ==
  /\ counted \in [Users -> Nat] /\ reported \in [Users -> Nat]
  /\ \A u \in Users : SumOf(Accounted, StreamsOf(u)) <= counted[u] + reported[u]

LEMMA ShareIs ==
  ASSUME NEW p
  PROVE  /\ p.held = {} => Share(p) = Len(p.out) + 0
         /\ p.held # {} => Share(p) = Len(p.out) + 1
BY Zenon DEF Share

LEMMA ShareNat ==
  ASSUME NEW p \in Pipes
  PROVE  Share(p) \in Nat /\ Len(p.out) \in Nat /\ Len(p.out) <= Share(p)
<1>1. Len(p.out) \in Nat
  BY DEF Pipes
<1>2. CASE p.held = {}
  BY <1>1, <1>2, ShareIs
<1>3. CASE p.held # {}
  BY <1>1, <1>3, ShareIs, SMTT(60)
<1> QED BY <1>1, <1>2, <1>3

LEMMA ShareType ==
  ASSUME PipeTypes, NEW s \in Streams, NEW d \in Directions
  PROVE  /\ Share(pipe[s][d]) \in Nat /\ Len(pipe[s][d].out) \in Nat
         /\ Len(pipe[s][d].out) <= Share(pipe[s][d])
<1>1. pipe[s][d] \in Pipes
  BY DEF PipeTypes
<1> QED BY <1>1, ShareNat

LEMMA AmountChange ==
  ASSUME NEW ps, NEW qs, NEW d \in Directions, NEW n \in Nat,
         \A e \in Directions : Share(ps[e]) \in Nat,
         Share(qs[d]) = Share(ps[d]) + n,
         \A e \in Directions \ {d} : qs[e] = ps[e]
  PROVE  Amount(qs) = Amount(ps) + n
<1>1. CASE d = "up"
  BY <1>1, SMTT(60) DEF Amount, Directions
<1>2. CASE d = "down"
  BY <1>2 DEF Amount, Directions
<1> QED BY <1>1, <1>2, ZenonT(60) DEF Directions

LEMMA AccountedType ==
  ASSUME PipeTypes
  PROVE  \A s \in Streams : Accounted[s] = Amount(pipe[s]) /\ Amount(pipe[s]) \in Nat
<1>1. \A s \in Streams : Amount(pipe[s]) \in Nat
  BY ShareType DEF Amount, Directions
<1> QED BY <1>1, ZenonT(30), SMTT(60) DEF Accounted

LEMMA FiniteStreams ==
  ASSUME Basics
  PROVE  \A u \in Users : IsFiniteSet(StreamsOf(u))
<1>1. \A u \in Users : StreamsOf(u) \subseteq Streams
  BY ZenonT(30) DEF StreamsOf
<1>2. IsFiniteSet(Streams)
  BY ProxyAssumption, Zenon
<1> QED BY <1>1, <1>2, FinitePart, Zenon

LEMMA SumOfStreams ==
  ASSUME Basics, PipeTypes, NEW u \in Users
  PROVE  SumOf(Accounted, StreamsOf(u)) \in Nat
<1>1. \A s \in StreamsOf(u) : Accounted[s] \in Nat
  BY AccountedType, ZenonT(30) DEF StreamsOf
<1> QED BY <1>1, FiniteStreams, SumType, ZenonT(30)

(* Steps that deliver and hold what they did before. *)
LEMMA SameAmounts ==
  ASSUME CountInv, \A s \in Streams : Amount(pipe'[s]) = Amount(pipe[s]),
         counted' \in [Users -> Nat], reported' \in [Users -> Nat],
         \A u \in Users : counted'[u] + reported'[u] = counted[u] + reported[u]
  PROVE  CountInv'
<1>1. Accounted' = Accounted
  BY DEF Accounted
<1> QED BY <1>1, ZenonT(60) DEF CountInv, StreamsOf, User

(* A step that accounts for n more chunks of a stream. *)
LEMMA MoreAmount ==
  ASSUME Basics, CountInv, PipeTypes, PipeTypes', NEW s \in Streams, NEW n \in Nat,
         Amount(pipe'[s]) <= Amount(pipe[s]) + n,
         \A t \in Streams \ {s} : pipe'[t] = pipe[t],
         counted' = [counted EXCEPT ![User(s)] = @ + n], UNCHANGED reported
  PROVE  CountInv'
<1>1. User(s) \in Users
  BY ProxyAssumption, ZenonT(30) DEF User
<1>2. /\ counted' \in [Users -> Nat] /\ counted'[User(s)] = counted[User(s)] + n
      /\ \A u \in Users \ {User(s)} : counted'[u] = counted[u]
  <2>1. counted \in [Users -> Nat]
    BY Zenon DEF CountInv
  <2>2. counted[User(s)] + n \in Nat
    <3>1. counted[User(s)] \in Nat
      BY <1>1, <2>1, Zenon
    <3> QED BY ONLY <3>1, n \in Nat
  <2> DEFINE k == counted[User(s)] + n
  <2>3. counted' = [counted EXCEPT ![User(s)] = k]
    BY Zenon
  <2> HIDE DEF k
  <2>4. counted' \in [Users -> Nat] /\ counted'[User(s)] = k
        /\ \A u \in Users \ {User(s)} : counted'[u] = counted[u]
    BY <1>1, <2>1, <2>2, <2>3, ZenonT(30) DEF k
  <2> QED BY <2>4, Zenon DEF k
<1> SUFFICES ASSUME NEW u \in Users
             PROVE  SumOf(Accounted', StreamsOf(u)) <= counted'[u] + reported'[u]
  BY <1>2, ZenonT(60) DEF CountInv, StreamsOf, User
<1> DEFINE F == Accounted
           G == Accounted'
           H == [t \in Streams |-> IF t = s THEN F[t] + n ELSE F[t]]
<1>3. \A t \in Streams : F[t] = Amount(pipe[t]) /\ F[t] \in Nat
  BY AccountedType, ZenonT(30), SMTT(60)
<1>4. \A t \in Streams : G[t] = Amount(pipe'[t]) /\ G[t] \in Nat
  <2>1. \A t \in Streams : pipe'[t]["up"] \in Pipes /\ pipe'[t]["down"] \in Pipes
    BY DEF PipeTypes, Directions
  <2>2. \A t \in Streams : Share(pipe'[t]["up"]) \in Nat /\ Share(pipe'[t]["down"]) \in Nat
    BY <2>1, ShareNat, ZenonT(60)
  <2>3. \A t \in Streams : Amount(pipe'[t]) \in Nat
    BY <2>2, SMTT(60) DEF Amount
  <2> QED BY <2>3, ZenonT(30), SMTT(60) DEF Accounted
<1> HIDE DEF F, G
<1>5. \A t \in StreamsOf(u) : /\ F[t] \in Nat /\ H[t] = (IF t = s THEN F[t] + n ELSE F[t])
                             /\ G[t] \in Nat /\ H[t] \in Nat /\ G[t] <= H[t]
  BY <1>3, <1>4 DEF StreamsOf
<1> HIDE DEF H
<1>6. /\ SumOf(H, StreamsOf(u)) = SumOf(F, StreamsOf(u)) + (IF s \in StreamsOf(u) THEN n ELSE 0)
      /\ SumOf(G, StreamsOf(u)) <= SumOf(H, StreamsOf(u))
      /\ SumOf(G, StreamsOf(u)) \in Nat /\ SumOf(H, StreamsOf(u)) \in Nat
  <2>1. SumOf(H, StreamsOf(u)) = SumOf(F, StreamsOf(u)) + (IF s \in StreamsOf(u) THEN n ELSE 0)
    <3> DEFINE S == StreamsOf(u)
    <3>1. IsFiniteSet(S) /\ n \in Nat
      BY FiniteStreams, Zenon
    <3>2. \A t \in S : F[t] \in Nat /\ H[t] = (IF t = s THEN F[t] + n ELSE F[t])
      BY <1>5, Zenon
    <3> HIDE DEF S
    <3>3. SumOf(H, S) = SumOf(F, S) + (IF s \in S THEN n ELSE 0)
      BY ONLY Basics, <3>1, <3>2, SumGrows, ZenonT(60)
    <3> QED BY <3>3, Zenon DEF S
  <2>2. SumOf(G, StreamsOf(u)) <= SumOf(H, StreamsOf(u))
    BY <1>5, FiniteStreams, SumMonotone, ZenonT(30)
  <2> QED BY <1>5, <2>1, <2>2, FiniteStreams, SumType, ZenonT(60)
<1>7. SumOf(F, StreamsOf(u)) \in Nat /\ SumOf(F, StreamsOf(u)) <= counted[u] + reported[u]
      /\ counted[u] \in Nat /\ reported[u] \in Nat
  BY SumOfStreams, ZenonT(30), SMTT(60) DEF CountInv, F
<1>8. CASE u = User(s)
  <2>1. s \in StreamsOf(u)
    BY <1>8 DEF StreamsOf
  <2>2. SumOf(G, StreamsOf(u)) <= counted'[u] + reported'[u]
    <3> DEFINE f == SumOf(F, StreamsOf(u))
               g == SumOf(G, StreamsOf(u))
               h == SumOf(H, StreamsOf(u))
               x == counted[u]
               y == counted'[u]
               z == reported[u]
    <3>1. reported'[u] = z /\ y = x + n /\ h = f + n
      BY <1>2, <1>6, <1>8, <2>1, Zenon
    <3>2. g <= h /\ g \in Nat /\ h \in Nat /\ f \in Nat /\ f <= x + z /\ x \in Nat /\ z \in Nat /\ n \in Nat
      BY <1>6, <1>7, Zenon
    <3> HIDE DEF f, g, h, x, y, z
    <3>3. g <= y + z
      BY ONLY <3>1, <3>2, SMTT(60)
    <3> QED BY <3>1, <3>3, Zenon DEF g, y, z
  <2> QED BY <2>2, ZenonT(30), SMTT(60) DEF G
<1>9. CASE u # User(s)
  <2>1. s \notin StreamsOf(u)
    BY <1>9 DEF StreamsOf
  <2>2. SumOf(G, StreamsOf(u)) <= counted'[u] + reported'[u]
    <3> DEFINE f == SumOf(F, StreamsOf(u))
               g == SumOf(G, StreamsOf(u))
               h == SumOf(H, StreamsOf(u))
               x == counted[u]
               z == reported[u]
    <3>1. reported'[u] = z /\ counted'[u] = x /\ h = f + 0
      BY <1>2, <1>6, <1>9, <2>1, Zenon
    <3>2. g <= h /\ g \in Nat /\ h \in Nat /\ f \in Nat /\ f <= x + z /\ x \in Nat /\ z \in Nat
      BY <1>6, <1>7, Zenon
    <3> HIDE DEF f, g, h, x, z
    <3>3. g <= x + z
      BY ONLY <3>1, <3>2
    <3> QED BY <3>1, <3>3, Zenon DEF g, x, z
  <2> QED BY <2>2 DEF G
<1> QED BY <1>8, <1>9, ZenonT(30)

LEMMA InitCount ==
  ASSUME Basics
  PROVE  ServerInit => CountInv
<1> SUFFICES ASSUME ServerInit PROVE CountInv
  BY ZenonT(60)
<1>1. \A s \in Streams : Accounted[s] = 0
  BY DEF ServerInit, TcpInit, Accounted, Amount, Share, EmptyPipe, Directions
<1>2. ASSUME NEW u \in Users
      PROVE  SumOf(Accounted, StreamsOf(u)) = 0
  <2>1. \A s \in StreamsOf(u) : Accounted[s] = 0
    BY <1>1, ZenonT(30), SMTT(60) DEF StreamsOf
  <2> QED BY <2>1, FiniteStreams, SumZero
<1>3. counted \in [Users -> Nat] /\ reported \in [Users -> Nat]
      /\ \A u \in Users : counted[u] = 0 /\ reported[u] = 0
  BY DEF ServerInit, TcpInit
<1> QED BY <1>2, <1>3 DEF CountInv

LEMMA AmountKept ==
  ASSUME NEW ps, NEW qs, \A d \in Directions : Share(qs[d]) = Share(ps[d])
  PROVE  Amount(qs) = Amount(ps)
BY DEF Amount, Directions

LEMMA AmountSame ==
  ASSUME NEW ps, NEW qs, \A d \in Directions : qs[d].out = ps[d].out /\ qs[d].held = ps[d].held
  PROVE  Amount(qs) = Amount(ps)
BY AmountKept, Zenon DEF Share

(* Steps that touch no pipe. *)
LEMMA IdleCounts ==
  ASSUME CountInv, UNCHANGED <<pipe, counted, reported>>
  PROVE  CountInv'
BY SameAmounts, ZenonT(30) DEF CountInv

LEMMA ClearCounts ==
  ASSUME CountInv, ClearTraffic
  PROVE  CountInv'
<1>1. UNCHANGED pipe
  BY DEF ClearTraffic
<1>2. /\ counted' \in [Users -> Nat] /\ reported' \in [Users -> Nat]
      /\ \A u \in Users : counted'[u] + reported'[u] = counted[u] + reported[u]
  BY DEF ClearTraffic, CountInv
<1> QED BY <1>1, <1>2, SameAmounts, ZenonT(60)

(* Steps that read, or end a direction, with nothing in between. *)
LEMMA StillCounts ==
  ASSUME CountInv, UNCHANGED <<counted, reported>>,
         \A t \in Streams : \A d \in Directions :
           pipe'[t][d].out = pipe[t][d].out /\ pipe'[t][d].held = pipe[t][d].held
  PROVE  CountInv'
<1>1. \A t \in Streams : Amount(pipe'[t]) = Amount(pipe[t])
  BY AmountSame, ZenonT(30)
<1> QED BY <1>1, SameAmounts, Zenon DEF CountInv

LEMMA SamePipes ==
  ASSUME PipeTypes, NEW s \in Streams, NEW d \in Directions, NEW q,
         pipe' = [pipe EXCEPT ![s][d] = q], q.out = pipe[s][d].out, q.held = pipe[s][d].held
  PROVE  \A t \in Streams : \A e \in Directions :
           pipe'[t][e].out = pipe[t][e].out /\ pipe'[t][e].held = pipe[t][e].held
<1>1. /\ pipe'[s][d] = q /\ \A e \in Directions \ {d} : pipe'[s][e] = pipe[s][e]
      /\ \A t \in Streams \ {s} : pipe'[t] = pipe[t]
  BY PipeWritten, Zenon
<1> QED BY <1>1, ZenonT(60)

LEMMA SendCounts ==
  ASSUME CountInv, PipeTypes, NEW s \in Streams, NEW d \in Directions, Send(s, d)
  PROVE  CountInv'
<1>1. UNCHANGED <<counted, reported>>
  BY DEF Send, statVars
<1>2. \A t \in Streams : \A e \in Directions :
        pipe'[t][e].out = pipe[t][e].out /\ pipe'[t][e].held = pipe[t][e].held
  <2> DEFINE p == pipe[s][d]
  <2>1. p \in Pipes
    BY Zenon DEF PipeTypes
  <2>2. PICK q \in {[p EXCEPT !.sent = @ + 1], [p EXCEPT !.fin = TRUE]} :
          pipe' = [pipe EXCEPT ![s][d] = q]
    BY Zenon DEF Send, PipeTypes
  <2>3. q.out = p.out /\ q.held = p.held
    BY <2>1, ZenonT(30) DEF Pipes
  <2> QED BY <2>2, <2>3, SamePipes, Zenon
<1> QED BY <1>1, <1>2, StillCounts, ZenonT(60)

LEMMA HookCounts ==
  ASSUME CountInv, PipeTypes, NEW s \in Streams, Hook(s)
  PROVE  CountInv'
<1>1. UNCHANGED <<counted, reported>>
  BY ZenonT(30), SMTT(60) DEF Hook, statVars
<1>2. \A t \in Streams : \A e \in Directions :
        pipe'[t][e].out = pipe[t][e].out /\ pipe'[t][e].held = pipe[t][e].held
  <2>1. CASE pipe' = [pipe EXCEPT ![s]["up"].read = @ + 1]
    <3> DEFINE p == pipe[s]["up"]
               q == [p EXCEPT !.read = @ + 1]
    <3>1. "up" \in Directions
      BY DEF Directions
    <3>2. p \in Pipes /\ pipe' = [pipe EXCEPT ![s]["up"] = q]
      BY <2>1, <3>1, Zenon DEF PipeTypes
    <3>3. q.out = p.out /\ q.held = p.held
      BY <3>2, ZenonT(60) DEF Pipes
    <3> HIDE DEF q
    <3> QED BY <3>1, <3>2, <3>3, SamePipes, ZenonT(60)
  <2> QED BY <2>1 DEF Hook
<1> QED BY <1>1, <1>2, StillCounts, ZenonT(60)

LEMMA CopyEndCounts ==
  ASSUME CountInv, PipeTypes, NEW s \in Streams, NEW d \in Directions, CopyEnd(s, d)
  PROVE  CountInv'
<1>1. UNCHANGED <<counted, reported>>
  BY DEF CopyEnd, statVars
<1>2. pipe' = [pipe EXCEPT ![s][d].done = TRUE]
  BY DEF CopyEnd
<1>3. \A t \in Streams : \A e \in Directions :
        pipe'[t][e].out = pipe[t][e].out /\ pipe'[t][e].held = pipe[t][e].held
  <2> DEFINE p == pipe[s][d]
             q == [p EXCEPT !.done = TRUE]
  <2>1. p \in Pipes /\ pipe' = [pipe EXCEPT ![s][d] = q]
    BY <1>2, Zenon DEF PipeTypes
  <2>2. q.out = p.out /\ q.held = p.held
    BY <2>1, ZenonT(60) DEF Pipes
  <2> HIDE DEF q
  <2> QED BY <2>1, <2>2, SamePipes, ZenonT(60)
<1> QED BY <1>1, <1>3, StillCounts, Zenon

(* A chunk that is written is no longer held. *)
LEMMA CopyWriteCounts ==
  ASSUME CountInv, PipeTypes, NEW s \in Streams, NEW d \in Directions, CopyWrite(s, d)
  PROVE  CountInv'
<1>1. UNCHANGED <<counted, reported>>
  BY DEF CopyWrite, statVars
<1>2. PICK k \in pipe[s][d].held :
        pipe' = [pipe EXCEPT ![s][d].held = {}, ![s][d].out = Append(@, k)]
  BY Zenon DEF CopyWrite
<1>3. /\ pipe'[s][d].held = {} /\ pipe'[s][d].out = Append(pipe[s][d].out, k)
      /\ \A e \in Directions \ {d} : pipe'[s][e] = pipe[s][e]
      /\ \A t \in Streams \ {s} : pipe'[t] = pipe[t]
  <2> DEFINE p == pipe[s][d]
             q == [p EXCEPT !.held = {}, !.out = Append(@, k)]
  <2>1. p \in Pipes /\ pipe' = [pipe EXCEPT ![s][d] = q]
    BY <1>2, Zenon DEF PipeTypes
  <2>2. q.held = {} /\ q.out = Append(p.out, k)
    BY <2>1, ZenonT(30) DEF Pipes
  <2> HIDE DEF q
  <2>3. /\ pipe'[s][d] = q /\ \A e \in Directions \ {d} : pipe'[s][e] = pipe[s][e]
        /\ \A t \in Streams \ {s} : pipe'[t] = pipe[t]
    BY <2>1, PipeWritten, Zenon
  <2> QED BY <2>2, <2>3, Zenon
<1>4. pipe[s][d].out \in Seq(Nat)
  BY ZenonT(60) DEF PipeTypes, Pipes
<1>5. Len(pipe'[s][d].out) = Len(pipe[s][d].out) + 1 /\ Len(pipe[s][d].out) \in Nat
  BY <1>3, <1>4, SMTT(60)
<1>6. Amount(pipe'[s]) = Amount(pipe[s])
  <2>1. Share(pipe'[s][d]) = Len(pipe'[s][d].out) + 0
    BY <1>3, ShareIs, ZenonT(30), SMTT(60)
  <2>2. Share(pipe[s][d]) = Len(pipe[s][d].out) + 1
    <3>1. pipe[s][d].held # {}
      BY <1>2, ZenonT(30), SMTT(60)
    <3> QED BY <3>1, ShareIs, ZenonT(30), SMTT(60)
  <2>3. Share(pipe'[s][d]) = Share(pipe[s][d])
    BY ONLY <1>5, <2>1, <2>2
  <2>4. \A e \in Directions : Share(pipe'[s][e]) = Share(pipe[s][e])
    BY <1>3, <2>3, ZenonT(60)
  <2> QED BY <2>4, AmountKept, ZenonT(60)
<1>7. \A t \in Streams : Amount(pipe'[t]) = Amount(pipe[t])
  BY <1>3, <1>6
<1> QED BY <1>1, <1>7, SameAmounts, ZenonT(30), SMTT(60) DEF CountInv

LEMMA CopyReadCounts ==
  ASSUME Basics, CountInv, PipeTypes, PipeTypes', NEW s \in Streams, NEW d \in Directions, CopyRead(s, d)
  PROVE  CountInv'
<1>1. UNCHANGED reported /\ pipe[s][d].held = {}
  BY DEF CopyRead
<1>2. CASE Refused(User(s))
  BY <1>1, <1>2, IdleCounts, ZenonT(30), SMTT(60) DEF CopyRead, LogTraffic
<1>3. CASE ~Refused(User(s))
  <2>1. /\ counted' = [counted EXCEPT ![User(s)] = @ + 1]
        /\ pipe' = [pipe EXCEPT ![s][d].read = @ + 1, ![s][d].held = {pipe[s][d].read + 1}]
    BY <1>3, ZenonT(30) DEF CopyRead, LogTraffic
  <2>2. /\ pipe'[s][d].held # {} /\ pipe'[s][d].out = pipe[s][d].out
        /\ \A e \in Directions \ {d} : pipe'[s][e] = pipe[s][e]
        /\ \A t \in Streams \ {s} : pipe'[t] = pipe[t]
    <3> DEFINE p == pipe[s][d]
               q == [p EXCEPT !.read = @ + 1, !.held = {p.read + 1}]
    <3>0. pipe' = [pipe EXCEPT ![s][d] = q]
      BY <2>1, ZenonT(60) DEF PipeTypes
    <3>1. p \in Pipes /\ pipe' = [pipe EXCEPT ![s][d] = q]
      BY <3>0, ZenonT(60) DEF PipeTypes
    <3>2. q.held = {p.read + 1} /\ q.out = p.out
      BY <3>1, ZenonT(30) DEF Pipes
    <3>3. q.held # {}
      BY <3>2, Zenon
    <3> HIDE DEF q
    <3>4. /\ pipe'[s][d] = q /\ \A e \in Directions \ {d} : pipe'[s][e] = pipe[s][e]
          /\ \A t \in Streams \ {s} : pipe'[t] = pipe[t]
      BY <3>1, PipeWritten, ZenonT(60)
    <3> QED BY <3>2, <3>3, <3>4, ZenonT(60)
  <2>3. Share(pipe'[s][d]) = Share(pipe[s][d]) + 1
    <3>1. Share(pipe'[s][d]) = Len(pipe'[s][d].out) + 1 /\ Share(pipe[s][d]) = Len(pipe[s][d].out) + 0
      BY <1>1, <2>2, ShareIs, ZenonT(60)
    <3>2. Len(pipe[s][d].out) \in Nat
      BY ShareType
    <3> QED BY <2>2, <3>1, <3>2
  <2>4. Amount(pipe'[s]) = Amount(pipe[s]) + 1
    <3>1. 1 \in Nat /\ \A e \in Directions : Share(pipe[s][e]) \in Nat
      BY ShareType, ZenonT(30), SMTT(60)
    <3> QED BY <2>2, <2>3, <3>1, AmountChange, ZenonT(60)
  <2>5. 1 \in Nat /\ Amount(pipe'[s]) <= Amount(pipe[s]) + 1
    BY <2>4, AccountedType
  <2> QED BY <1>1, <2>1, <2>2, <2>5, MoreAmount, ZenonT(60)
<1> QED BY <1>2, <1>3, ZenonT(30), SMTT(60)

LEMMA WritePrefixCounts ==
  ASSUME Basics, CountInv, PipeTypes, PipeTypes', NEW s \in Streams, WritePrefix(s)
  PROVE  CountInv'
<1>1. UNCHANGED reported /\ stage[s] = "prefix"
  BY DEF WritePrefix
<1>2. CASE Refused(User(s))
  BY <1>1, <1>2, IdleCounts DEF WritePrefix, LogTraffic
<1>3. CASE ~Refused(User(s))
  <2> DEFINE n == Len(putback[s])
  <2>1. /\ counted' = [counted EXCEPT ![User(s)] = @ + n]
        /\ pipe' = [pipe EXCEPT ![s]["up"].out = putback[s]]
    BY <1>3 DEF WritePrefix, LogTraffic
  <2>2. n \in Nat
    BY DEF PipeTypes
  <2>3. /\ pipe'[s]["up"].held = pipe[s]["up"].held /\ pipe'[s]["up"].out = putback[s]
        /\ pipe'[s]["down"] = pipe[s]["down"]
        /\ \A t \in Streams \ {s} : pipe'[t] = pipe[t]
    <3> DEFINE p == pipe[s]["up"]
               q == [p EXCEPT !.out = putback[s]]
    <3>1. "up" \in Directions /\ "down" \in Directions \ {"up"}
      BY DEF Directions
    <3>0. p \in Pipes
      BY <3>1, ZenonT(30) DEF PipeTypes
    <3>2. p \in Pipes /\ pipe' = [pipe EXCEPT ![s]["up"] = q]
      BY <2>1, <3>0, Zenon
    <3>3. q.held = p.held /\ q.out = putback[s]
      BY <3>2, ZenonT(30) DEF Pipes
    <3> HIDE DEF q
    <3>4. /\ pipe'[s]["up"] = q /\ \A e \in Directions \ {"up"} : pipe'[s][e] = pipe[s][e]
          /\ \A t \in Streams \ {s} : pipe'[t] = pipe[t]
      BY <3>1, <3>2, PipeWritten, ZenonT(60)
    <3> QED BY <3>1, <3>3, <3>4, Zenon
  <2>4. Amount(pipe'[s]) <= Amount(pipe[s]) + n
    <3> DEFINE a == Len(pipe[s]["up"].out)
               x == Share(pipe[s]["up"])
               y == Share(pipe[s]["down"])
               z == Share(pipe'[s]["up"])
    <3>1. x \in Nat /\ y \in Nat /\ a \in Nat
      BY ShareType, ZenonT(30), SMTT(60) DEF Directions
    <3>3. z <= x + n
      <4>1. CASE pipe[s]["up"].held = {}
        <5>1. z = n + 0 /\ x = a + 0
          BY <2>3, <4>1, ShareIs, ZenonT(60)
        <5> HIDE DEF n, a, x, z
        <5> QED BY <2>2, <3>1, <5>1
      <4>2. CASE pipe[s]["up"].held # {}
        <5>1. z = n + 1 /\ x = a + 1
          BY <2>3, <4>2, ShareIs, ZenonT(60)
        <5> HIDE DEF n, a, x, z
        <5> QED BY <2>2, <3>1, <5>1, SMTT(60)
      <4> QED BY <4>1, <4>2, ZenonT(30), SMTT(60)
    <3>4. z \in Nat
      <4>1. pipe'[s]["up"] \in Pipes
        BY ZenonT(60) DEF PipeTypes, Directions
      <4> QED BY <4>1, ShareNat
    <3>5. Amount(pipe'[s]) = z + y /\ Amount(pipe[s]) = x + y
      BY <2>3, ZenonT(30), SMTT(60) DEF Amount
    <3> HIDE DEF n, x, y, z
    <3> QED BY ONLY <2>2, <3>1, <3>3, <3>4, <3>5, SMTT(60)
  <2> HIDE DEF n
  <2> QED BY <1>1, <2>1, <2>2, <2>3, <2>4, MoreAmount, ZenonT(60)
<1> QED BY <1>2, <1>3

LEMMA NextCount ==
  ASSUME Basics
  PROVE  PipeTypes /\ PipeTypes' /\ CountInv /\ [ProxyNext]_proxyVars => CountInv'
<1> SUFFICES ASSUME PipeTypes, PipeTypes', CountInv, [ProxyNext]_proxyVars PROVE CountInv'
  BY ZenonT(60)
<1>1. CASE ConnectionStep \/ OnlineStep \/ \E u \in Users : Kick(u)
  BY <1>1, IdleCounts DEF ConnectionStep, OnlineStep, Kick, tcpVars
<1>2. ASSUME NEW c \in Conns, UdpTraffic(c)
      PROVE  CountInv'
  BY <1>2, IdleCounts, Zenon DEF UdpTraffic, LogTraffic, Refused
<1>3. ASSUME NEW s \in Streams,
             Open(s) \/ ReadResponse(s) \/ EarlyFailure(s) \/ TargetFails(s) \/ ReadRequest(s)
               \/ Dial(s) \/ Reply(s) \/ LinkNoticed(s)
      PROVE  CountInv'
  BY <1>3, IdleCounts, Zenon DEF Open, ReadResponse, EarlyFailure, TargetFails, ReadRequest, Dial, Reply,
     LinkNoticed, statVars
<1>4. ASSUME NEW s \in Streams, StreamTask(s)
      PROVE  CountInv'
  BY <1>3, <1>4, HookCounts, WritePrefixCounts, CopyReadCounts, CopyWriteCounts, CopyEndCounts, ZenonT(60)
     DEF StreamTask
<1>5. CASE UNCHANGED proxyVars
  BY <1>5, IdleCounts DEF proxyVars, tcpVars
<1> QED BY <1>1, <1>2, <1>3, <1>4, <1>5, ClearCounts, SendCounts DEF ProxyNext

LEMMA CountInvImplies ==
  ASSUME Basics
  PROVE  PipeTypes /\ CountInv => ForwardedAreCounted
<1> SUFFICES ASSUME PipeTypes, CountInv, NEW u \in Users
             PROVE  SumOf(Delivered, StreamsOf(u)) <= counted[u] + reported[u]
  BY Zenon DEF ForwardedAreCounted, SumOf, StreamsOf
<1>1. \A s \in Streams : Delivered[s] \in Nat /\ Delivered[s] <= Amount(pipe[s])
  <2>1. "up" \in Directions /\ "down" \in Directions
    BY DEF Directions
  <2>2. ASSUME NEW s \in Streams
        PROVE  Delivered[s] \in Nat /\ Delivered[s] <= Amount(pipe[s])
    <3> DEFINE a == Len(pipe[s]["up"].out)
               b == Len(pipe[s]["down"].out)
               x == Share(pipe[s]["up"])
               y == Share(pipe[s]["down"])
    <3>1. a \in Nat /\ b \in Nat /\ x \in Nat /\ y \in Nat /\ a <= x /\ b <= y
      BY <2>1, ShareType
    <3>2. Delivered[s] = a + b /\ Amount(pipe[s]) = x + y
      BY DEF Delivered, Amount
    <3> HIDE DEF a, b, x, y
    <3> QED BY <3>1, <3>2, SMTT(60)
  <2> QED BY <2>2
<1>2. \A s \in StreamsOf(u) : Delivered[s] \in Nat /\ Accounted[s] \in Nat /\ Delivered[s] <= Accounted[s]
  BY <1>1, AccountedType, ZenonT(30) DEF StreamsOf
<1>3. SumOf(Delivered, StreamsOf(u)) <= SumOf(Accounted, StreamsOf(u))
  BY <1>2, FiniteStreams, SumMonotone, ZenonT(60)
<1>4. SumOf(Delivered, StreamsOf(u)) \in Nat /\ SumOf(Accounted, StreamsOf(u)) \in Nat
  BY <1>2, FiniteStreams, SumType
<1> QED BY <1>3, <1>4 DEF CountInv

-----------------------------------------------------------------------------
(* The theorems that rest on sums.                                         *)

INSTANCE FiniteSetTheorems

(* < is well founded on the naturals. *)
LEMMA LeastOfNat ==
  ASSUME NEW T, T \subseteq Nat, T # {}
  PROVE  \E x \in T : \A y \in T : x <= y
<1> DEFINE R == OpToRel(<, Nat)
<1>1. IsWellFoundedOn(R, Nat)
  BY NatLessThanWellFounded, ZenonT(60)
<1>2. \A x, y \in Nat : y < x => <<y, x>> \in R
  BY DEF OpToRel
<1> HIDE DEF R
<1>3. PICK x \in T : \A y \in T : ~ (<<y, x>> \in R)
  BY <1>1, WFMin, ZenonT(60)
<1>4. \A y \in T : ~(y < x)
  BY <1>2, <1>3, ZenonT(60)
<1> QED BY <1>3, <1>4

(* The hypothesis of the lemmas holds. *)
LEMMA BasicsHold == Basics
<1>1. ASSUME NEW S, NEW T, IsFiniteSet(S), T \subseteq S
      PROVE  IsFiniteSet(T) /\ Cardinality(T) <= Cardinality(S)
  BY <1>1, FS_Subset, ZenonT(60)
<1>2. \A S : IsFiniteSet(S) => Cardinality(S) \in Nat
  BY FS_CardinalityType, ZenonT(60)
<1>3. ASSUME NEW S, NEW x, IsFiniteSet(S), x \in S
      PROVE  Cardinality(S \ {x}) = Cardinality(S) - 1
  BY <1>3, FS_RemoveElement, ZenonT(60)
<1>4. \A S : IsFiniteSet(S) /\ Cardinality(S) = 0 => S = {}
  BY FS_EmptySet, ZenonT(60)
<1>5. ASSUME NEW n \in Nat PROVE IsFiniteSet(0..n)
  <2>1. 0 \in Int /\ n \in Int
    BY <1>5
  <2> QED BY <2>1, FS_Interval, ZenonT(60)
<1> QED BY <1>1, <1>2, <1>3, <1>4, <1>5, LeastOfNat, ZenonT(60) DEF Basics

(* For any number of streams of a user, what they delivered in both        *)
(* directions never exceeds what log_traffic was told, counters that were  *)
(* cleared included.                                                       *)
THEOREM TrafficIsCounted == ProxySpec => []ForwardedAreCounted
<1>1. ProxySpec => []PipeTypes
  BY InitPipes, NextPipes, PTL DEF ProxySpec
<1>2. ServerInit => CountInv
  BY BasicsHold, InitCount, ZenonT(60)
<1>3. PipeTypes /\ PipeTypes' /\ CountInv /\ [ProxyNext]_proxyVars => CountInv'
  BY BasicsHold, NextCount, ZenonT(60)
<1>4. ProxySpec => []CountInv
  BY <1>1, <1>2, <1>3, PTL DEF ProxySpec
<1>5. PipeTypes /\ CountInv => ForwardedAreCounted
  BY BasicsHold, CountInvImplies, ZenonT(60)
<1> QED BY <1>1, <1>4, <1>5, PTL

(* Brutal's rate is that of the last seconds, in update_ack_rate: the ring *)
(* may be overwritten in any order the clock allows, the rate always       *)
(* counts each packet of the window once.                                  *)
THEOREM RateIsRecent == BrutalInit /\ [][BrutalNext]_brutalVars => []AckRateRecent
<1>1. WindowInv /\ [BrutalNext]_brutalVars => WindowInv'
  BY BasicsHold, BrutalStep, ZenonT(60)
<1>2. WindowInv => AckRateRecent
  BY Zenon DEF WindowInv
<1> QED BY <1>1, <1>2, BrutalStart, PTL
=============================================================================
