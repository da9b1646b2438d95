------------------------------ MODULE SumTheorems ------------------------------
(***************************************************************************)
(* What SumFunctionOnSet of module Functions computes on finite sets. It   *)
(* is a fold, defined by recursion over the subsets of its argument; the   *)
(* proofs go by the smallest set at which a claim would fail.              *)
(***************************************************************************)
EXTENDS Integers, FiniteSets, Functions, FiniteSetTheorems, WellFoundedInduction, TLAPS

-----------------------------------------------------------------------------
(* The recursion of the fold has a solution, and only one. *)

\* The element the fold takes out of s first.
Pick(s) == CHOOSE x \in s : TRUE

\* g adds up f over the subsets of S the way the fold does.
Adds(g, f, S) ==
    g = [s \in SUBSET S |-> IF s = {} THEN 0 ELSE f[Pick(s)] + g[s \ {Pick(s)}]]

\* What is left when the fold has taken out an element is smaller.
LEMMA PickSmaller ==
    ASSUME NEW s, s # {}
    PROVE  Pick(s) \in s /\ s \ {Pick(s)} \subseteq s /\ s \ {Pick(s)} # s
BY DEF Pick

\* A property of finite sets that fails somewhere fails at a smallest set.
LEMMA SmallestSet ==
    ASSUME NEW S, IsFiniteSet(S), NEW T, T \subseteq SUBSET S, T # {}
    PROVE  \E t \in T : \A s \in SUBSET t : s # t => s \notin T
<1>1. IsWellFoundedOn(StrictSubsetOrdering(S), SUBSET S)
  BY FS_StrictSubsetOrderingWellFounded, FS_FiniteSubsetsOfFinite
<1>2. PICK t \in T : \A s \in T : ~(<<s, t>> \in StrictSubsetOrdering(S))
  BY <1>1, WFMin
<1>3. \A s \in SUBSET t : s # t => s \notin T
  BY <1>2 DEF StrictSubsetOrdering
<1> QED BY <1>3

\* Two solutions agree on every set that both are defined on.
LEMMA AddsAgree ==
    ASSUME NEW f, NEW A, NEW B, IsFiniteSet(A), NEW g, NEW h, Adds(g, f, A), Adds(h, f, B),
           NEW s, s \subseteq A, s \subseteq B
    PROVE  g[s] = h[s]
<1> DEFINE T == {t \in SUBSET A : t \subseteq B /\ g[t] # h[t]}
<1>1. SUFFICES T = {}
  OBVIOUS
<1>2. SUFFICES ASSUME T # {} PROVE FALSE
  OBVIOUS
<1>3. PICK t \in T : \A r \in SUBSET t : r # t => r \notin T
  <2>1. T \subseteq SUBSET A
    OBVIOUS
  <2> HIDE DEF T
  <2> QED
    BY <1>2, <2>1, SmallestSet
<1>4. /\ g[t] = IF t = {} THEN 0 ELSE f[Pick(t)] + g[t \ {Pick(t)}]
      /\ h[t] = IF t = {} THEN 0 ELSE f[Pick(t)] + h[t \ {Pick(t)}]
  BY DEF Adds
<1>5. t # {}
  BY <1>4
<1>6. g[t \ {Pick(t)}] = h[t \ {Pick(t)}]
  BY <1>3, <1>5, PickSmaller
<1> QED
  BY <1>4, <1>5, <1>6

\* On a finite set there is a solution: put the solutions for its subsets together.
LEMMA AddsExists ==
    ASSUME NEW f, NEW S, IsFiniteSet(S)
    PROVE  \E g : Adds(g, f, S)
<1> DEFINE T == {t \in SUBSET S : ~\E g : Adds(g, f, t)}
<1>1. SUFFICES ASSUME T # {} PROVE FALSE
  OBVIOUS
<1>2. PICK t \in T : \A r \in SUBSET t : r # t => r \notin T
  <2>1. T \subseteq SUBSET S
    OBVIOUS
  <2> HIDE DEF T
  <2> QED
    BY <1>1, <2>1, SmallestSet
<1> DEFINE G(r) == CHOOSE g : Adds(g, f, r)
           value == [r \in SUBSET t |-> G(r)[r]]
           whole == [r \in SUBSET t |-> IF r = {} THEN 0 ELSE f[Pick(r)] + value[r \ {Pick(r)}]]
<1>3. ASSUME NEW r \in SUBSET t, r # t PROVE Adds(G(r), f, r) /\ IsFiniteSet(r)
  <2>1. \E g : Adds(g, f, r)
    BY <1>2, <1>3
  <2>2. Adds(G(r), f, r)
    BY <2>1, Zenon
  <2> QED
    BY <2>2, FS_Subset
<1>4. ASSUME NEW r \in SUBSET t, r # t PROVE whole[r] = value[r]
  <2>0. G(r)[r] = IF r = {} THEN 0 ELSE f[Pick(r)] + G(r)[r \ {Pick(r)}]
    <3>1. Adds(G(r), f, r)
      BY <1>3, <1>4
    <3> HIDE DEF G
    <3> QED
      BY <3>1 DEF Adds
  <2>1. CASE r = {}
    BY <2>0, <2>1
  <2>2. CASE r # {}
    <3> DEFINE q == r \ {Pick(r)}
    <3>1. q \subseteq r /\ q # r /\ q \subseteq t /\ q # t
      BY <2>2, PickSmaller
    <3>2. G(r)[r] = f[Pick(r)] + G(r)[q]
      BY <2>0, <2>2
    <3>3. G(r)[q] = G(q)[q]
      <4>1. Adds(G(r), f, r) /\ Adds(G(q), f, q) /\ IsFiniteSet(r)
        BY <1>3, <1>4, <3>1
      <4> HIDE DEF G
      <4> QED
        BY <4>1, <3>1, AddsAgree
    <3> QED
      BY <3>1, <3>2, <3>3, <2>2
  <2> QED
    BY <2>1, <2>2
<1>5. Adds(whole, f, t)
  <2>1. \A r \in SUBSET t : r # {} => whole[r \ {Pick(r)}] = value[r \ {Pick(r)}]
    <3> SUFFICES ASSUME NEW r \in SUBSET t, r # {} PROVE whole[r \ {Pick(r)}] = value[r \ {Pick(r)}]
      OBVIOUS
    <3>1. r \ {Pick(r)} \in SUBSET t /\ r \ {Pick(r)} # t
      BY PickSmaller
    <3> QED
      BY <3>1, <1>4
  <2> HIDE DEF value
  <2>2. \A r \in SUBSET t : whole[r] = IF r = {} THEN 0 ELSE f[Pick(r)] + whole[r \ {Pick(r)}]
    BY <2>1
  <2>3. whole = [r \in SUBSET t |-> whole[r]]
    OBVIOUS
  <2> HIDE DEF whole
  <2> QED
    BY <2>2, <2>3 DEF Adds
<1> QED
  BY <1>5

\* The sum is the value of a solution at the whole set.
LEMMA SumIsSolution ==
    ASSUME NEW f, NEW S, IsFiniteSet(S)
    PROVE  \E g : Adds(g, f, S) /\ SumFunctionOnSet(f, S) = g[S]
<1> DEFINE h == CHOOSE g : Adds(g, f, S)
<1>1. Adds(h, f, S)
  BY AddsExists, Zenon
<1>2. SumFunctionOnSet(f, S) = h[S]
  BY DEF SumFunctionOnSet, FoldFunctionOnSet, MapThenFoldSet, Adds, Pick
<1> QED
  BY <1>1, <1>2

-----------------------------------------------------------------------------
(* Laws of sums. *)

\* The sum of nothing is 0, of more an element and the sum of the rest.
LEMMA SumUnfolds ==
    ASSUME NEW f, NEW S, IsFiniteSet(S)
    PROVE  SumFunctionOnSet(f, S) =
               IF S = {} THEN 0 ELSE f[Pick(S)] + SumFunctionOnSet(f, S \ {Pick(S)})
<1>1. PICK g : Adds(g, f, S) /\ SumFunctionOnSet(f, S) = g[S]
  BY SumIsSolution
<1>2. g[S] = IF S = {} THEN 0 ELSE f[Pick(S)] + g[S \ {Pick(S)}]
  BY <1>1 DEF Adds
<1>3. CASE S # {}
  <2> DEFINE R == S \ {Pick(S)}
  <2>1. R \subseteq S /\ IsFiniteSet(R)
    BY FS_Subset
  <2> HIDE DEF R
  <2>2. PICK h : Adds(h, f, R) /\ SumFunctionOnSet(f, R) = h[R]
    BY <2>1, SumIsSolution
  <2>3. g[R] = h[R]
    BY <1>1, <2>1, <2>2, AddsAgree
  <2> QED
    BY <1>1, <1>2, <1>3, <2>2, <2>3 DEF R
<1> QED
  BY <1>1, <1>2, <1>3

\* Any element may be taken out first.
LEMMA SumTakesOut ==
    ASSUME NEW f, NEW S, IsFiniteSet(S), \A x \in S : f[x] \in Int
    PROVE  /\ SumFunctionOnSet(f, S) \in Int
           /\ \A x \in S : SumFunctionOnSet(f, S) = f[x] + SumFunctionOnSet(f, S \ {x})
<1> DEFINE P(t) == SumFunctionOnSet(f, t) \in Int /\ \A x \in t : SumFunctionOnSet(f, t) = f[x] + SumFunctionOnSet(f, t \ {x})
           T == {t \in SUBSET S : ~P(t)}
<1>1. SUFFICES ASSUME T # {} PROVE FALSE
  OBVIOUS
<1>2. PICK t \in T : \A r \in SUBSET t : r # t => r \notin T
  <2>1. T \subseteq SUBSET S
    OBVIOUS
  <2> HIDE DEF T
  <2> QED
    BY <1>1, <2>1, SmallestSet
<1> DEFINE p == Pick(t)
<1>3. SumFunctionOnSet(f, t) = IF t = {} THEN 0 ELSE f[p] + SumFunctionOnSet(f, t \ {p})
  BY FS_Subset, SumUnfolds
<1>4. t # {}
  BY <1>3
<1>5. \A r \in SUBSET t : r # t => P(r)
  BY <1>2
<1>6. p \in t /\ f[p] \in Int /\ P(t \ {p})
  BY <1>4, <1>5, PickSmaller
<1>7. SumFunctionOnSet(f, t) \in Int /\ SumFunctionOnSet(f, t) = f[p] + SumFunctionOnSet(f, t \ {p})
  BY <1>3, <1>4, <1>6
<1> HIDE DEF p
<1>8. ASSUME NEW x \in t, x # p PROVE SumFunctionOnSet(f, t) = f[x] + SumFunctionOnSet(f, t \ {x})
  <2>1. P(t \ {x})
    BY <1>5
  <2>2. /\ SumFunctionOnSet(f, t \ {p}) = f[x] + SumFunctionOnSet(f, (t \ {p}) \ {x})
        /\ SumFunctionOnSet(f, t \ {x}) = f[p] + SumFunctionOnSet(f, (t \ {x}) \ {p})
    BY <1>6, <1>8, <2>1
  <2>3. (t \ {p}) \ {x} = (t \ {x}) \ {p}
    OBVIOUS
  <2>4. P((t \ {p}) \ {x})
    BY <1>5, <1>6
  <2>5. f[x] \in Int /\ f[p] \in Int /\ SumFunctionOnSet(f, (t \ {p}) \ {x}) \in Int
    BY <2>4, <1>6
  <2>6. SumFunctionOnSet(f, (t \ {p}) \ {x}) = SumFunctionOnSet(f, (t \ {x}) \ {p})
    BY <2>3, Zenon
  <2> QED
    BY <1>7, <2>2, <2>5, <2>6
<1> QED
  BY <1>7, <1>8

\* The empty sum.
LEMMA SumOfNothing == ASSUME NEW f PROVE SumFunctionOnSet(f, {}) = 0
BY SumUnfolds, FS_EmptySet

\* Only the values on the set matter.
LEMMA SumAgrees ==
    ASSUME NEW f, NEW g, NEW S, IsFiniteSet(S), \A x \in S : f[x] \in Int /\ g[x] = f[x]
    PROVE  SumFunctionOnSet(g, S) = SumFunctionOnSet(f, S)
<1> DEFINE T == {t \in SUBSET S : SumFunctionOnSet(g, t) # SumFunctionOnSet(f, t)}
<1>1. SUFFICES ASSUME T # {} PROVE FALSE
  OBVIOUS
<1>2. PICK t \in T : \A r \in SUBSET t : r # t => r \notin T
  <2>1. T \subseteq SUBSET S
    OBVIOUS
  <2> HIDE DEF T
  <2> QED
    BY <1>1, <2>1, SmallestSet
<1>3. IsFiniteSet(t)
  BY FS_Subset
<1>4. t # {}
  BY SumOfNothing
<1>5. SumFunctionOnSet(g, t \ {Pick(t)}) = SumFunctionOnSet(f, t \ {Pick(t)})
  BY <1>2, <1>4, PickSmaller
<1>6. /\ SumFunctionOnSet(f, t) = f[Pick(t)] + SumFunctionOnSet(f, t \ {Pick(t)})
      /\ SumFunctionOnSet(g, t) = g[Pick(t)] + SumFunctionOnSet(g, t \ {Pick(t)})
  BY <1>3, <1>4, SumUnfolds
<1> QED
  BY <1>4, <1>5, <1>6, PickSmaller

\* A new element adds its value.
LEMMA SumPutsIn ==
    ASSUME NEW f, NEW S, IsFiniteSet(S), NEW x, x \notin S, f[x] \in Int, \A y \in S : f[y] \in Int
    PROVE  /\ SumFunctionOnSet(f, S) \in Int
           /\ SumFunctionOnSet(f, S \cup {x}) = SumFunctionOnSet(f, S) + f[x]
<1> DEFINE R == S \cup {x}
<1>1. IsFiniteSet(R) /\ \A y \in R : f[y] \in Int
  BY FS_AddElement
<1>2. R \ {x} = S /\ x \in R
  OBVIOUS
<1> HIDE DEF R
<1>3. SumFunctionOnSet(f, R) = f[x] + SumFunctionOnSet(f, S)
  BY <1>1, <1>2, SumTakesOut
<1>4. SumFunctionOnSet(f, S) \in Int
  BY SumTakesOut
<1> QED
  BY <1>3, <1>4 DEF R

\* A sum of naturals is a natural, and at least as large as each of them.
LEMMA SumOfNaturals ==
    ASSUME NEW f, NEW S, IsFiniteSet(S), \A x \in S : f[x] \in Nat
    PROVE  /\ SumFunctionOnSet(f, S) \in Nat
           /\ \A x \in S : f[x] <= SumFunctionOnSet(f, S)
<1> DEFINE T == {t \in SUBSET S : SumFunctionOnSet(f, t) \notin Nat}
<1>1. T = {}
  <2>1. SUFFICES ASSUME T # {} PROVE FALSE
    OBVIOUS
  <2>2. PICK t \in T : \A r \in SUBSET t : r # t => r \notin T
    <3>1. T \subseteq SUBSET S
      OBVIOUS
    <3> HIDE DEF T
    <3> QED
      BY <2>1, <3>1, SmallestSet
  <2>3. IsFiniteSet(t)
    BY FS_Subset
  <2>4. t # {}
    BY SumOfNothing
  <2>5. SumFunctionOnSet(f, t \ {Pick(t)}) \in Nat
    BY <2>2, <2>4, PickSmaller
  <2>6. SumFunctionOnSet(f, t) = f[Pick(t)] + SumFunctionOnSet(f, t \ {Pick(t)})
    BY <2>3, <2>4, SumUnfolds
  <2> QED
    BY <2>4, <2>5, <2>6, PickSmaller
<1>2. SumFunctionOnSet(f, S) \in Nat
  BY <1>1
<1>3. ASSUME NEW x \in S PROVE f[x] <= SumFunctionOnSet(f, S)
  <2>1. SumFunctionOnSet(f, S \ {x}) \in Nat
    BY <1>1
  <2>2. SumFunctionOnSet(f, S) = f[x] + SumFunctionOnSet(f, S \ {x})
    BY SumTakesOut
  <2> QED
    BY <2>1, <2>2
<1> QED
  BY <1>2, <1>3

\* Nothing adds up to nothing.
LEMMA SumOfZeros ==
    ASSUME NEW f, NEW S, IsFiniteSet(S), \A x \in S : f[x] = 0
    PROVE  SumFunctionOnSet(f, S) = 0
<1> DEFINE T == {t \in SUBSET S : SumFunctionOnSet(f, t) # 0}
<1>1. SUFFICES ASSUME T # {} PROVE FALSE
  OBVIOUS
<1>2. PICK t \in T : \A r \in SUBSET t : r # t => r \notin T
  <2>1. T \subseteq SUBSET S
    OBVIOUS
  <2> HIDE DEF T
  <2> QED
    BY <1>1, <2>1, SmallestSet
<1>3. IsFiniteSet(t)
  BY FS_Subset
<1>4. t # {}
  BY SumOfNothing
<1>5. SumFunctionOnSet(f, t \ {Pick(t)}) = 0 /\ f[Pick(t)] = 0
  BY <1>2, <1>4, PickSmaller
<1>6. SumFunctionOnSet(f, t) = f[Pick(t)] + SumFunctionOnSet(f, t \ {Pick(t)})
  BY <1>3, <1>4, SumUnfolds
<1> QED
  BY <1>5, <1>6

===============================================================================
