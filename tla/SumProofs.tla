------------------------------ MODULE SumProofs ------------------------------
(***************************************************************************)
(* Lemmas about finite sets and about the sums over them that the ledger   *)
(* of a subscription and the figures of a workspace are made of.  The sum  *)
(* of the community modules is a recursive function over the subsets of a  *)
(* set; that there is such a function, and what it adds up to, is proved by*)
(* induction over the size of a set.  The induction is about a set of      *)
(* subsets, not about an operator, so that the provers can instantiate it. *)
(***************************************************************************)
EXTENDS Integers, FiniteSets, FiniteSetsExt, Aggregates, FiniteSetTheorems, WellFoundedInduction,
        TLAPS

(* A set of naturals has a least element.                                  *)
LEMMA LeastOfNaturals == ASSUME NEW S \in SUBSET Nat, S # {} PROVE \E x \in S : \A y \in S : x <= y
<1> DEFINE R == OpToRel(<, Nat)
<1>1. IsWellFoundedOn(R, Nat)
  BY NatLessThanWellFounded
<1>2. \A x, y \in Nat : <<x, y>> \in R <=> x < y
  BY DEF OpToRel
<1> HIDE DEF R
<1>3. PICK x \in S : \A y \in S : ~(<<y, x>> \in R)
  BY <1>1, WFMin, Zenon
<1>4. ASSUME NEW y \in S PROVE x <= y
  <2>1. x \in Nat /\ y \in Nat /\ ~(<<y, x>> \in R)
    BY <1>3
  <2>2. ~(y < x)
    BY <1>2, <2>1
  <2> QED
    BY <2>1, <2>2
<1> QED
  BY <1>4

(* Among subsets of a finite set there is one from which nothing can be    *)
(* taken away.                                                             *)
LEMMA SmallestSubset ==
  ASSUME NEW S, IsFiniteSet(S), NEW some \in SUBSET SUBSET S, some # {}
  PROVE  \E T \in some : \A x \in T : T \ {x} \notin some
<1> DEFINE sizes == {n \in Nat : \E T \in some : Cardinality(T) = n}
<1>1. \A T \in some : IsFiniteSet(T) /\ Cardinality(T) \in Nat
  BY FS_Subset, FS_CardinalityType
<1>2. sizes # {} /\ sizes \in SUBSET Nat
  BY <1>1
<1>3. PICK n \in sizes : \A m \in sizes : n <= m
  BY <1>2, LeastOfNaturals
<1>4. PICK T \in some : Cardinality(T) = n
  BY <1>3
<1>5. ASSUME NEW x \in T, T \ {x} \in some PROVE FALSE
  <2>1. Cardinality(T \ {x}) = Cardinality(T) - 1
    BY <1>1, FS_RemoveElement
  <2>2. n \in Nat /\ Cardinality(T \ {x}) \in Nat /\ Cardinality(T \ {x}) < n
    BY <1>1, <1>4, <1>5, <2>1
  <2>3. n <= Cardinality(T \ {x})
    BY <1>3, <1>5, <2>2
  <2> QED
    BY <2>2, <2>3
<1> QED
  BY <1>5

(* What holds of the empty set, and of a subset with one element more, is  *)
(* what holds of a finite set and all its subsets.                         *)
LEMMA SubsetInduction ==
  ASSUME NEW S, IsFiniteSet(S), NEW P,
         {} \in P, \A T \in SUBSET S : \A x \in S \ T : T \in P => T \cup {x} \in P
  PROVE  SUBSET S \subseteq P
<1> DEFINE left == {T \in SUBSET S : T \notin P}
<1>1. SUFFICES ASSUME left # {} PROVE FALSE
  OBVIOUS
<1>2. PICK T \in left : \A x \in T : T \ {x} \notin left
  <2>1. left \in SUBSET SUBSET S
    OBVIOUS
  <2> HIDE DEF left
  <2> QED
    BY <1>1, <2>1, SmallestSubset
<1>3. PICK x \in T : TRUE
  BY <1>2
<1>4. T \ {x} \in SUBSET S /\ x \in S \ (T \ {x}) /\ (T \ {x}) \cup {x} = T
  BY <1>3
<1>5. T \ {x} \in P
  BY <1>2, <1>4
<1> QED
  BY <1>4, <1>5

(* The sum of a function over a set.                                       *)
Picked(s) == CHOOSE x \in s : TRUE
IsSum(g, f, S) ==
    g = [s \in SUBSET S |-> IF s = {} THEN 0 ELSE f[Picked(s)] + g[s \ {Picked(s)}]]
Total(f, S) == MapThenSumSet(LAMBDA x : f[x], S)

LEMMA PickedIsIn == ASSUME NEW s, s # {} PROVE Picked(s) \in s
<1>1. \E x \in s : TRUE
  OBVIOUS
<1> QED
  BY <1>1, Zenon DEF Picked

(* Such a function is there, built up over the sizes of the subsets.       *)
Adds(g, f, s) == g[s] = IF s = {} THEN 0 ELSE f[Picked(s)] + g[s \ {Picked(s)}]
AddsUpTo(n, f, S) ==
    \E g : DOMAIN g = SUBSET S /\ \A s \in SUBSET S : Cardinality(s) <= n => Adds(g, f, s)

LEMMA OneMore ==
  ASSUME NEW S, IsFiniteSet(S), NEW f, NEW n \in Nat, AddsUpTo(n, f, S) PROVE AddsUpTo(n + 1, f, S)
<1>1. PICK g : DOMAIN g = SUBSET S /\ \A s \in SUBSET S : Cardinality(s) <= n => Adds(g, f, s)
  BY DEF AddsUpTo
<1> DEFINE h == [s \in SUBSET S |->
                    IF Cardinality(s) <= n THEN g[s] ELSE f[Picked(s)] + g[s \ {Picked(s)}]]
<1>2. ASSUME NEW s \in SUBSET S, Cardinality(s) <= n + 1 PROVE Adds(h, f, s)
  <2>1. Cardinality(s) \in Nat /\ IsFiniteSet(s)
    BY FS_Subset, FS_CardinalityType
  <2>2. CASE s = {}
    <3>1. Cardinality(s) = 0
      BY <2>2, FS_EmptySet
    <3>2. h[s] = g[s] /\ Adds(g, f, s)
      BY <1>1, <3>1
    <3> QED
      BY <2>2, <3>2 DEF Adds
  <2>3. CASE s # {}
    <3> DEFINE t == s \ {Picked(s)}
    <3>1. Picked(s) \in s
      BY <2>3, PickedIsIn
    <3>2. Cardinality(t) = Cardinality(s) - 1
      BY <2>1, <3>1, FS_RemoveElement
    <3>3. t \in SUBSET S /\ Cardinality(t) <= n
      BY <1>2, <2>1, <3>2
    <3>4. h[t] = g[t]
      BY <3>3
    <3>5. h[s] = f[Picked(s)] + g[t]
      <4>1. CASE Cardinality(s) <= n
        BY <1>1, <2>3, <4>1 DEF Adds
      <4>2. CASE ~(Cardinality(s) <= n)
        BY <4>2
      <4> QED
        BY <4>1, <4>2
    <3> QED
      BY <2>3, <3>4, <3>5 DEF Adds
  <2> QED
    BY <2>2, <2>3
<1>3. DOMAIN h = SUBSET S
  OBVIOUS
<1> QED
  BY <1>2, <1>3 DEF AddsUpTo

LEMMA SumExists == ASSUME NEW S, IsFiniteSet(S), NEW f PROVE \E g : IsSum(g, f, S)
<1> DEFINE missing == {n \in Nat : ~AddsUpTo(n, f, S)}
<1>1. AddsUpTo(0, f, S)
  <2> DEFINE g == [s \in SUBSET S |-> 0]
  <2>1. ASSUME NEW s \in SUBSET S, Cardinality(s) <= 0 PROVE Adds(g, f, s)
    <3>1. IsFiniteSet(s) /\ Cardinality(s) \in Nat
      BY FS_Subset, FS_CardinalityType
    <3>2. s = {}
      BY <2>1, <3>1, FS_EmptySet
    <3> QED
      BY <3>2 DEF Adds
  <2> QED
    BY <2>1 DEF AddsUpTo
<1>2. \A n \in Nat : AddsUpTo(n, f, S) => AddsUpTo(n + 1, f, S)
  BY OneMore
<1>3. missing = {}
  <2> SUFFICES ASSUME missing # {} PROVE FALSE
    OBVIOUS
  <2>1. PICK n \in missing : \A m \in missing : n <= m
    BY LeastOfNaturals
  <2> HIDE DEF missing
  <2>2. n \in Nat /\ ~AddsUpTo(n, f, S) /\ \A m \in Nat : ~AddsUpTo(m, f, S) => n <= m
    BY <2>1 DEF missing
  <2>3. n # 0
    BY <1>1, <2>2
  <2>4. n - 1 \in Nat /\ (n - 1) + 1 = n /\ ~(n <= n - 1)
    BY <2>2, <2>3
  <2>5. AddsUpTo(n - 1, f, S)
    BY <2>2, <2>4
  <2>6. AddsUpTo((n - 1) + 1, f, S)
    BY <1>2, <2>4, <2>5
  <2> QED
    BY <2>2, <2>4, <2>6
<1>4. Cardinality(S) \in Nat
  BY FS_CardinalityType
<1>5. AddsUpTo(Cardinality(S), f, S)
  BY <1>3, <1>4
<1>6. PICK g : DOMAIN g = SUBSET S /\ \A s \in SUBSET S : Cardinality(s) <= Cardinality(S) => Adds(g, f, s)
  BY <1>5 DEF AddsUpTo
<1>7. \A s \in SUBSET S : Adds(g, f, s)
  BY <1>6, FS_Subset
<1> DEFINE h == [s \in SUBSET S |-> g[s]]
<1>8. \A s \in SUBSET S : s \ {Picked(s)} \in SUBSET S
  OBVIOUS
<1>9. IsSum(h, f, S)
  BY <1>7, <1>8 DEF Adds, IsSum
<1> QED
  BY <1>9

(* What is known of every function that adds up is known of the sum.       *)
LEMMA TotalIsSum ==
  ASSUME NEW S, IsFiniteSet(S), NEW f PROVE \E g : IsSum(g, f, S) /\ Total(f, S) = g[S]
<1> DEFINE P(iter) == iter = [s \in SUBSET S |->
                                 IF s = {} THEN 0
                                 ELSE LET x == CHOOSE x \in s : TRUE IN f[x] + iter[s \ {x}]]
<1>1. Total(f, S) = (CHOOSE iter : P(iter))[S]
  BY Zenon DEF Total, MapThenSumSet, MapThenFoldSet
<1>2. \A g : IsSum(g, f, S) <=> P(g)
  BY DEF IsSum, Picked
<1> HIDE DEF P
<1>3. \E g : P(g)
  BY <1>2, SumExists
<1>4. P(CHOOSE iter : P(iter))
  BY <1>3, Zenon
<1> QED
  BY <1>1, <1>2, <1>4, Zenon
(* There is but one.                                                       *)
LEMMA SumIsUnique ==
  ASSUME NEW S, IsFiniteSet(S), NEW T \in SUBSET S, NEW f, NEW g, NEW h, IsSum(g, f, S), IsSum(h, f, T)
  PROVE  \A U \in SUBSET T : g[U] = h[U]
<1> DEFINE apart == {U \in SUBSET T : g[U] # h[U]}
<1>1. SUFFICES ASSUME apart # {} PROVE FALSE
  OBVIOUS
<1>2. IsFiniteSet(T)
  BY FS_Subset
<1>3. PICK U \in apart : \A x \in U : U \ {x} \notin apart
  BY <1>1, <1>2, SmallestSubset
<1>4. U \in SUBSET S /\ U \in SUBSET T
  OBVIOUS
<1>5. CASE U = {}
  BY <1>4, <1>5 DEF IsSum
<1>6. CASE U # {}
  <2>1. Picked(U) \in U
    BY <1>6, PickedIsIn
  <2>2. g[U \ {Picked(U)}] = h[U \ {Picked(U)}]
    BY <1>3, <2>1
  <2>3. g[U] = f[Picked(U)] + g[U \ {Picked(U)}] /\ h[U] = f[Picked(U)] + h[U \ {Picked(U)}]
    BY <1>4, <1>6 DEF IsSum
  <2> QED
    BY <2>2, <2>3
<1> QED
  BY <1>5, <1>6

LEMMA TotalOfNothing == ASSUME NEW f PROVE Total(f, {}) = 0
<1>1. IsFiniteSet({})
  BY FS_EmptySet
<1>2. PICK g : IsSum(g, f, {}) /\ Total(f, {}) = g[{}]
  BY <1>1, TotalIsSum
<1> QED
  BY <1>2 DEF IsSum

LEMMA TotalWithPicked ==
  ASSUME NEW S, IsFiniteSet(S), S # {}, NEW f
  PROVE  Total(f, S) = f[Picked(S)] + Total(f, S \ {Picked(S)})
<1> DEFINE T == S \ {Picked(S)}
<1>1. IsFiniteSet(T) /\ T \in SUBSET S
  BY FS_Subset
<1>2. PICK g : IsSum(g, f, S) /\ Total(f, S) = g[S]
  BY TotalIsSum
<1>3. PICK h : IsSum(h, f, T) /\ Total(f, T) = h[T]
  BY <1>1, TotalIsSum
<1>4. g[T] = h[T]
  BY <1>1, <1>2, <1>3, SumIsUnique
<1>5. g[S] = f[Picked(S)] + g[T]
  BY <1>2 DEF IsSum
<1> QED
  BY <1>2, <1>3, <1>4, <1>5

(* A sum of integers is an integer, one of naturals a natural.             *)
LEMMA TotalType ==
  ASSUME NEW S, IsFiniteSet(S), NEW f
  PROVE  /\ (\A x \in S : f[x] \in Int) => Total(f, S) \in Int
         /\ (\A x \in S : f[x] \in Nat) => Total(f, S) \in Nat
<1> DEFINE bad == {T \in SUBSET S : \/ (\A x \in S : f[x] \in Int) /\ Total(f, T) \notin Int
                                    \/ (\A x \in S : f[x] \in Nat) /\ Total(f, T) \notin Nat}
<1>1. bad = {}
  <2>1. SUFFICES ASSUME bad # {} PROVE FALSE
    OBVIOUS
  <2>2. PICK T \in bad : \A x \in T : T \ {x} \notin bad
    BY <2>1, SmallestSubset
  <2>3. T # {}
    BY TotalOfNothing
  <2>4. IsFiniteSet(T)
    BY FS_Subset
  <2>5. Picked(T) \in T
    BY <2>3, PickedIsIn
  <2>6. Total(f, T) = f[Picked(T)] + Total(f, T \ {Picked(T)})
    BY <2>3, <2>4, TotalWithPicked
  <2>7. T \ {Picked(T)} \in SUBSET S /\ T \ {Picked(T)} \notin bad
    BY <2>2, <2>5
  <2> QED
    BY <2>5, <2>6, <2>7
<1> QED
  BY <1>1

(* Whichever element is taken first, the sum is the same.                  *)
LEMMA TotalWithOne ==
  ASSUME NEW S, IsFiniteSet(S), NEW f, \A y \in S : f[y] \in Int, NEW z \in S
  PROVE  Total(f, S) = f[z] + Total(f, S \ {z})
<1> DEFINE bad == {T \in SUBSET S : \E x \in T : Total(f, T) # f[x] + Total(f, T \ {x})}
<1>1. SUFFICES ASSUME bad # {} PROVE FALSE
  OBVIOUS
<1>2. PICK T \in bad : \A x \in T : T \ {x} \notin bad
  BY <1>1, SmallestSubset
<1>3. PICK x \in T : Total(f, T) # f[x] + Total(f, T \ {x})
  BY <1>2
<1> DEFINE p == Picked(T)
<1>4. p \in T
  BY <1>3, PickedIsIn
<1>5. \A U \in SUBSET S : IsFiniteSet(U) /\ Total(f, U) \in Int
  <2>1. ASSUME NEW U \in SUBSET S PROVE IsFiniteSet(U) /\ Total(f, U) \in Int
    <3>1. IsFiniteSet(U) /\ \A y \in U : f[y] \in Int
      BY FS_Subset
    <3> QED
      BY <3>1, TotalType
  <2> QED
    BY <2>1
<1>6. Total(f, T) = f[p] + Total(f, T \ {p})
  BY <1>3, <1>5, TotalWithPicked
<1> HIDE DEF p
<1>7. p # x
  BY <1>3, <1>6
<1>8. T \ {p} \in SUBSET S /\ x \in T \ {p} /\ T \ {p} \notin bad
  BY <1>2, <1>4, <1>7
<1>9. Total(f, T \ {p}) = f[x] + Total(f, (T \ {p}) \ {x})
  BY <1>8
<1>10. T \ {x} \in SUBSET S /\ p \in T \ {x} /\ T \ {x} \notin bad
  BY <1>2, <1>3, <1>4, <1>7
<1>11. Total(f, T \ {x}) = f[p] + Total(f, (T \ {x}) \ {p})
  BY <1>10
<1>12. (T \ {p}) \ {x} = (T \ {x}) \ {p} /\ (T \ {x}) \ {p} \in SUBSET S
  OBVIOUS
<1>13. f[p] \in Int /\ f[x] \in Int
  BY <1>3, <1>4
<1>14. Total(f, (T \ {x}) \ {p}) \in Int
  BY <1>5, <1>12
<1> DEFINE rest == Total(f, (T \ {x}) \ {p})
           one == f[p]
           other == f[x]
           without == Total(f, T \ {x})
           whole == Total(f, T)
<1>15. whole = one + (other + rest) /\ without = one + rest
  BY <1>6, <1>9, <1>11, <1>12
<1>16. one \in Int /\ other \in Int /\ rest \in Int /\ whole # other + without
  BY <1>3, <1>13, <1>14
<1> HIDE DEF rest, one, other, without, whole
<1> QED
  BY <1>15, <1>16

LEMMA TotalAdds ==
  ASSUME NEW S, IsFiniteSet(S), NEW f, NEW x, x \notin S, \A y \in S \cup {x} : f[y] \in Int
  PROVE  Total(f, S \cup {x}) = f[x] + Total(f, S)
<1> DEFINE U == S \cup {x}
<1>1. IsFiniteSet(U) /\ U \ {x} = S /\ x \in U /\ U \in SUBSET U /\ \A y \in U : f[y] \in Int
  BY FS_AddElement
<1> HIDE DEF U
<1>3. Total(f, U) = f[x] + Total(f, U \ {x})
  BY <1>1, TotalWithOne
<1> QED
  BY <1>1, <1>3 DEF U

(* Functions that agree on a set have the same sum over it.                *)
LEMMA TotalAgrees ==
  ASSUME NEW S, IsFiniteSet(S), NEW f, NEW g, \A x \in S : f[x] = g[x]
  PROVE  Total(f, S) = Total(g, S)
<1> DEFINE bad == {T \in SUBSET S : Total(f, T) # Total(g, T)}
<1>1. SUFFICES ASSUME bad # {} PROVE FALSE
  OBVIOUS
<1>2. PICK T \in bad : \A x \in T : T \ {x} \notin bad
  BY <1>1, SmallestSubset
<1>3. T # {} /\ IsFiniteSet(T)
  BY TotalOfNothing, FS_Subset
<1>4. Picked(T) \in T
  BY <1>3, PickedIsIn
<1>5. /\ Total(f, T) = f[Picked(T)] + Total(f, T \ {Picked(T)})
      /\ Total(g, T) = g[Picked(T)] + Total(g, T \ {Picked(T)})
  BY <1>3, TotalWithPicked
<1>6. T \ {Picked(T)} \in SUBSET S /\ T \ {Picked(T)} \notin bad
  BY <1>2, <1>4
<1> QED
  BY <1>4, <1>5, <1>6

(* The sum over two sets that share nothing is that of their sums.         *)
LEMMA TotalOfBoth ==
  ASSUME NEW S, IsFiniteSet(S), NEW T, IsFiniteSet(T), S \cap T = {},
         NEW f, \A x \in S \cup T : f[x] \in Int
  PROVE  Total(f, S \cup T) = Total(f, S) + Total(f, T)
<1> DEFINE good == {U \in SUBSET S : Total(f, U \cup T) = Total(f, U) + Total(f, T)}
<1>1. \A U \in SUBSET S : IsFiniteSet(U) /\ IsFiniteSet(U \cup T) /\ Total(f, U) \in Int
                          /\ Total(f, U \cup T) \in Int
  <2> SUFFICES ASSUME NEW U \in SUBSET S
               PROVE  IsFiniteSet(U) /\ IsFiniteSet(U \cup T) /\ Total(f, U) \in Int
                      /\ Total(f, U \cup T) \in Int
    OBVIOUS
  <2>1. IsFiniteSet(U)
    BY FS_Subset
  <2>2. IsFiniteSet(U \cup T)
    BY <2>1, FS_Union
  <2> QED
    BY <2>1, <2>2, TotalType
<1>2. Total(f, T) \in Int
  BY TotalType
<1>3. {} \in good
  <2>1. {} \cup T = T
    OBVIOUS
  <2> QED
    BY <1>2, <2>1, TotalOfNothing
<1>4. ASSUME NEW U \in SUBSET S, NEW x \in S \ U, U \in good PROVE U \cup {x} \in good
  <2>1. (U \cup {x}) \cup T = (U \cup T) \cup {x} /\ x \notin U \cup T /\ U \cup {x} \in SUBSET S
    OBVIOUS
  <2>2. Total(f, (U \cup T) \cup {x}) = f[x] + Total(f, U \cup T)
    BY <1>1, <2>1, TotalAdds
  <2>3. Total(f, U \cup {x}) = f[x] + Total(f, U)
    BY <1>1, TotalAdds
  <2>4. Total(f, U) \in Int /\ f[x] \in Int /\ Total(f, U \cup T) = Total(f, U) + Total(f, T)
    BY <1>1, <1>4
  <2> DEFINE u == Total(f, U)
             t == Total(f, T)
             one == f[x]
  <2>5. Total(f, (U \cup {x}) \cup T) = one + (u + t) /\ Total(f, U \cup {x}) = one + u
    BY <2>1, <2>2, <2>3, <2>4
  <2>6. u \in Int /\ t \in Int /\ one \in Int
    BY <1>2, <2>4
  <2> HIDE DEF u, t, one
  <2>7. one + (u + t) = (one + u) + t
    BY <2>6
  <2>8. Total(f, (U \cup {x}) \cup T) = Total(f, U \cup {x}) + Total(f, T)
    BY <2>5, <2>7 DEF t
  <2> QED
    BY <2>1, <2>8
<1> HIDE DEF good
<1>5. SUBSET S \subseteq good
  BY <1>3, <1>4, SubsetInduction
<1> QED
  BY <1>5 DEF good

(* A sum is no more than that of what is no less.                          *)
LEMMA TotalGrows ==
  ASSUME NEW S, IsFiniteSet(S), NEW f, NEW g,
         \A x \in S : f[x] \in Int /\ g[x] \in Int /\ f[x] <= g[x]
  PROVE  Total(f, S) <= Total(g, S)
<1> DEFINE bad == {T \in SUBSET S : ~(Total(f, T) <= Total(g, T))}
<1>1. SUFFICES ASSUME bad # {} PROVE FALSE
  OBVIOUS
<1>2. PICK T \in bad : \A x \in T : T \ {x} \notin bad
  BY <1>1, SmallestSubset
<1>3. T # {} /\ IsFiniteSet(T)
  <2>1. Total(f, {}) <= Total(g, {})
    BY TotalOfNothing
  <2> QED
    BY <2>1, FS_Subset
<1> DEFINE p == Picked(T)
<1>4. p \in T
  BY <1>3, PickedIsIn
<1>5. Total(f, T) = f[p] + Total(f, T \ {p}) /\ Total(g, T) = g[p] + Total(g, T \ {p})
  BY <1>3, TotalWithPicked
<1> HIDE DEF p
<1>6. T \ {p} \in SUBSET S /\ T \ {p} \notin bad /\ IsFiniteSet(T \ {p})
  BY <1>2, <1>3, <1>4, FS_Subset
<1>7. Total(f, T \ {p}) \in Int /\ Total(g, T \ {p}) \in Int /\ f[p] \in Int /\ g[p] \in Int
  BY <1>4, <1>6, TotalType
<1> QED
  BY <1>4, <1>5, <1>6, <1>7

(* A sum of what is at most n is at most n for each.                       *)
LEMMA TotalAtMost ==
  ASSUME NEW S, IsFiniteSet(S), NEW f, NEW n \in Int, \A x \in S : f[x] \in Int /\ f[x] <= n
  PROVE  Total(f, S) <= n * Cardinality(S)
<1> DEFINE bad == {T \in SUBSET S : ~(Total(f, T) <= n * Cardinality(T))}
<1>1. SUFFICES ASSUME bad # {} PROVE FALSE
  OBVIOUS
<1>2. PICK T \in bad : \A x \in T : T \ {x} \notin bad
  BY <1>1, SmallestSubset
<1>3. T # {} /\ IsFiniteSet(T)
  BY TotalOfNothing, FS_Subset, FS_EmptySet
<1> DEFINE p == Picked(T)
<1>4. p \in T
  BY <1>3, PickedIsIn
<1>5. Total(f, T) = f[p] + Total(f, T \ {p})
  BY <1>3, TotalWithPicked
<1> HIDE DEF p
<1>6. T \ {p} \in SUBSET S /\ T \ {p} \notin bad /\ IsFiniteSet(T \ {p})
  BY <1>2, <1>3, <1>4, FS_Subset
<1>7. Total(f, T \ {p}) \in Int /\ f[p] \in Int
  BY <1>4, <1>6, TotalType
<1>8. Cardinality(T) \in Nat /\ Cardinality(T \ {p}) = Cardinality(T) - 1
  BY <1>3, <1>4, FS_RemoveElement, FS_CardinalityType
<1>9. n * (Cardinality(T) - 1) = n * Cardinality(T) - n
  BY <1>8
<1>10. n * Cardinality(T) \in Int
  BY <1>8
<1> QED
  BY <1>4, <1>5, <1>6, <1>7, <1>8, <1>9, <1>10
(* The sum of the squared distances to y.                                  *)
LEMMA DistancesToOne ==
  ASSUME NEW S, IsFiniteSet(S), NEW f, \A x \in S : f[x] \in Int, NEW y \in Int
  PROVE  Total([x \in S |-> f[x] * f[x]], S) - 2 * (y * Total(f, S)) + Cardinality(S) * (y * y) >= 0
<1> DEFINE q == [x \in S |-> f[x] * f[x]]
           Far(T) == Total(q, T) - 2 * (y * Total(f, T)) + Cardinality(T) * (y * y) >= 0
           far == {T \in SUBSET S : Far(T)}
<1>1. \A x \in S : f[x] \in Int /\ q[x] \in Int /\ q[x] = f[x] * f[x]
  OBVIOUS
<1> HIDE DEF q
<1>2. {} \in far
  BY TotalOfNothing, FS_EmptySet
<1>3. ASSUME NEW T \in SUBSET S, NEW x \in S \ T, T \in far PROVE T \cup {x} \in far
  <2> DEFINE a == Total(q, T)
             s == Total(f, T)
             n == Cardinality(T)
             z == f[x]
  <2>1. IsFiniteSet(T)
    BY FS_Subset
  <2>2. a \in Int /\ s \in Int /\ n \in Nat /\ z \in Int
    BY <1>1, <2>1, TotalType, FS_CardinalityType
  <2>3. /\ Total(q, T \cup {x}) = z * z + a /\ Total(f, T \cup {x}) = z + s
        /\ Cardinality(T \cup {x}) = n + 1
    <3>1. x \notin T /\ \A w \in T \cup {x} : q[w] \in Int /\ f[w] \in Int
      BY <1>1
    <3>2. Total(q, T \cup {x}) = q[x] + a
      BY <2>1, <3>1, TotalAdds
    <3>3. Total(f, T \cup {x}) = z + s
      BY <2>1, <3>1, TotalAdds
    <3>4. Cardinality(T \cup {x}) = n + 1
      BY <2>1, <3>1, FS_AddElement
    <3> QED
      BY <1>1, <3>2, <3>3, <3>4
  <2>4. a - 2 * (y * s) + n * (y * y) >= 0
    BY <1>3
  <2> HIDE DEF a, s, n, z
  <2>5. (z - y) * (z - y) >= 0
    BY <2>2
  <2>6. (z - y) * (z - y) = z * z - 2 * (y * z) + y * y
    BY <2>2
  <2>7. y * (z + s) = y * z + y * s /\ (n + 1) * (y * y) = n * (y * y) + y * y
    BY <2>2
  <2>8. /\ z * z \in Int /\ y * z \in Int /\ y * s \in Int /\ y * y \in Int /\ n * (y * y) \in Int
    BY <2>2
  <2>9. (z * z + a) - 2 * (y * (z + s)) + (n + 1) * (y * y) >= 0
    BY <2>2, <2>4, <2>5, <2>6, <2>7, <2>8
  <2>10. Far(T \cup {x})
    BY <2>3, <2>9
  <2> QED
    BY <2>10
<1> HIDE DEF far
<1>4. SUBSET S \subseteq far
  BY <1>2, <1>3, SubsetInduction
<1>5. Far(S)
  BY <1>4 DEF far
<1> QED
  BY <1>5 DEF q

(* No variance is negative: the square of a sum is at most as many times   *)
(* the sum of the squares as there are terms.                              *)
LEMMA SquareOfTotal ==
  ASSUME NEW S, IsFiniteSet(S), NEW f, \A x \in S : f[x] \in Int
  PROVE  Cardinality(S) * Total([x \in S |-> f[x] * f[x]], S) - Total(f, S) * Total(f, S) >= 0
<1> DEFINE q == [x \in S |-> f[x] * f[x]]
           Fits(T) == Cardinality(T) * Total(q, T) - Total(f, T) * Total(f, T) >= 0
           fit == {T \in SUBSET S : Fits(T)}
<1>1. \A x \in S : f[x] \in Int /\ q[x] \in Int /\ q[x] = f[x] * f[x]
  OBVIOUS
<1>2. ASSUME NEW T \in SUBSET S, NEW y \in Int
      PROVE  Total(q, T) - 2 * (y * Total(f, T)) + Cardinality(T) * (y * y) >= 0
  <2> DEFINE r == [x \in T |-> f[x] * f[x]]
  <2>1. IsFiniteSet(T)
    BY FS_Subset
  <2>2. Total(r, T) - 2 * (y * Total(f, T)) + Cardinality(T) * (y * y) >= 0
    BY <2>1, DistancesToOne
  <2>3. \A x \in T : r[x] = q[x]
    OBVIOUS
  <2> HIDE DEF r, q
  <2>4. Total(r, T) = Total(q, T)
    BY <2>1, <2>3, TotalAgrees
  <2> QED
    BY <2>2, <2>4
<1> HIDE DEF q
<1>3. {} \in fit
  BY TotalOfNothing, FS_EmptySet
<1>4. ASSUME NEW T \in SUBSET S, NEW x \in S \ T, T \in fit PROVE T \cup {x} \in fit
  <2> DEFINE a == Total(q, T)
             s == Total(f, T)
             n == Cardinality(T)
             z == f[x]
  <2>1. IsFiniteSet(T)
    BY FS_Subset
  <2>2. a \in Int /\ s \in Int /\ n \in Nat /\ z \in Int
    BY <1>1, <2>1, TotalType, FS_CardinalityType
  <2>3. /\ Total(q, T \cup {x}) = z * z + a /\ Total(f, T \cup {x}) = z + s
        /\ Cardinality(T \cup {x}) = n + 1
    <3>1. x \notin T /\ \A w \in T \cup {x} : q[w] \in Int /\ f[w] \in Int
      BY <1>1
    <3>2. Total(q, T \cup {x}) = q[x] + a
      BY <2>1, <3>1, TotalAdds
    <3>3. Total(f, T \cup {x}) = z + s
      BY <2>1, <3>1, TotalAdds
    <3>4. Cardinality(T \cup {x}) = n + 1
      BY <2>1, <3>1, FS_AddElement
    <3> QED
      BY <1>1, <3>2, <3>3, <3>4
  <2>4. n * a - s * s >= 0 /\ a - 2 * (z * s) + n * (z * z) >= 0
    BY <1>2, <1>4, <2>2
  <2> HIDE DEF a, s, n, z
  <2>5. /\ (n + 1) * (z * z + a) = n * (z * z) + z * z + n * a + a
        /\ (z + s) * (z + s) = z * z + 2 * (z * s) + s * s
    BY <2>2
  <2>6. /\ z * z \in Int /\ z * s \in Int /\ s * s \in Int /\ n * a \in Int /\ n * (z * z) \in Int
    BY <2>2
  <2>7. (n + 1) * (z * z + a) - (z + s) * (z + s) >= 0
    BY <2>2, <2>4, <2>5, <2>6
  <2>8. Fits(T \cup {x})
    BY <2>3, <2>7
  <2> QED
    BY <2>8
<1> HIDE DEF fit
<1>5. SUBSET S \subseteq fit
  BY <1>3, <1>4, SubsetInduction
<1>6. Fits(S)
  BY <1>5 DEF fit
<1> QED
  BY <1>6 DEF q
LEMMA MaxOfTwo ==
  \A a, b \in Int : Max({a, b}) \in Int /\ Max({a, b}) = IF a >= b THEN a ELSE b
<1> SUFFICES ASSUME NEW a \in Int, NEW b \in Int
             PROVE  Max({a, b}) = IF a >= b THEN a ELSE b
  OBVIOUS
<1>1. \E x \in {a, b} : \A y \in {a, b} : x >= y
  OBVIOUS
<1>2. Max({a, b}) \in {a, b} /\ \A y \in {a, b} : Max({a, b}) >= y
  BY <1>1 DEF Max
<1> QED
  BY <1>2

LEMMA MinOfTwo ==
  \A a, b \in Int : Min({a, b}) \in Int /\ Min({a, b}) = IF a <= b THEN a ELSE b
<1> SUFFICES ASSUME NEW a \in Int, NEW b \in Int
             PROVE  Min({a, b}) = IF a <= b THEN a ELSE b
  OBVIOUS
<1>1. \E x \in {a, b} : \A y \in {a, b} : x <= y
  OBVIOUS
<1>2. Min({a, b}) \in {a, b} /\ \A y \in {a, b} : Min({a, b}) <= y
  BY <1>1 DEF Min
<1> QED
  BY <1>2

(* What a function takes a finite set to is finite.                         *)
LEMMA ImageIsFinite ==
  ASSUME NEW f, IsFiniteSet(DOMAIN f)
  PROVE  /\ IsFiniteSet({f[x] : x \in DOMAIN f})
         /\ Cardinality({f[x] : x \in DOMAIN f}) <= Cardinality(DOMAIN f)
<1> DEFINE T == {f[x] : x \in DOMAIN f}
           g == [x \in DOMAIN f |-> f[x]]
<1>1. g \in Surjection(DOMAIN f, T)
  BY DEF Surjection
<1> QED
  BY <1>1, FS_Surjection

(* What is counted part by part is all that there is.                      *)
OfPart(S, part, d) == {x \in S : part[x] = d}
LEMMA CountedByPart ==
  ASSUME NEW S, IsFiniteSet(S), NEW D, IsFiniteSet(D), NEW part, \A x \in S : part[x] \in D,
         NEW count, \A d \in D : count[d] = Cardinality(OfPart(S, part, d))
  PROVE  Total(count, D) = Cardinality(S)
<1> DEFINE In(E) == {x \in S : part[x] \in E}
           good == {E \in SUBSET D : Total(count, E) = Cardinality(In(E))}
<1>1. {} \in good
  BY TotalOfNothing, FS_EmptySet
<1>2. ASSUME NEW E \in SUBSET D, NEW d \in D \ E, E \in good PROVE E \cup {d} \in good
  <2>1. /\ IsFiniteSet(E) /\ IsFiniteSet(In(E)) /\ IsFiniteSet(OfPart(S, part, d))
        /\ Cardinality(In(E)) \in Nat /\ Cardinality(OfPart(S, part, d)) \in Nat
    BY FS_Subset, FS_CardinalityType DEF OfPart
  <2>2. d \notin E /\ \A e \in E \cup {d} : count[e] \in Int
    <3>1. \A e \in D : IsFiniteSet(OfPart(S, part, e))
      BY FS_Subset DEF OfPart
    <3>2. \A e \in D : Cardinality(OfPart(S, part, e)) \in Nat
      BY <3>1, FS_CardinalityType
    <3> QED
      BY <3>2
  <2>3. Total(count, E \cup {d}) = count[d] + Total(count, E)
    BY <2>1, <2>2, TotalAdds
  <2>4. In(E \cup {d}) = In(E) \cup OfPart(S, part, d) /\ In(E) \cap OfPart(S, part, d) = {}
    BY DEF OfPart
  <2> HIDE DEF In
  <2>5. Cardinality(In(E) \cup OfPart(S, part, d)) = Cardinality(In(E)) + Cardinality(OfPart(S, part, d))
    <3>1. Cardinality(In(E) \cup OfPart(S, part, d)) =
              Cardinality(In(E)) + Cardinality(OfPart(S, part, d)) - Cardinality(In(E) \cap OfPart(S, part, d))
      BY <2>1, FS_Union
    <3>2. Cardinality(In(E) \cap OfPart(S, part, d)) = 0
      BY <2>4, FS_EmptySet
    <3> DEFINE a == Cardinality(In(E))
               b == Cardinality(OfPart(S, part, d))
               u == Cardinality(In(E) \cup OfPart(S, part, d))
    <3>3. a \in Nat /\ b \in Nat /\ u = a + b - 0
      BY <2>1, <3>1, <3>2
    <3> HIDE DEF a, b, u
    <3>4. u = a + b
      BY <3>3
    <3> QED
      BY <3>4 DEF a, b, u
  <2>6. count[d] = Cardinality(OfPart(S, part, d)) /\ Total(count, E) = Cardinality(In(E))
    BY <1>2 DEF In
  <2>7. Total(count, E \cup {d}) = Cardinality(In(E \cup {d}))
    <3> DEFINE a == Cardinality(In(E))
               b == Cardinality(OfPart(S, part, d))
    <3>1. a \in Nat /\ b \in Nat /\ Total(count, E \cup {d}) = b + a
      BY <2>1, <2>3, <2>6
    <3>2. Cardinality(In(E \cup {d})) = a + b
      BY <2>4, <2>5
    <3> HIDE DEF a, b
    <3>3. b + a = a + b
      BY <3>1
    <3> QED
      BY <3>1, <3>2, <3>3
  <2> QED
    BY <2>7
<1> HIDE DEF good
<1>3. SUBSET D \subseteq good
  BY <1>1, <1>2, SubsetInduction
<1>4. D \in good
  BY <1>3
<1>5. In(D) = S
  OBVIOUS
<1> QED
  BY <1>4, <1>5 DEF good

(* A finite set of integers has a least element, and the community modules'*)
(* Min is that.                                                            *)
LEMMA FirstOfInstants ==
  ASSUME NEW S \in SUBSET Int, IsFiniteSet(S), S # {}
  PROVE  \E x \in S : \A y \in S : x <= y
<1> DEFINE HasFirst(T) == \E x \in T : \A y \in T : x <= y
           B == {n \in Nat : \E T \in SUBSET S : T # {} /\ Cardinality(T) = n /\ ~HasFirst(T)}
<1>1. SUFFICES ASSUME ~HasFirst(S) PROVE FALSE
  OBVIOUS
<1>2. Cardinality(S) \in B
  BY <1>1, FS_CardinalityType
<1>3. PICK n \in B : \A m \in B : n <= m
  BY <1>2, LeastOfNaturals
<1>4. PICK T \in SUBSET S : T # {} /\ Cardinality(T) = n /\ ~HasFirst(T)
  BY <1>3
<1>5. PICK t \in T : TRUE
  BY <1>4
<1>6. IsFiniteSet(T)
  BY FS_Subset
<1>7. /\ IsFiniteSet(T \ {t}) /\ Cardinality(T \ {t}) = n - 1
      /\ Cardinality(T \ {t}) \in Nat
  BY <1>4, <1>5, <1>6, FS_RemoveElement, FS_CardinalityType
<1>8. CASE T \ {t} = {}
  <2>1. T = {t}
    BY <1>5, <1>8
  <2>2. HasFirst(T)
    BY <2>1, <1>5
  <2> QED
    BY <2>2, <1>4
<1>9. CASE T \ {t} # {}
  <2>1. n \in Nat /\ n - 1 \notin B
    BY <1>3
  <2>2. HasFirst(T \ {t})
    BY <1>7, <1>9, <2>1
  <2>3. PICK u \in T \ {t} : \A y \in T \ {t} : u <= y
    BY <2>2
  <2>4. t \in Int /\ u \in Int /\ \A y \in T : y \in Int
    BY <1>5, <2>3
  <2>5. CASE u <= t
    <3>1. \A y \in T : u <= y
      BY <2>3, <2>5
    <3> QED
      BY <3>1, <1>4
  <2>6. CASE ~(u <= t)
    <3>1. \A y \in T : t <= y
      BY <2>3, <2>4, <2>6
    <3> QED
      BY <3>1, <1>4, <1>5
  <2> QED
    BY <2>5, <2>6
<1> QED
  BY <1>8, <1>9

LEMMA LeastInstant ==
  ASSUME NEW S \in SUBSET Int, IsFiniteSet(S), S # {}
  PROVE  Min(S) \in S /\ \A y \in S : Min(S) <= y
  BY FirstOfInstants DEF Min

LEMMA SumOverIsTotal == ASSUME NEW f PROVE SumOver(f) = Total(f, DOMAIN f)
BY DEF SumOver, Total

(* The sum of a combination is that of the sums.                           *)
LEMMA TotalCombines ==
  ASSUME NEW S, IsFiniteSet(S), NEW f, NEW g, \A x \in S : f[x] \in Int /\ g[x] \in Int,
         NEW a \in Int, NEW b \in Int, NEW h, \A x \in S : h[x] = a * f[x] + b * g[x]
  PROVE  Total(h, S) = a * Total(f, S) + b * Total(g, S)
<1> DEFINE good == {T \in SUBSET S : Total(h, T) = a * Total(f, T) + b * Total(g, T)}
<1>1. {} \in good
  BY TotalOfNothing
<1>2. ASSUME NEW T \in SUBSET S, NEW x \in S \ T, T \in good PROVE T \cup {x} \in good
  <2> DEFINE u == Total(f, T)
             v == Total(g, T)
             w == Total(h, T)
             y == f[x]
             z == g[x]
  <2>1. IsFiniteSet(T)
    BY FS_Subset
  <2>2. x \notin T /\ \A t \in T \cup {x} : f[t] \in Int /\ g[t] \in Int /\ h[t] \in Int
    OBVIOUS
  <2>3. u \in Int /\ v \in Int
    BY <2>1, <2>2, TotalType
  <2>4. /\ Total(f, T \cup {x}) = y + u
        /\ Total(g, T \cup {x}) = z + v
        /\ Total(h, T \cup {x}) = h[x] + w
    BY <2>1, <2>2, TotalAdds
  <2>5. y \in Int /\ z \in Int /\ w = a * u + b * v /\ h[x] = a * y + b * z
    BY <1>2, <2>2
  <2> HIDE DEF u, v, w, y, z
  <2>6. /\ a * (y + u) = a * y + a * u /\ b * (z + v) = b * z + b * v
        /\ a * y \in Int /\ a * u \in Int /\ b * z \in Int /\ b * v \in Int
    BY <2>3, <2>5
  <2>7. h[x] + w = a * (y + u) + b * (z + v)
    BY <2>5, <2>6
  <2> QED
    BY <2>4, <2>7
<1> HIDE DEF good
<1>3. SUBSET S \subseteq good
  BY <1>1, <1>2, SubsetInduction
<1> QED
  BY <1>3 DEF good

(* As many times the same.                                                 *)
LEMMA TotalOfSame ==
  ASSUME NEW S, IsFiniteSet(S), NEW f, NEW c \in Int, \A x \in S : f[x] = c
  PROVE  Total(f, S) = c * Cardinality(S)
<1> DEFINE good == {T \in SUBSET S : Total(f, T) = c * Cardinality(T)}
<1>1. {} \in good
  BY TotalOfNothing, FS_EmptySet
<1>2. ASSUME NEW T \in SUBSET S, NEW x \in S \ T, T \in good PROVE T \cup {x} \in good
  <2> DEFINE n == Cardinality(T)
  <2>1. IsFiniteSet(T)
    BY FS_Subset
  <2>2. x \notin T /\ \A t \in T \cup {x} : f[t] \in Int
    OBVIOUS
  <2>3. Total(f, T \cup {x}) = f[x] + Total(f, T)
    BY <2>1, <2>2, TotalAdds
  <2>5. f[x] = c /\ n \in Nat /\ Cardinality(T \cup {x}) = n + 1
    BY <2>1, <2>2, FS_AddElement, FS_CardinalityType
  <2>4. Total(f, T) = c * n
    BY <1>2
  <2> HIDE DEF n
  <2>6. c + c * n = c * (n + 1)
    BY <2>5
  <2> QED
    BY <2>3, <2>4, <2>5, <2>6
<1> HIDE DEF good
<1>3. SUBSET S \subseteq good
  BY <1>1, <1>2, SubsetInduction
<1> QED
  BY <1>3 DEF good

(* The sum over a single element.                                         *)
LEMMA TotalOfOne == ASSUME NEW f, NEW x, f[x] \in Int PROVE Total(f, {x}) = f[x]
<1>1. IsFiniteSet({x}) /\ (\A y \in {x} : f[y] \in Int) /\ {x} \ {x} = {}
  BY FS_Singleton
<1>2. Total(f, {x}) = f[x] + Total(f, {x} \ {x})
  BY <1>1, TotalWithOne
<1>3. Total(f, {x}) = f[x] + 0
  BY <1>1, <1>2, TotalOfNothing
<1> QED
  BY <1>3

(* A sum of naturals is no less than that over a part of the set, and 0    *)
(* only when they all are.                                                 *)
LEMMA TotalOfMore ==
  ASSUME NEW S, IsFiniteSet(S), NEW f, \A x \in S : f[x] \in Nat, NEW T \in SUBSET S
  PROVE  Total(f, T) \in Nat /\ Total(f, S) \in Nat /\ Total(f, T) <= Total(f, S)
<1>1. /\ IsFiniteSet(T) /\ IsFiniteSet(S \ T) /\ T \cap (S \ T) = {} /\ T \cup (S \ T) = S
      /\ \A x \in T \cup (S \ T) : f[x] \in Int
  BY FS_Subset
<1>2. Total(f, T \cup (S \ T)) = Total(f, T) + Total(f, S \ T)
  BY <1>1, TotalOfBoth
<1>3. Total(f, T) \in Nat /\ Total(f, S \ T) \in Nat /\ Total(f, S) \in Nat
  BY <1>1, TotalType
<1> QED
  BY <1>1, <1>2, <1>3

LEMMA TotalIsNothing ==
  ASSUME NEW S, IsFiniteSet(S), NEW f, \A x \in S : f[x] \in Nat
  PROVE  Total(f, S) = 0 <=> \A x \in S : f[x] = 0
<1>1. ASSUME Total(f, S) = 0, NEW x \in S PROVE f[x] = 0
  <2>1. Total(f, {x}) \in Nat /\ Total(f, {x}) <= 0
    BY <1>1, TotalOfMore
  <2>2. f[x] \in Nat /\ f[x] \in Int
    OBVIOUS
  <2>3. Total(f, {x}) = f[x]
    BY <2>2, TotalOfOne
  <2> QED
    BY <2>1, <2>2, <2>3
<1>2. ASSUME \A x \in S : f[x] = 0 PROVE Total(f, S) = 0
  <2>1. Total(f, S) = 0 * Cardinality(S)
    BY <1>2, TotalOfSame
  <2>2. Cardinality(S) \in Nat
    BY FS_CardinalityType
  <2> QED
    BY <2>1, <2>2
<1> QED
  BY <1>1, <1>2

(* What is added up part by part is the whole sum.                         *)
LEMMA TotalByPart ==
  ASSUME NEW S, IsFiniteSet(S), NEW D, IsFiniteSet(D), NEW part, \A x \in S : part[x] \in D,
         NEW f, \A x \in S : f[x] \in Int,
         NEW sum, \A d \in D : sum[d] = Total(f, OfPart(S, part, d))
  PROVE  Total(sum, D) = Total(f, S)
<1> DEFINE In(E) == {x \in S : part[x] \in E}
           good == {E \in SUBSET D : Total(sum, E) = Total(f, In(E))}
<1>1. {} \in good
  <2>1. In({}) = {}
    OBVIOUS
  <2> QED
    BY <2>1, TotalOfNothing
<1>2. ASSUME NEW E \in SUBSET D, NEW d \in D \ E, E \in good PROVE E \cup {d} \in good
  <2>1. /\ IsFiniteSet(E) /\ IsFiniteSet(In(E)) /\ IsFiniteSet(OfPart(S, part, d))
    BY FS_Subset DEF OfPart
  <2>2. d \notin E /\ \A e \in E \cup {d} : sum[e] \in Int
    <3>1. \A e \in D : IsFiniteSet(OfPart(S, part, e)) /\ \A x \in OfPart(S, part, e) : f[x] \in Int
      BY FS_Subset DEF OfPart
    <3>2. \A e \in D : Total(f, OfPart(S, part, e)) \in Int
      BY <3>1, TotalType
    <3> QED
      BY <3>2
  <2>3. Total(sum, E \cup {d}) = sum[d] + Total(sum, E)
    BY <2>1, <2>2, TotalAdds
  <2>4. /\ In(E \cup {d}) = In(E) \cup OfPart(S, part, d) /\ In(E) \cap OfPart(S, part, d) = {}
        /\ \A x \in In(E) \cup OfPart(S, part, d) : f[x] \in Int
    BY DEF OfPart
  <2>5. Total(sum, E) = Total(f, In(E)) /\ sum[d] = Total(f, OfPart(S, part, d))
    BY <1>2
  <2> HIDE DEF In
  <2>6. Total(f, In(E) \cup OfPart(S, part, d)) = Total(f, In(E)) + Total(f, OfPart(S, part, d))
    BY <2>1, <2>4, TotalOfBoth
  <2>7. Total(f, In(E)) \in Int /\ Total(f, OfPart(S, part, d)) \in Int
    BY <2>1, <2>4, TotalType
  <2> DEFINE a == Total(f, In(E))
             b == Total(f, OfPart(S, part, d))
  <2>8. /\ a \in Int /\ b \in Int /\ Total(sum, E \cup {d}) = b + a
        /\ Total(f, In(E \cup {d})) = a + b
    BY <2>3, <2>4, <2>5, <2>6, <2>7
  <2> HIDE DEF a, b
  <2>9. b + a = a + b
    BY <2>8
  <2>10. Total(sum, E \cup {d}) = Total(f, In(E \cup {d}))
    BY <2>8, <2>9
  <2> QED
    BY <2>10 DEF In
<1> HIDE DEF good
<1>3. SUBSET D \subseteq good
  BY <1>1, <1>2, SubsetInduction
<1>4. D \in good
  BY <1>3
<1>5. In(D) = S
  OBVIOUS
<1> QED
  BY <1>4, <1>5 DEF good

(* The sum is the same under other names.                                  *)
LEMMA TotalRenamed ==
  ASSUME NEW S, IsFiniteSet(S), NEW f, \A x \in S : f[x] \in Int,
         NEW h, DOMAIN h = S, \A x, y \in S : h[x] = h[y] => x = y,
         NEW g, \A x \in S : g[h[x]] = f[x]
  PROVE  Total(g, {h[x] : x \in S}) = Total(f, S)
<1> DEFINE D == {h[x] : x \in S}
<1>1. IsFiniteSet(D)
  BY ImageIsFinite
<1>2. \A x \in S : h[x] \in D
  OBVIOUS
<1>3. \A d \in D : g[d] = Total(f, OfPart(S, h, d))
  <2> SUFFICES ASSUME NEW x \in S PROVE g[h[x]] = Total(f, OfPart(S, h, h[x]))
    OBVIOUS
  <2>1. OfPart(S, h, h[x]) = {x}
    BY DEF OfPart
  <2>2. Total(f, {x}) = f[x]
    BY TotalOfOne
  <2> QED
    BY <2>1, <2>2
<1> HIDE DEF D
<1>4. Total(g, D) = Total(f, S)
  BY <1>1, <1>2, <1>3, TotalByPart
<1> QED
  BY <1>4 DEF D

(* And a greatest.                                                         *)
LEMMA LastOfInstants ==
  ASSUME NEW S \in SUBSET Int, IsFiniteSet(S), S # {}
  PROVE  \E x \in S : \A y \in S : y <= x
<1> DEFINE minus == [x \in S |-> 0 - x]
           T == {minus[x] : x \in S}
<1>1. DOMAIN minus = S /\ \A x \in S : minus[x] = 0 - x /\ x \in Int
  OBVIOUS
<1> HIDE DEF minus
<1>2. IsFiniteSet(T)
  BY <1>1, ImageIsFinite
<1>3. T \in SUBSET Int /\ T # {}
  BY <1>1
<1> HIDE DEF T
<1>4. PICK t \in T : \A u \in T : t <= u
  BY <1>2, <1>3, FirstOfInstants
<1>5. PICK x \in S : t = minus[x]
  BY DEF T
<1>6. ASSUME NEW y \in S PROVE y <= x
  <2>1. minus[y] \in T
    BY DEF T
  <2>2. minus[x] <= minus[y]
    BY <1>4, <1>5, <2>1
  <2> QED
    BY <1>1, <2>2
<1> QED
  BY <1>6

(* There is a value for each place.                                        *)
LEMMA AscendingIs ==
  ASSUME NEW f, IsFiniteSet(DOMAIN f), \A k \in DOMAIN f : f[k] \in Int,
         NEW i \in 1..Cardinality(DOMAIN f)
  PROVE  /\ Ascending(f)[i] \in {f[k] : k \in DOMAIN f}
         /\ Ascending(f)[i] \in Int
         /\ Cardinality(Below(f, Ascending(f)[i])) < i
         /\ i <= Cardinality(UpTo(f, Ascending(f)[i]))
<1> DEFINE image == {f[k] : k \in DOMAIN f}
           n == Cardinality(DOMAIN f)
           some == {v \in image : i <= Cardinality(UpTo(f, v))}
<1>1. IsFiniteSet(image) /\ image \in SUBSET Int
  BY ImageIsFinite
<1>2. n \in Nat /\ i \in Nat /\ 1 <= i /\ i <= n
  BY FS_CardinalityType
<1>3. \A v : IsFiniteSet(UpTo(f, v)) /\ IsFiniteSet(Below(f, v))
  BY FS_Subset DEF UpTo, Below
<1>4. \A v : Cardinality(UpTo(f, v)) \in Nat /\ Cardinality(Below(f, v)) \in Nat
  BY <1>3, FS_CardinalityType
<1>5. some # {}
  <2>1. DOMAIN f # {}
    BY <1>2, FS_EmptySet
  <2>2. image # {}
    BY <2>1
  <2> HIDE DEF image
  <2>3. PICK v \in image : \A w \in image : w <= v
    BY <1>1, <2>2, LastOfInstants
  <2>4. UpTo(f, v) = DOMAIN f
    BY <2>3 DEF UpTo, image
  <2> QED
    BY <1>2, <2>3, <2>4
<1>6. IsFiniteSet(some) /\ some \in SUBSET Int
  BY <1>1, FS_Subset
<1>7. PICK v \in some : \A w \in some : v <= w
  <2> HIDE DEF some
  <2> QED
    BY <1>5, <1>6, FirstOfInstants
<1>8. v \in image /\ v \in Int /\ i <= Cardinality(UpTo(f, v))
  BY <1>1
<1>9. Cardinality(Below(f, v)) < i
  <2> DEFINE lower == {w \in image : w < v}
  <2>1. CASE lower = {}
    <3>1. Below(f, v) = {}
      BY <2>1 DEF Below
    <3> QED
      BY <1>2, <3>1, FS_EmptySet
  <2>2. CASE lower # {}
    <3>1. IsFiniteSet(lower) /\ lower \in SUBSET Int
      BY <1>1, FS_Subset
    <3>2. PICK u \in lower : \A w \in lower : w <= u
      <4> HIDE DEF lower
      <4> QED
        BY <2>2, <3>1, LastOfInstants
    <3>3. u \in image /\ u \in Int /\ u < v /\ \A w \in image : w < v => w <= u
      BY <1>1, <3>2
    <3>4. ~(i <= Cardinality(UpTo(f, u)))
      BY <1>7, <1>8, <3>3
    <3>5. Below(f, v) = UpTo(f, u)
      BY <1>8, <3>3 DEF Below, UpTo
    <3> QED
      BY <1>2, <1>4, <3>4, <3>5
  <2> QED
    BY <2>1, <2>2
<1>10. Ascending(f)[i] = CHOOSE w \in image : Cardinality(Below(f, w)) < i /\ i <= Cardinality(UpTo(f, w))
  BY DEF Ascending
<1>11. /\ Ascending(f)[i] \in image /\ Cardinality(Below(f, Ascending(f)[i])) < i
       /\ i <= Cardinality(UpTo(f, Ascending(f)[i]))
  <2> HIDE DEF image
  <2> QED
    BY <1>8, <1>9, <1>10
<1> QED
  BY <1>1, <1>11

LEMMA AscendingGrows ==
  ASSUME NEW f, IsFiniteSet(DOMAIN f), \A k \in DOMAIN f : f[k] \in Int,
         NEW i \in 1..Cardinality(DOMAIN f), NEW j \in 1..Cardinality(DOMAIN f), i <= j
  PROVE  Ascending(f)[i] <= Ascending(f)[j]
<1> DEFINE v == Ascending(f)[i]
           w == Ascending(f)[j]
           a == Cardinality(Below(f, v))
           b == Cardinality(UpTo(f, w))
<1>1. SUFFICES ASSUME ~(v <= w) PROVE FALSE
  OBVIOUS
<1>2. v \in Int /\ w \in Int /\ a < i /\ j <= b
  BY AscendingIs
<1>3. IsFiniteSet(Below(f, v)) /\ IsFiniteSet(UpTo(f, w))
  BY FS_Subset DEF Below, UpTo
<1>4. UpTo(f, w) \subseteq Below(f, v)
  <2> HIDE DEF v, w
  <2> QED
    BY <1>1, <1>2 DEF Below, UpTo
<1>5. a \in Nat /\ b \in Nat /\ b <= a
  BY <1>3, <1>4, FS_Subset, FS_CardinalityType
<1>6. i \in Int /\ j \in Int
  OBVIOUS
<1> HIDE DEF a, b
<1> QED
  BY <1>2, <1>5, <1>6

(* The elements of a set, each at one place.                               *)
Itself(S) == [m \in S |-> m]
LEMMA AscendingOfSet ==
  ASSUME NEW S \in SUBSET Int, IsFiniteSet(S)
  PROVE  /\ DOMAIN Ascending(Itself(S)) = 1..Cardinality(S)
         /\ \A i, j \in 1..Cardinality(S) : i < j => Ascending(Itself(S))[i] < Ascending(Itself(S))[j]
         /\ {Ascending(Itself(S))[i] : i \in 1..Cardinality(S)} = S
<1> DEFINE f == Itself(S)
           s == Ascending(f)
           n == Cardinality(S)
<1>1. DOMAIN f = S /\ \A k \in S : f[k] = k /\ k \in Int
  BY DEF Itself
<1> HIDE DEF f
<1>0. /\ \A v : \A k : k \in UpTo(f, v) <=> k \in S /\ k <= v
      /\ \A v : \A k : k \in Below(f, v) <=> k \in S /\ k < v
  BY <1>1 DEF UpTo, Below
<1>2. DOMAIN s = 1..n
  BY <1>1 DEF Ascending
<1>3. n \in Nat /\ \A i \in 1..n : i \in Int
  BY FS_CardinalityType
<1>4. \A i \in 1..n : /\ s[i] \in S /\ s[i] \in Int
                      /\ Cardinality(Below(f, s[i])) < i /\ i <= Cardinality(UpTo(f, s[i]))
  BY <1>1, AscendingIs
<1>5. \A i, j \in 1..n : i <= j => s[i] <= s[j]
  BY <1>1, AscendingGrows
<1>6. \A v : /\ IsFiniteSet(UpTo(f, v)) /\ IsFiniteSet(Below(f, v))
             /\ UpTo(f, v) \in SUBSET S /\ Below(f, v) \in SUBSET S
  BY <1>1, FS_Subset DEF UpTo, Below
<1>7. \A v : Cardinality(UpTo(f, v)) \in Nat /\ Cardinality(Below(f, v)) \in Nat
  BY <1>6, FS_CardinalityType
<1>8. ASSUME NEW v \in S PROVE Cardinality(UpTo(f, v)) = Cardinality(Below(f, v)) + 1
  <2>1. v \in S /\ v \in Int /\ v <= v /\ ~(v < v)
    BY <1>1
  <2>2. v \in UpTo(f, v) /\ v \notin Below(f, v)
    BY <1>0, <2>1
  <2>3. ASSUME NEW k, k # v PROVE k \in UpTo(f, v) <=> k \in Below(f, v)
    <3>1. k \in S => (k <= v <=> k < v)
      BY <1>1, <2>1, <2>3
    <3> QED
      BY <1>0, <3>1
  <2>4. UpTo(f, v) = Below(f, v) \cup {v} /\ v \notin Below(f, v)
    BY <2>2, <2>3
  <2> QED
    BY <1>6, <2>4, FS_AddElement
<1>9. ASSUME NEW i \in 1..n, NEW j \in 1..n, i < j PROVE s[i] < s[j]
  <2>1. SUFFICES ASSUME s[i] = s[j] PROVE FALSE
    BY <1>3, <1>4, <1>5, <1>9
  <2> DEFINE a == Cardinality(Below(f, s[i]))
             b == Cardinality(UpTo(f, s[i]))
  <2>2. a \in Nat /\ b \in Nat /\ b = a + 1 /\ a < i /\ j <= b
    BY <1>4, <1>7, <1>8, <2>1
  <2>3. i \in Int /\ j \in Int
    OBVIOUS
  <2> HIDE DEF a, b
  <2> QED
    BY <1>9, <2>2, <2>3
<1>10. ASSUME NEW v \in S PROVE \E i \in 1..n : s[i] = v
  <2> DEFINE i == Cardinality(UpTo(f, v))
             b == Cardinality(Below(f, v))
  <2>1. i \in Nat /\ b \in Nat /\ i = b + 1
    BY <1>7, <1>8
  <2>2. i <= n
    BY <1>6, FS_Subset
  <2> HIDE DEF i, b
  <2>3. i \in 1..n
    BY <1>3, <2>1, <2>2
  <2> DEFINE w == s[i]
             x == Cardinality(Below(f, w))
             y == Cardinality(UpTo(f, w))
  <2>4. w \in S /\ w \in Int /\ v \in Int /\ x < i /\ i <= y /\ x \in Nat /\ y \in Nat
    BY <1>4, <1>7, <2>3
  <2> HIDE DEF w, x, y, s
  <2>5. ASSUME w < v PROVE FALSE
    <3>1. UpTo(f, w) \subseteq Below(f, v)
      <4> SUFFICES ASSUME NEW k \in UpTo(f, w) PROVE k \in Below(f, v)
        OBVIOUS
      <4>1. k \in S /\ k <= w
        BY <1>0
      <4>2. k \in Int /\ k < v
        BY <1>1, <2>4, <2>5, <4>1
      <4> QED
        BY <1>0, <4>1, <4>2
    <3>2. y <= b
      BY <1>6, <3>1, FS_Subset DEF y, b
    <3> QED
      BY <2>1, <2>4, <3>2
  <2>6. ASSUME v < w PROVE FALSE
    <3>1. UpTo(f, v) \subseteq Below(f, w)
      <4> SUFFICES ASSUME NEW k \in UpTo(f, v) PROVE k \in Below(f, w)
        OBVIOUS
      <4>1. k \in S /\ k <= v
        BY <1>0
      <4>2. k \in Int /\ k < w
        BY <1>1, <2>4, <2>6, <4>1
      <4> QED
        BY <1>0, <4>1, <4>2
    <3>2. i <= x
      BY <1>6, <3>1, FS_Subset DEF x, i
    <3> QED
      BY <2>1, <2>4, <3>2
  <2>7. w = v
    BY <2>4, <2>5, <2>6
  <2> QED
    BY <2>3, <2>7 DEF w
<1> HIDE DEF s, n
<1>11. {s[i] : i \in 1..n} = S
  BY <1>4, <1>10
<1> QED
  BY <1>2, <1>9, <1>11 DEF s, n, f
=============================================================================
