---------------------------- MODULE TotalsProofs ----------------------------
(***************************************************************************)
(* What Total does when its set or its function changes.  Each fact is      *)
(* proved for a least set that would be an exception to it.                 *)
(***************************************************************************)
EXTENDS Totals, Integers, FiniteSets, FiniteSetTheorems, WellFoundedInduction, TLAPS

(* Of some subsets of a finite set one has no other among its subsets. *)
LEMMA LeastSubset ==
  ASSUME NEW S, IsFiniteSet(S), NEW Some \in SUBSET SUBSET S, Some # {}
  PROVE  \E T \in Some : \A U \in Some : U \subseteq T => U = T
<1>1. FiniteSubsetsOf(S) = SUBSET S  BY FS_FiniteSubsetsOfFinite
<1>2. IsWellFoundedOn(StrictSubsetOrdering(S), SUBSET S)
  BY <1>1, FS_StrictSubsetOrderingWellFounded
<1>3. PICK T \in Some : \A U \in Some : <<U, T>> \notin StrictSubsetOrdering(S)
  BY <1>2, WFMin
<1> QED BY <1>3 DEF StrictSubsetOrdering

(* Likewise of some numbers. *)
LEMMA LeastNumber ==
  ASSUME NEW S \in SUBSET Nat, S # {}
  PROVE  \E m \in S : \A n \in S : m <= n
<1>1. PICK k \in S : TRUE  OBVIOUS
<1> DEFINE Some == {0 .. n : n \in {i \in S : i <= k}}
<1>2. IsFiniteSet(0 .. k)  BY FS_Interval
<1>3. Some \in SUBSET SUBSET (0 .. k) /\ Some # {}  OBVIOUS
<1>4. PICK T \in Some : \A U \in Some : U \subseteq T => U = T
  <2> DEFINE I == 0 .. k
  <2>1. IsFiniteSet(I) /\ Some \in SUBSET SUBSET I /\ Some # {}  BY <1>2, <1>3
  <2> HIDE DEF Some, I
  <2> QED BY ONLY <2>1, LeastSubset
<1>5. PICK m \in S : m <= k /\ T = 0 .. m  OBVIOUS
<1>6. ASSUME NEW n \in S, n < m PROVE FALSE
  <2>1. 0 .. n \in Some  BY <1>5, <1>6
  <2>2. 0 .. n \subseteq T /\ m \in T /\ m \notin 0 .. n  BY <1>5, <1>6
  <2> QED BY <1>4, <2>1, <2>2
<1> QED BY <1>5, <1>6

-----------------------------------------------------------------------------
(* The function of subsets behind Total. *)
Picked(U) == CHOOSE x \in U : TRUE
Folds(f, T, g) ==
  g = [U \in SUBSET T |-> IF U = {} THEN 0 ELSE f[Picked(U)] + g[U \ {Picked(U)}]]

LEMMA PickedIsIn == ASSUME NEW U, U # {} PROVE Picked(U) \in U
BY DEF Picked

(* Two such functions agree where both are defined. *)
LEMMA FoldsAgree ==
  ASSUME NEW S, IsFiniteSet(S), NEW f, NEW T \in SUBSET S, NEW g, NEW h,
         Folds(f, S, g), Folds(f, T, h)
  PROVE  \A U \in SUBSET T : h[U] = g[U]
<1> DEFINE Odd == {U \in SUBSET T : h[U] # g[U]}
<1> SUFFICES ASSUME Odd # {} PROVE FALSE  OBVIOUS
<1>1. PICK U \in Odd : \A V \in Odd : V \subseteq U => V = U
  <2> Odd \in SUBSET SUBSET S  OBVIOUS
  <2> HIDE DEF Odd
  <2> QED BY LeastSubset
<1>2. U # {}  BY <1>1 DEF Folds
<1>3. Picked(U) \in U  BY <1>2, PickedIsIn
<1>4. h[U \ {Picked(U)}] = g[U \ {Picked(U)}]  BY <1>1, <1>3
<1>5. /\ h[U] = f[Picked(U)] + h[U \ {Picked(U)}]
      /\ g[U] = f[Picked(U)] + g[U \ {Picked(U)}]
  BY <1>1, <1>2 DEF Folds
<1> QED BY <1>1, <1>4, <1>5

(* There is one for every finite set. *)
LEMMA FoldsExist ==
  ASSUME NEW S, IsFiniteSet(S), NEW f
  PROVE  \E g : Folds(f, S, g)
<1> DEFINE Odd == {T \in SUBSET S : ~ \E g : Folds(f, T, g)}
<1> SUFFICES ASSUME Odd # {} PROVE FALSE  OBVIOUS
<1>1. PICK T \in Odd : \A U \in Odd : U \subseteq T => U = T
  <2> Odd \in SUBSET SUBSET S  OBVIOUS
  <2> HIDE DEF Odd
  <2> QED BY LeastSubset
<1> DEFINE of(U) == CHOOSE g : Folds(f, U, g)
           g == [U \in SUBSET T |->
                   IF U = {} THEN 0
                   ELSE f[Picked(U)] + of(U \ {Picked(U)})[U \ {Picked(U)}]]
<1>2. ASSUME NEW U \in SUBSET T, U # T PROVE Folds(f, U, of(U))
  <2>1. \E h : Folds(f, U, h)  BY <1>1, <1>2
  <2> HIDE DEF g, Odd
  <2> QED BY <2>1
<1>3. ASSUME NEW U \in SUBSET T, U # {}
      PROVE  /\ Picked(U) \in U
             /\ U \ {Picked(U)} \in SUBSET T
             /\ U \ {Picked(U)} # T
  BY <1>3, PickedIsIn
<1> HIDE DEF of
<1>4. ASSUME NEW U \in SUBSET T, U # T PROVE of(U)[U] = g[U]
  <2>1. Folds(f, U, of(U))  BY <1>2, <1>4
  <2>2. CASE U = {}  BY <2>1, <2>2 DEF Folds
  <2>3. CASE U # {}
    <3> DEFINE V == U \ {Picked(U)}
    <3>1. V \in SUBSET U /\ V \in SUBSET T /\ V # T  BY <1>3, <2>3
    <3>2. Folds(f, V, of(V))  BY <1>2, <3>1
    <3>3. IsFiniteSet(U)  BY <1>1, FS_Subset
    <3>4. of(V)[V] = of(U)[V]
      <4> HIDE DEF V, g, Odd
      <4> QED BY <2>1, <3>1, <3>2, <3>3, FoldsAgree
    <3>5. of(U)[U] = f[Picked(U)] + of(U)[V]  BY <2>1, <2>3 DEF Folds
    <3>6. g[U] = f[Picked(U)] + of(V)[V]  BY <2>3
    <3> QED BY <3>4, <3>5, <3>6
  <2> QED BY <2>2, <2>3
<1>5. Folds(f, T, g)
  <2> SUFFICES ASSUME NEW U \in SUBSET T, U # {}
               PROVE  g[U] = f[Picked(U)] + g[U \ {Picked(U)}]
    BY DEF Folds
  <2> QED BY <1>3, <1>4
<1> QED BY <1>1, <1>5

(* Total is the value of each of them. *)
LEMMA TotalFolds ==
  ASSUME NEW S, IsFiniteSet(S), NEW f, NEW g, Folds(f, S, g), NEW T \in SUBSET S
  PROVE  Total(f, T) = g[T]
<1>1. IsFiniteSet(T)  BY FS_Subset
<1>2. \E h : Folds(f, T, h)  BY <1>1, FoldsExist
<1> DEFINE h == CHOOSE h : Folds(f, T, h)
<1>3. Folds(f, T, h)  BY <1>2
<1>4. Total(f, T) = h[T]
  BY DEF Total, MapThenSumSet, MapThenFoldSet, Folds, Picked
<1> HIDE DEF h
<1> QED BY <1>3, <1>4, FoldsAgree

-----------------------------------------------------------------------------
(* A total takes out one element and goes on. *)
LEMMA TotalEmpty == ASSUME NEW f PROVE Total(f, {}) = 0
<1>1. IsFiniteSet({})  BY FS_EmptySet
<1>2. PICK g : Folds(f, {}, g)  BY <1>1, FoldsExist
<1>3. g[{}] = 0  BY <1>2 DEF Folds
<1> QED BY <1>1, <1>2, <1>3, TotalFolds

LEMMA TotalPicked ==
  ASSUME NEW S, IsFiniteSet(S), NEW f, S # {}
  PROVE  Total(f, S) = f[Picked(S)] + Total(f, S \ {Picked(S)})
<1>1. PICK g : Folds(f, S, g)  BY FoldsExist
<1>2. S \ {Picked(S)} \in SUBSET S /\ S \in SUBSET S  OBVIOUS
<1>3. g[S] = f[Picked(S)] + g[S \ {Picked(S)}]  BY <1>1, <1>2 DEF Folds
<1>4. Total(f, S) = g[S] /\ Total(f, S \ {Picked(S)}) = g[S \ {Picked(S)}]
  BY <1>1, <1>2, TotalFolds
<1> QED BY <1>3, <1>4

LEMMA TotalIsInt ==
  ASSUME NEW S, IsFiniteSet(S), NEW f, \A x \in S : f[x] \in Int
  PROVE  Total(f, S) \in Int
<1> DEFINE Odd == {T \in SUBSET S : Total(f, T) \notin Int}
<1> SUFFICES ASSUME Odd # {} PROVE FALSE  OBVIOUS
<1>1. PICK T \in Odd : \A U \in Odd : U \subseteq T => U = T
  <2> Odd \in SUBSET SUBSET S  OBVIOUS
  <2> HIDE DEF Odd
  <2> QED BY LeastSubset
<1>2. T # {}
  <2>1. Total(f, {}) \in Int  BY TotalEmpty
  <2> QED BY <1>1, <2>1
<1>3. Picked(T) \in T  BY <1>2, PickedIsIn
<1>4. Total(f, T \ {Picked(T)}) \in Int  BY <1>1, <1>3
<1>5. IsFiniteSet(T)  BY <1>1, FS_Subset
<1>6. Total(f, T) = f[Picked(T)] + Total(f, T \ {Picked(T)})  BY <1>2, <1>5, TotalPicked
<1> QED BY <1>1, <1>3, <1>4, <1>6

(* The order in which elements are taken does not matter. *)
LEMMA TotalRemove ==
  ASSUME NEW S, IsFiniteSet(S), NEW f, \A x \in S : f[x] \in Int, NEW x \in S
  PROVE  Total(f, S) = f[x] + Total(f, S \ {x})
<1> DEFINE Odd == {T \in SUBSET S : \E y \in T : Total(f, T) # f[y] + Total(f, T \ {y})}
<1> SUFFICES ASSUME Odd # {} PROVE FALSE  OBVIOUS
<1>1. PICK T \in Odd : \A U \in Odd : U \subseteq T => U = T
  <2> Odd \in SUBSET SUBSET S  OBVIOUS
  <2> HIDE DEF Odd
  <2> QED BY LeastSubset
<1>2. PICK y \in T : Total(f, T) # f[y] + Total(f, T \ {y})  BY <1>1
<1> DEFINE p == Picked(T)
<1>3. p \in T  BY <1>2, PickedIsIn
<1> HIDE DEF p
<1>4. \A U \in SUBSET T : IsFiniteSet(U) /\ \A z \in U : f[z] \in Int
  BY <1>1, FS_Subset
<1>5. Total(f, T) = f[p] + Total(f, T \ {p})  BY <1>2, <1>4, TotalPicked DEF p
<1>6. p # y  BY <1>2, <1>5
<1>7. Total(f, T \ {p}) = f[y] + Total(f, (T \ {p}) \ {y})
  <2>1. T \ {p} \in SUBSET S /\ T \ {p} \subseteq T /\ T \ {p} # T  BY <1>1, <1>3
  <2>2. T \ {p} \notin Odd  BY <1>1, <2>1
  <2> QED BY <1>6, <2>1, <2>2
<1>8. Total(f, T \ {y}) = f[p] + Total(f, (T \ {y}) \ {p})
  <2>1. T \ {y} \in SUBSET S /\ T \ {y} \subseteq T /\ T \ {y} # T  BY <1>1, <1>2
  <2>2. T \ {y} \notin Odd  BY <1>1, <2>1
  <2> QED BY <1>3, <1>6, <2>1, <2>2
<1>9. (T \ {p}) \ {y} = (T \ {y}) \ {p}  OBVIOUS
<1>10. f[p] \in Int /\ f[y] \in Int  BY <1>2, <1>3, <1>4
<1>11. Total(f, (T \ {p}) \ {y}) \in Int
  <2>1. (T \ {p}) \ {y} \in SUBSET T  OBVIOUS
  <2> QED BY <1>4, <2>1, TotalIsInt
<1> HIDE DEF Odd
<1>12. f[p] + (f[y] + Total(f, (T \ {p}) \ {y})) = f[y] + (f[p] + Total(f, (T \ {p}) \ {y}))
  BY <1>10, <1>11
<1> QED BY <1>2, <1>5, <1>7, <1>8, <1>9, <1>12

LEMMA TotalAdd ==
  ASSUME NEW S, IsFiniteSet(S), NEW x, x \notin S, NEW f, \A y \in S \cup {x} : f[y] \in Int
  PROVE  Total(f, S \cup {x}) = f[x] + Total(f, S)
<1>1. IsFiniteSet(S \cup {x})  BY FS_AddElement
<1>2. (S \cup {x}) \ {x} = S  OBVIOUS
<1> QED BY <1>1, <1>2, TotalRemove

(* It grows with its set, if what is added is not negative, and with its function. *)
LEMMA TotalGrows ==
  ASSUME NEW T, IsFiniteSet(T), NEW S \in SUBSET T, NEW f, NEW g,
         \A x \in S : f[x] \in Int, \A x \in T : g[x] \in Int,
         \A x \in S : f[x] <= g[x], \A x \in T \ S : 0 <= g[x]
  PROVE  Total(f, S) <= Total(g, T)
<1> DEFINE Odd == {U \in SUBSET T : ~ (Total(f, U \cap S) <= Total(g, U))}
<1> SUFFICES ASSUME Odd # {} PROVE FALSE
  BY S \cap T = S
<1>1. PICK U \in Odd : \A V \in Odd : V \subseteq U => V = U
  <2> Odd \in SUBSET SUBSET T  OBVIOUS
  <2> HIDE DEF Odd
  <2> QED BY LeastSubset
<1>2. \A V \in SUBSET U : /\ IsFiniteSet(V) /\ IsFiniteSet(V \cap S)
                          /\ \A x \in V : g[x] \in Int
                          /\ \A x \in V \cap S : f[x] \in Int
  BY <1>1, FS_Subset
<1>3. \A V \in SUBSET U : Total(f, V \cap S) \in Int /\ Total(g, V) \in Int
  BY <1>2, TotalIsInt
<1>4. PICK x \in U : TRUE
  <2>1. CASE U = {}
    <3>1. U \cap S = {}  BY <2>1
    <3> QED BY <1>1, <2>1, <3>1, TotalEmpty
  <2> QED BY <2>1
<1> DEFINE V == U \ {x}
<1>5. V \in SUBSET U /\ V # U  OBVIOUS
<1>6. Total(f, V \cap S) <= Total(g, V)  BY <1>1, <1>5
<1>7. Total(g, U) = g[x] + Total(g, V)  BY <1>2, TotalRemove
<1>8. CASE x \in S
  <2>1. V \cap S = (U \cap S) \ {x}  OBVIOUS
  <2>2. Total(f, U \cap S) = f[x] + Total(f, V \cap S)
    <3>1. U \cap S \in SUBSET U /\ x \in U \cap S  BY <1>8
    <3>2. IsFiniteSet(U \cap S) /\ \A y \in U \cap S : f[y] \in Int  BY <1>2
    <3> QED BY <2>1, <3>1, <3>2, TotalRemove
  <2>3. f[x] \in Int /\ g[x] \in Int /\ f[x] <= g[x]  BY <1>8
  <2> HIDE DEF V
  <2> QED BY <1>1, <1>3, <1>5, <1>6, <1>7, <2>2, <2>3
<1>9. CASE x \notin S
  <2>1. V \cap S = U \cap S  BY <1>9
  <2>2. g[x] \in Int /\ 0 <= g[x]  BY <1>1, <1>9
  <2> HIDE DEF V
  <2> QED BY <1>1, <1>3, <1>5, <1>6, <1>7, <2>1, <2>2
<1> QED BY <1>8, <1>9

LEMMA TotalSame ==
  ASSUME NEW S, IsFiniteSet(S), NEW f, NEW g, \A x \in S : f[x] \in Int /\ g[x] = f[x]
  PROVE  Total(g, S) = Total(f, S)
<1>1. Total(f, S) <= Total(g, S) /\ Total(g, S) <= Total(f, S)
  BY TotalGrows, S \in SUBSET S
<1>2. Total(f, S) \in Int /\ Total(g, S) \in Int  BY TotalIsInt
<1> QED BY <1>1, <1>2

LEMMA TotalZero ==
  ASSUME NEW S, IsFiniteSet(S), NEW f, \A x \in S : f[x] = 0
  PROVE  Total(f, S) = 0
<1> DEFINE Odd == {T \in SUBSET S : Total(f, T) # 0}
<1> SUFFICES ASSUME Odd # {} PROVE FALSE  OBVIOUS
<1>1. PICK T \in Odd : \A U \in Odd : U \subseteq T => U = T
  <2> Odd \in SUBSET SUBSET S  OBVIOUS
  <2> HIDE DEF Odd
  <2> QED BY LeastSubset
<1>2. T # {}
  <2>1. Total(f, {}) = 0  BY TotalEmpty
  <2> QED BY <1>1, <2>1
<1>3. Picked(T) \in T  BY <1>2, PickedIsIn
<1>4. Total(f, T \ {Picked(T)}) = 0  BY <1>1, <1>3
<1>5. IsFiniteSet(T)  BY <1>1, FS_Subset
<1>6. Total(f, T) = f[Picked(T)] + Total(f, T \ {Picked(T)})  BY <1>2, <1>5, TotalPicked
<1> QED BY <1>1, <1>3, <1>4, <1>6

(* One value changes. *)
LEMMA TotalChange ==
  ASSUME NEW S, IsFiniteSet(S), NEW f, NEW g, NEW x \in S,
         \A y \in S : f[y] \in Int /\ g[y] \in Int, \A y \in S \ {x} : g[y] = f[y]
  PROVE  Total(g, S) = Total(f, S) + (g[x] - f[x])
<1>1. IsFiniteSet(S \ {x})  BY FS_RemoveElement
<1>2. Total(f, S) = f[x] + Total(f, S \ {x}) /\ Total(g, S) = g[x] + Total(g, S \ {x})
  BY TotalRemove
<1>3. Total(g, S \ {x}) = Total(f, S \ {x})  BY <1>1, TotalSame
<1>4. Total(f, S \ {x}) \in Int  BY <1>1, TotalIsInt
<1> QED BY <1>2, <1>3, <1>4

(* A set falls into two parts. *)
LEMMA TotalParts ==
  ASSUME NEW S, IsFiniteSet(S), NEW T \in SUBSET S, NEW f, \A x \in S : f[x] \in Int
  PROVE  Total(f, S) = Total(f, T) + Total(f, S \ T)
<1> DEFINE Odd == {U \in SUBSET T : Total(f, (S \ T) \cup U) # Total(f, U) + Total(f, S \ T)}
<1> SUFFICES ASSUME Odd # {} PROVE FALSE
  BY (S \ T) \cup T = S
<1>1. PICK U \in Odd : \A V \in Odd : V \subseteq U => V = U
  <2> Odd \in SUBSET SUBSET S  OBVIOUS
  <2> HIDE DEF Odd
  <2> QED BY LeastSubset
<1>2. \A V \in SUBSET S : IsFiniteSet(V) /\ \A x \in V : f[x] \in Int  BY FS_Subset
<1>3. \A V \in SUBSET S : Total(f, V) \in Int  BY <1>2, TotalIsInt
<1>4. PICK x \in U : TRUE
  <2>1. CASE U = {}
    <3>1. (S \ T) \cup U = S \ T  BY <2>1
    <3>2. S \ T \in SUBSET S  OBVIOUS
    <3> QED BY <1>1, <1>3, <2>1, <3>1, <3>2, TotalEmpty
  <2> QED BY <2>1
<1> DEFINE V == U \ {x}
           W == (S \ T) \cup V
<1>5. Total(f, W) = Total(f, V) + Total(f, S \ T)
  <2>1. V \in SUBSET T /\ V \subseteq U /\ V # U  BY <1>1, <1>4
  <2>2. V \notin Odd  BY <1>1, <2>1
  <2> QED BY <2>1, <2>2
<1>6. V \in SUBSET S /\ W \in SUBSET S /\ S \ T \in SUBSET S /\ U \in SUBSET S  BY <1>1
<1>7. Total(f, U) = f[x] + Total(f, V)  BY <1>2, <1>6, TotalRemove
<1>8. Total(f, (S \ T) \cup U) = f[x] + Total(f, W)
  <2>1. (S \ T) \cup U \in SUBSET S /\ x \in (S \ T) \cup U
        /\ W = ((S \ T) \cup U) \ {x}
    BY <1>1, <1>4
  <2> HIDE DEF W
  <2> QED BY <1>2, <2>1, TotalRemove
<1>9. f[x] \in Int  BY <1>1
<1> HIDE DEF V, W
<1> QED BY <1>1, <1>3, <1>5, <1>6, <1>7, <1>8, <1>9

=============================================================================
