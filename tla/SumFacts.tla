------------------------------ MODULE SumFacts ------------------------------
(***************************************************************************)
(* What holds of the sum of a function over a finite set.  The induction   *)
(* is by a smallest counterexample: a set of finite sets that is not empty *)
(* has a member none of whose strict subsets is in it.                     *)
(***************************************************************************)
EXTENDS Integers, FiniteSets, Sums, FiniteSetTheorems, WellFoundedInduction, TLAPS

\* A smallest member of a set of subsets of a finite set.
LEMMA Smallest ==
  ASSUME NEW S, IsFiniteSet(S), NEW B \in SUBSET SUBSET S, B # {}
  PROVE  \E T \in B : \A U \in B : U \subseteq T => U = T
<1> DEFINE R == StrictSubsetOrdering(S)
<1>1. IsWellFoundedOn(R, SUBSET S)
  BY FS_StrictSubsetOrderingWellFounded, FS_FiniteSubsetsOfFinite
<1>2. PICK T \in B : \A U \in B : ~(<<U, T>> \in R)
  <2> HIDE DEF R
  <2> QED BY <1>1, WFMin
<1>3. \A U \in B : U \subseteq T => U = T
  BY <1>2 DEF StrictSubsetOrdering
<1> QED BY <1>3

---------------------------------------------------------------------------
(* The recursive function behind the sum *)

AnyOf(T) == CHOOSE x \in T : TRUE

Unrolled(f, T, g) == [U \in SUBSET T |-> IF U = {} THEN 0 ELSE f[AnyOf(U)] + g[U \ {AnyOf(U)}]]

Recursion(f, T) == CHOOSE g : g = Unrolled(f, T, g)

\* The sum is the value of that function on the whole set.
LEMMA SumIsRecursion == \A f, S : SumOver(f, S) = Recursion(f, S)[S]
  BY DEF SumOver, MapThenSumSet, MapThenFoldSet, Recursion, Unrolled, AnyOf

\* The element picked is one of the set.
LEMMA Picked == \A T : T # {} => AnyOf(T) \in T
  BY DEF AnyOf

\* Two functions that satisfy the equation agree where both are defined.
LEMMA RecursionsAgree ==
  ASSUME NEW f, NEW A, NEW B, NEW g, NEW h, g = Unrolled(f, A, g), h = Unrolled(f, B, h),
         NEW W, W \subseteq A, W \subseteq B, IsFiniteSet(W)
  PROVE  g[W] = h[W]
<1> DEFINE Bad == {U \in SUBSET W : g[U] # h[U]}
<1>1. CASE Bad = {}
  BY <1>1
<1>2. CASE Bad # {}
  <2>1. PICK T \in Bad : \A U \in Bad : U \subseteq T => U = T
    <3>1. Bad \in SUBSET SUBSET W
      OBVIOUS
    <3> HIDE DEF Bad
    <3> QED BY <1>2, <3>1, Smallest
  <2>2. T \subseteq W /\ g[T] # h[T]
    BY <2>1
  <2>3. T # {}
    BY <2>2 DEF Unrolled
  <2>4. AnyOf(T) \in T
    BY <2>3, Picked
  <2> DEFINE V == T \ {AnyOf(T)}
  <2>5. V \subseteq T /\ V # T /\ V \in SUBSET W
    BY <2>4, <2>2
  <2>6. g[V] = h[V]
    BY <2>1, <2>5
  <2>7. g[T] = f[AnyOf(T)] + g[V] /\ h[T] = f[AnyOf(T)] + h[V]
    BY <2>2, <2>3 DEF Unrolled
  <2> QED BY <2>2, <2>6, <2>7
<1> QED BY <1>1, <1>2

\* There is such a function on the subsets of every finite set.
LEMMA RecursionExists ==
  ASSUME NEW f, NEW S, IsFiniteSet(S)
  PROVE  \E g : g = Unrolled(f, S, g)
<1> DEFINE Bad == {T \in SUBSET S : ~ \E g : g = Unrolled(f, T, g)}
<1>1. CASE Bad = {}
  BY <1>1
<1>2. CASE Bad # {}
  <2>1. PICK T \in Bad : \A U \in Bad : U \subseteq T => U = T
    <3>1. Bad \in SUBSET SUBSET S
      OBVIOUS
    <3> HIDE DEF Bad
    <3> QED BY <1>2, <3>1, Smallest
  <2>2. T \subseteq S /\ ~ \E g : g = Unrolled(f, T, g)
    BY <2>1
  <2> DEFINE Val(U) == Recursion(f, U)[U]
             g == [U \in SUBSET T |->
                     IF U = {} THEN 0 ELSE f[AnyOf(U)] + Val(U \ {AnyOf(U)})]
  <2>3. ASSUME NEW U \in SUBSET T, U # T PROVE Recursion(f, U) = Unrolled(f, U, Recursion(f, U))
    <3>1. \E h : h = Unrolled(f, U, h)
      BY <2>1, <2>2, <2>3
    <3> QED BY <3>1 DEF Recursion
  <2>4. ASSUME NEW U \in SUBSET T, U # T PROVE g[U] = Val(U)
    <3>1. Recursion(f, U) = Unrolled(f, U, Recursion(f, U))
      BY <2>3, <2>4
    <3>2. CASE U = {}
      <4>1. Recursion(f, U)[U] = 0
        BY <3>1, <3>2 DEF Unrolled
      <4> QED BY <4>1, <3>2
    <3>3. CASE U # {}
      <4> DEFINE V == U \ {AnyOf(U)}
      <4>1. AnyOf(U) \in U
        BY <3>3, Picked
      <4>2. V \in SUBSET T /\ V # T /\ V \subseteq U
        BY <4>1
      <4>3. Recursion(f, V) = Unrolled(f, V, Recursion(f, V))
        BY <4>2, <2>3
      <4>4. IsFiniteSet(V)
        BY <4>2, <2>2, FS_Subset
      <4>5. Recursion(f, U)[V] = Recursion(f, V)[V]
        BY <3>1, <4>3, <4>2, <4>4, RecursionsAgree
      <4>6. Recursion(f, U)[U] = f[AnyOf(U)] + Recursion(f, U)[V]
        BY <3>1, <3>3 DEF Unrolled
      <4>7. g[U] = f[AnyOf(U)] + Val(V)
        BY <3>3
      <4> QED BY <4>5, <4>6, <4>7
    <3> QED BY <3>2, <3>3
  <2>5. g = Unrolled(f, T, g)
    <3>1. ASSUME NEW U \in SUBSET T, U # {} PROVE Val(U \ {AnyOf(U)}) = g[U \ {AnyOf(U)}]
      <4>1. AnyOf(U) \in U
        BY <3>1, Picked
      <4>2. U \ {AnyOf(U)} \in SUBSET T /\ U \ {AnyOf(U)} # T
        BY <4>1
      <4> HIDE DEF g, Val
      <4> QED BY <4>2, <2>4
    <3>2. \A U \in SUBSET T : g[U] = Unrolled(f, T, g)[U]
      <4> TAKE U \in SUBSET T
      <4>1. Unrolled(f, T, g)[U] = IF U = {} THEN 0 ELSE f[AnyOf(U)] + g[U \ {AnyOf(U)}]
        BY DEF Unrolled
      <4>2. g[U] = IF U = {} THEN 0 ELSE f[AnyOf(U)] + Val(U \ {AnyOf(U)})
        OBVIOUS
      <4> HIDE DEF g, Val
      <4> QED BY <3>1, <4>1, <4>2
    <3>3. DOMAIN g = SUBSET T /\ g = [U \in DOMAIN g |-> g[U]]
      OBVIOUS
    <3>4. DOMAIN Unrolled(f, T, g) = SUBSET T
          /\ Unrolled(f, T, g) = [U \in DOMAIN Unrolled(f, T, g) |-> Unrolled(f, T, g)[U]]
      BY DEF Unrolled
    <3> HIDE DEF g, Val
    <3> QED BY <3>2, <3>3, <3>4
  <2> QED BY <2>2, <2>5
<1> QED BY <1>1, <1>2

\* The function the sum chooses satisfies the equation.
LEMMA RecursionUnrolls ==
  ASSUME NEW f, NEW S, IsFiniteSet(S)
  PROVE  Recursion(f, S) = Unrolled(f, S, Recursion(f, S))
  BY RecursionExists DEF Recursion

---------------------------------------------------------------------------
(* Sums *)

\* A sum of nothing is zero.
LEMMA SumEmpty == \A f : SumOver(f, {}) = 0
<1> TAKE f
<1>1. Recursion(f, {}) = Unrolled(f, {}, Recursion(f, {}))
  BY RecursionUnrolls, FS_EmptySet
<1> QED BY <1>1, SumIsRecursion DEF Unrolled

\* The element picked is taken out first.
LEMMA SumPick ==
  ASSUME NEW f, NEW S, IsFiniteSet(S), S # {}
  PROVE  SumOver(f, S) = f[AnyOf(S)] + SumOver(f, S \ {AnyOf(S)})
<1> DEFINE T == S \ {AnyOf(S)}
<1>1. IsFiniteSet(T)
  BY FS_Subset
<1>2. Recursion(f, S) = Unrolled(f, S, Recursion(f, S)) /\ Recursion(f, T) = Unrolled(f, T, Recursion(f, T))
  BY <1>1, RecursionUnrolls
<1>3. Recursion(f, S)[T] = Recursion(f, T)[T]
  BY <1>1, <1>2, RecursionsAgree
<1>4. Recursion(f, S)[S] = f[AnyOf(S)] + Recursion(f, S)[T]
  BY <1>2 DEF Unrolled
<1> QED BY <1>3, <1>4, SumIsRecursion

\* A sum of integers is an integer.
LEMMA SumInt ==
  ASSUME NEW S, IsFiniteSet(S), NEW f, \A x \in S : f[x] \in Int
  PROVE  SumOver(f, S) \in Int
<1> DEFINE Bad == {T \in SUBSET S : SumOver(f, T) \notin Int}
<1>1. CASE Bad = {}
  BY <1>1
<1>2. CASE Bad # {}
  <2>1. PICK T \in Bad : \A U \in Bad : U \subseteq T => U = T
    <3>1. Bad \in SUBSET SUBSET S
      OBVIOUS
    <3> HIDE DEF Bad
    <3> QED BY <1>2, <3>1, Smallest
  <2>2. T \subseteq S /\ SumOver(f, T) \notin Int /\ IsFiniteSet(T)
    BY <2>1, FS_Subset
  <2>3. T # {}
    BY <2>2, SumEmpty
  <2>4. AnyOf(T) \in T
    BY <2>3, Picked
  <2>5. SumOver(f, T \ {AnyOf(T)}) \in Int
    BY <2>1, <2>2, <2>4
  <2>6. SumOver(f, T) = f[AnyOf(T)] + SumOver(f, T \ {AnyOf(T)})
    BY <2>2, <2>3, SumPick
  <2> QED BY <2>2, <2>4, <2>5, <2>6
<1> QED BY <1>1, <1>2

\* Any element may be taken out first.
LEMMA SumRemove ==
  ASSUME NEW S, IsFiniteSet(S), NEW f, \A x \in S : f[x] \in Int, NEW e \in S
  PROVE  SumOver(f, S) = f[e] + SumOver(f, S \ {e})
<1> DEFINE Bad == {T \in SUBSET S : \E x \in T : SumOver(f, T) # f[x] + SumOver(f, T \ {x})}
<1>1. CASE Bad = {}
  BY <1>1
<1>2. CASE Bad # {}
  <2>1. PICK T \in Bad : \A U \in Bad : U \subseteq T => U = T
    <3>1. Bad \in SUBSET SUBSET S
      OBVIOUS
    <3> HIDE DEF Bad
    <3> QED BY <1>2, <3>1, Smallest
  <2>2. PICK x \in T : SumOver(f, T) # f[x] + SumOver(f, T \ {x})
    BY <2>1
  <2>3. T \subseteq S /\ IsFiniteSet(T)
    BY <2>1, FS_Subset
  <2> DEFINE y == AnyOf(T)
             V == T \ {y}
             W == T \ {x}
             X == (T \ {x}) \ {y}
  <2>4. y \in T /\ SumOver(f, T) = f[y] + SumOver(f, V)
    BY <2>2, <2>3, Picked, SumPick
  <2>5. x # y
    BY <2>2, <2>4
  <2>6. V \subseteq T /\ V # T /\ W \subseteq T /\ W # T /\ x \in V /\ y \in W
        /\ V \ {x} = X /\ W \ {y} = X
    BY <2>2, <2>4, <2>5
  <2>7. SumOver(f, V) = f[x] + SumOver(f, V \ {x}) /\ SumOver(f, W) = f[y] + SumOver(f, W \ {y})
    <3> HIDE DEF V, W, y
    <3>1. V \notin Bad /\ W \notin Bad
      <4> HIDE DEF Bad
      <4> QED BY <2>1, <2>6
    <3>2. V \in SUBSET S /\ W \in SUBSET S
      BY <2>3, <2>6
    <3> QED BY <3>1, <3>2, <2>6
  <2>8. SumOver(f, X) \in Int
    <3>1. X \subseteq S /\ IsFiniteSet(X)
      BY <2>3, FS_Subset
    <3> HIDE DEF X
    <3> QED BY <3>1, SumInt
  <2>9. f[x] \in Int /\ f[y] \in Int
    BY <2>2, <2>3, <2>4
  <2> HIDE DEF V, W, X, y
  <2>10. SumOver(f, T) = f[y] + (f[x] + SumOver(f, X)) /\ SumOver(f, W) = f[y] + SumOver(f, X)
    BY <2>4, <2>6, <2>7
  <2>11. SumOver(f, T) = f[x] + SumOver(f, W)
    BY <2>8, <2>9, <2>10
  <2> QED BY <2>2, <2>11 DEF W
<1> QED BY <1>1, <1>2

\* An element that comes in adds its value.
LEMMA SumAdd ==
  ASSUME NEW S, IsFiniteSet(S), NEW f, NEW e, e \notin S, \A x \in S \cup {e} : f[x] \in Int
  PROVE  SumOver(f, S \cup {e}) = f[e] + SumOver(f, S)
<1>1. IsFiniteSet(S \cup {e}) /\ e \in S \cup {e} /\ (S \cup {e}) \ {e} = S
  BY FS_AddElement
<1> DEFINE T == S \cup {e}
<1>2. SumOver(f, T) = f[e] + SumOver(f, T \ {e})
  <2>1. IsFiniteSet(T) /\ e \in T /\ \A x \in T : f[x] \in Int
    BY <1>1
  <2> HIDE DEF T
  <2> QED BY <2>1, SumRemove
<1> QED BY <1>1, <1>2

\* Functions that agree on a set have the same sum over it.
LEMMA SumSame ==
  ASSUME NEW S, IsFiniteSet(S), NEW f, NEW g, \A x \in S : f[x] = g[x]
  PROVE  SumOver(f, S) = SumOver(g, S)
<1> DEFINE Bad == {T \in SUBSET S : SumOver(f, T) # SumOver(g, T)}
<1>1. CASE Bad = {}
  BY <1>1
<1>2. CASE Bad # {}
  <2>1. PICK T \in Bad : \A U \in Bad : U \subseteq T => U = T
    <3>1. Bad \in SUBSET SUBSET S
      OBVIOUS
    <3> HIDE DEF Bad
    <3> QED BY <1>2, <3>1, Smallest
  <2>2. T \subseteq S /\ SumOver(f, T) # SumOver(g, T) /\ IsFiniteSet(T)
    BY <2>1, FS_Subset
  <2>3. T # {}
    BY <2>2, SumEmpty
  <2>4. AnyOf(T) \in T
    BY <2>3, Picked
  <2>5. SumOver(f, T \ {AnyOf(T)}) = SumOver(g, T \ {AnyOf(T)})
    BY <2>1, <2>2, <2>4
  <2>6. SumOver(f, T) = f[AnyOf(T)] + SumOver(f, T \ {AnyOf(T)})
        /\ SumOver(g, T) = g[AnyOf(T)] + SumOver(g, T \ {AnyOf(T)})
    BY <2>2, <2>3, SumPick
  <2> QED BY <2>2, <2>4, <2>5, <2>6
<1> QED BY <1>1, <1>2

\* One value changes: the sum changes by as much.
LEMMA SumChange ==
  ASSUME NEW S, IsFiniteSet(S), NEW f, NEW g, NEW e \in S,
         \A x \in S : f[x] \in Int /\ g[x] \in Int,
         \A x \in S \ {e} : f[x] = g[x]
  PROVE  SumOver(g, S) = SumOver(f, S) + (g[e] - f[e])
<1> DEFINE T == S \ {e}
<1>1. IsFiniteSet(T)
  BY FS_Subset
<1>2. SumOver(f, T) = SumOver(g, T) /\ SumOver(f, T) \in Int
  BY <1>1, SumSame, SumInt
<1>3. SumOver(f, S) = f[e] + SumOver(f, T) /\ SumOver(g, S) = g[e] + SumOver(g, T)
  BY SumRemove
<1> HIDE DEF T
<1> QED BY <1>2, <1>3

\* A sum of naturals is a natural, and none of its terms is larger.
LEMMA SumNat ==
  ASSUME NEW S, IsFiniteSet(S), NEW f, \A x \in S : f[x] \in Nat
  PROVE  /\ SumOver(f, S) \in Nat
         /\ \A x \in S : f[x] <= SumOver(f, S)
<1> DEFINE Bad == {T \in SUBSET S : SumOver(f, T) \notin Nat}
<1>1. ASSUME Bad # {} PROVE FALSE
  <2>1. PICK T \in Bad : \A U \in Bad : U \subseteq T => U = T
    <3>1. Bad \in SUBSET SUBSET S
      OBVIOUS
    <3> HIDE DEF Bad
    <3> QED BY <1>1, <3>1, Smallest
  <2>2. T \subseteq S /\ SumOver(f, T) \notin Nat /\ IsFiniteSet(T)
    BY <2>1, FS_Subset
  <2>3. T # {}
    BY <2>2, SumEmpty
  <2>4. AnyOf(T) \in T
    BY <2>3, Picked
  <2>5. SumOver(f, T \ {AnyOf(T)}) \in Nat
    BY <2>1, <2>2, <2>4
  <2>6. SumOver(f, T) = f[AnyOf(T)] + SumOver(f, T \ {AnyOf(T)})
    BY <2>2, <2>3, SumPick
  <2> QED BY <2>2, <2>4, <2>5, <2>6
<1>2. \A T \in SUBSET S : SumOver(f, T) \in Nat
  BY <1>1
<1>3. ASSUME NEW x \in S PROVE f[x] <= SumOver(f, S)
  <2>1. SumOver(f, S) = f[x] + SumOver(f, S \ {x})
    BY SumRemove
  <2>2. SumOver(f, S \ {x}) \in Nat /\ f[x] \in Nat
    BY <1>2
  <2> QED BY <2>1, <2>2
<1> QED BY <1>2, <1>3

\* A sum of zeros is zero.
LEMMA SumZero ==
  ASSUME NEW S, IsFiniteSet(S), NEW f, \A x \in S : f[x] = 0
  PROVE  SumOver(f, S) = 0
<1> DEFINE Bad == {T \in SUBSET S : SumOver(f, T) # 0}
<1>1. ASSUME Bad # {} PROVE FALSE
  <2>1. PICK T \in Bad : \A U \in Bad : U \subseteq T => U = T
    <3>1. Bad \in SUBSET SUBSET S
      OBVIOUS
    <3> HIDE DEF Bad
    <3> QED BY <1>1, <3>1, Smallest
  <2>2. T \subseteq S /\ SumOver(f, T) # 0 /\ IsFiniteSet(T)
    BY <2>1, FS_Subset
  <2>3. T # {}
    BY <2>2, SumEmpty
  <2>4. AnyOf(T) \in T
    BY <2>3, Picked
  <2>5. SumOver(f, T \ {AnyOf(T)}) = 0
    BY <2>1, <2>2, <2>4
  <2>6. SumOver(f, T) = f[AnyOf(T)] + SumOver(f, T \ {AnyOf(T)})
    BY <2>2, <2>3, SumPick
  <2> QED BY <2>2, <2>4, <2>5, <2>6
<1> QED BY <1>1

\* No term is larger in f than in g: neither is the sum.
LEMMA SumLeq ==
  ASSUME NEW S, IsFiniteSet(S), NEW f, NEW g,
         \A x \in S : f[x] \in Int /\ g[x] \in Int /\ f[x] <= g[x]
  PROVE  SumOver(f, S) <= SumOver(g, S)
<1> DEFINE Bad == {T \in SUBSET S : ~(SumOver(f, T) <= SumOver(g, T))}
<1>1. ASSUME Bad # {} PROVE FALSE
  <2>1. PICK T \in Bad : \A U \in Bad : U \subseteq T => U = T
    <3>1. Bad \in SUBSET SUBSET S
      OBVIOUS
    <3> HIDE DEF Bad
    <3> QED BY <1>1, <3>1, Smallest
  <2>2. T \subseteq S /\ ~(SumOver(f, T) <= SumOver(g, T)) /\ IsFiniteSet(T)
    BY <2>1, FS_Subset
  <2>3. T # {}
    <3>1. ASSUME T = {} PROVE SumOver(f, T) = 0 /\ SumOver(g, T) = 0
      BY <3>1, SumEmpty
    <3> QED BY <2>2, <3>1
  <2>4. AnyOf(T) \in T
    BY <2>3, Picked
  <2> DEFINE V == T \ {AnyOf(T)}
  <2>5. SumOver(f, V) <= SumOver(g, V)
    BY <2>1, <2>2, <2>4
  <2>6. SumOver(f, T) = f[AnyOf(T)] + SumOver(f, V) /\ SumOver(g, T) = g[AnyOf(T)] + SumOver(g, V)
    BY <2>2, <2>3, SumPick
  <2>7. IsFiniteSet(V) /\ V \subseteq S
    BY <2>2, FS_Subset
  <2>8. SumOver(f, V) \in Int /\ SumOver(g, V) \in Int
    BY <2>7, SumInt
  <2>9. f[AnyOf(T)] \in Int /\ g[AnyOf(T)] \in Int /\ f[AnyOf(T)] <= g[AnyOf(T)]
    BY <2>2, <2>4
  <2> HIDE DEF V
  <2> QED BY <2>2, <2>5, <2>6, <2>8, <2>9
<1> QED BY <1>1

\* The sum of the sums is the sum of what they add.
LEMMA SumPlus ==
  ASSUME NEW S, IsFiniteSet(S), NEW f, NEW g, NEW h,
         \A x \in S : f[x] \in Int /\ g[x] \in Int /\ h[x] = f[x] + g[x]
  PROVE  SumOver(h, S) = SumOver(f, S) + SumOver(g, S)
<1> DEFINE Bad == {T \in SUBSET S : SumOver(h, T) # SumOver(f, T) + SumOver(g, T)}
<1>1. ASSUME Bad # {} PROVE FALSE
  <2>1. PICK T \in Bad : \A U \in Bad : U \subseteq T => U = T
    <3>1. Bad \in SUBSET SUBSET S
      OBVIOUS
    <3> HIDE DEF Bad
    <3> QED BY <1>1, <3>1, Smallest
  <2>2. T \subseteq S /\ SumOver(h, T) # SumOver(f, T) + SumOver(g, T) /\ IsFiniteSet(T)
    BY <2>1, FS_Subset
  <2>3. T # {}
    <3>1. ASSUME T = {} PROVE SumOver(f, T) = 0 /\ SumOver(g, T) = 0 /\ SumOver(h, T) = 0
      BY <3>1, SumEmpty
    <3> QED BY <2>2, <3>1
  <2>4. AnyOf(T) \in T
    BY <2>3, Picked
  <2> DEFINE V == T \ {AnyOf(T)}
  <2>5. SumOver(h, V) = SumOver(f, V) + SumOver(g, V)
    BY <2>1, <2>2, <2>4
  <2>6. /\ SumOver(f, T) = f[AnyOf(T)] + SumOver(f, V)
        /\ SumOver(g, T) = g[AnyOf(T)] + SumOver(g, V)
        /\ SumOver(h, T) = h[AnyOf(T)] + SumOver(h, V)
    BY <2>2, <2>3, SumPick
  <2>7. IsFiniteSet(V) /\ V \subseteq S
    BY <2>2, FS_Subset
  <2>8. SumOver(f, V) \in Int /\ SumOver(g, V) \in Int
    BY <2>7, SumInt
  <2>9. /\ f[AnyOf(T)] \in Int /\ g[AnyOf(T)] \in Int
        /\ h[AnyOf(T)] = f[AnyOf(T)] + g[AnyOf(T)]
    BY <2>2, <2>4
  <2> HIDE DEF V
  <2> QED BY <2>2, <2>5, <2>6, <2>8, <2>9
<1> QED BY <1>1

\* The sum over two disjoint sets.
LEMMA SumUnion ==
  ASSUME NEW A, NEW B, IsFiniteSet(A), IsFiniteSet(B), A \cap B = {},
         NEW f, \A x \in A \cup B : f[x] \in Int
  PROVE  SumOver(f, A \cup B) = SumOver(f, A) + SumOver(f, B)
<1> DEFINE Bad == {T \in SUBSET B : SumOver(f, A \cup T) # SumOver(f, A) + SumOver(f, T)}
<1>1. ASSUME Bad # {} PROVE FALSE
  <2>1. PICK T \in Bad : \A U \in Bad : U \subseteq T => U = T
    <3>1. Bad \in SUBSET SUBSET B
      OBVIOUS
    <3> HIDE DEF Bad
    <3> QED BY <1>1, <3>1, Smallest
  <2>2. T \subseteq B /\ SumOver(f, A \cup T) # SumOver(f, A) + SumOver(f, T) /\ IsFiniteSet(T)
    BY <2>1, FS_Subset
  <2>3. SumOver(f, A) \in Int
    BY SumInt
  <2>4. T # {}
    <3>1. ASSUME T = {} PROVE FALSE
      <4>1. A \cup T = A /\ T = {}
        BY <3>1
      <4>2. SumOver(f, A) # SumOver(f, A) + SumOver(f, {})
        BY <2>2, <4>1, Zenon
      <4> QED BY <4>2, <2>3, SumEmpty
    <3> QED BY <3>1
  <2>5. AnyOf(T) \in T
    BY <2>4, Picked
  <2> DEFINE e == AnyOf(T)
             V == T \ {e}
             W == A \cup T
             X == A \cup V
  <2>6. SumOver(f, X) = SumOver(f, A) + SumOver(f, V)
    BY <2>1, <2>2, <2>5
  <2>7. SumOver(f, T) = f[e] + SumOver(f, V)
    BY <2>2, <2>4, SumPick
  <2>8. IsFiniteSet(W) /\ W \subseteq A \cup B /\ e \in W /\ W \ {e} = X /\ V \subseteq B
    <3>1. IsFiniteSet(W)
      BY <2>2, FS_Union
    <3> QED BY <3>1, <2>2, <2>5
  <2>9. f[e] \in Int /\ IsFiniteSet(V)
    BY <2>2, <2>5, FS_Subset
  <2> HIDE DEF e, V, W, X
  <2>10. SumOver(f, W) = f[e] + SumOver(f, X)
    BY <2>8, SumRemove
  <2>11. SumOver(f, V) \in Int
    BY <2>8, <2>9, SumInt
  <2>12. SumOver(f, W) = SumOver(f, A) + SumOver(f, T)
    BY <2>3, <2>6, <2>7, <2>9, <2>10, <2>11
  <2> QED BY <2>2, <2>12 DEF W
<1>2. SumOver(f, A \cup B) = SumOver(f, A) + SumOver(f, B)
  BY <1>1
<1> QED BY <1>2
=============================================================================
