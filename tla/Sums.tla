-------------------------------- MODULE Sums --------------------------------
(***************************************************************************)
(* The facts about SumFunctionOnSet(f, S), the sum of f over a finite set, *)
(* that the proofs about amounts and quantities need.  The library's       *)
(* induction theorems cannot be instantiated by the provers, so every      *)
(* induction here is by a least counterexample: a set that lacks the       *)
(* property and all of whose proper subsets have it.                       *)
(***************************************************************************)
EXTENDS Functions, FiniteSetTheorems, TLAPS

\* A nonempty set of subsets of a finite set has a least member.
LEMMA LeastSubset ==
    ASSUME NEW S, IsFiniteSet(S), NEW Bad \in SUBSET (SUBSET S), Bad # {}
    PROVE  \E T \in Bad : \A U \in SUBSET T : U # T => U \notin Bad
  <1>1. IsWellFoundedOn(StrictSubsetOrdering(S), FiniteSubsetsOf(S))
    BY FS_StrictSubsetOrderingWellFounded
  <1>2. FiniteSubsetsOf(S) = SUBSET S
    BY FS_FiniteSubsetsOfFinite
  <1>3. PICK T \in Bad : \A U \in Bad : ~ (<<U, T>> \in StrictSubsetOrdering(S))
    BY <1>1, <1>2, WFMin
  <1>4. ASSUME NEW U \in SUBSET T, U # T, U \in Bad
        PROVE  FALSE
    BY <1>3, <1>4 DEF StrictSubsetOrdering
  <1> QED BY <1>3, <1>4

-----------------------------------------------------------------------------
(* The recursion behind the sum.                                            *)

First(T) == CHOOSE x \in T : TRUE

\* g holds the partial sums of f over the subsets of S.
Recurs(g, f, S) ==
    g = [T \in SUBSET S |-> IF T = {} THEN 0 ELSE f[First(T)] + g[T \ {First(T)}]]

Partial(f, S) == CHOOSE g : Recurs(g, f, S)

LEMMA SumIsPartial ==
    ASSUME NEW f, NEW S
    PROVE  SumFunctionOnSet(f, S) = Partial(f, S)[S]
  BY DEF SumFunctionOnSet, FoldFunctionOnSet, MapThenFoldSet, Partial, Recurs, First

LEMMA FirstMember ==
    ASSUME NEW T, T # {}
    PROVE  First(T) \in T
  BY DEF First

\* Partial sums over a set and over a subset of it agree.
LEMMA RecursUnique ==
    ASSUME NEW S, IsFiniteSet(S), NEW R \in SUBSET S, NEW f,
           NEW g, Recurs(g, f, S), NEW h, Recurs(h, f, R)
    PROVE  \A T \in SUBSET R : g[T] = h[T]
  <1> DEFINE Bad == {T \in SUBSET R : g[T] # h[T]}
  <1>1. IsFiniteSet(R)
    BY FS_Subset
  <1> SUFFICES ASSUME Bad # {} PROVE FALSE
    OBVIOUS
  <1>2. PICK T \in Bad : \A U \in SUBSET T : U # T => U \notin Bad
    <2>1. Bad \in SUBSET (SUBSET R)
      OBVIOUS
    <2> HIDE DEF Bad
    <2> QED BY <1>1, <2>1, LeastSubset
  <1>3. /\ g[T] = IF T = {} THEN 0 ELSE f[First(T)] + g[T \ {First(T)}]
        /\ h[T] = IF T = {} THEN 0 ELSE f[First(T)] + h[T \ {First(T)}]
    BY <1>2 DEF Recurs
  <1>4. T # {} /\ First(T) \in T
    BY <1>2, <1>3, FirstMember
  <1>5. g[T \ {First(T)}] = h[T \ {First(T)}]
    BY <1>2, <1>4
  <1> QED BY <1>2, <1>3, <1>4, <1>5

\* The recursion has a solution.
LEMMA PartialRecurs ==
    ASSUME NEW S, IsFiniteSet(S), NEW f
    PROVE  Recurs(Partial(f, S), f, S)
  <1> DEFINE Bad == {T \in SUBSET S : ~Recurs(Partial(f, T), f, T)}
             Sum(T) == Partial(f, T)[T]
  <1> SUFFICES ASSUME Bad # {} PROVE FALSE
    OBVIOUS
  <1>1. PICK T \in Bad : \A U \in SUBSET T : U # T => U \notin Bad
    <2>1. Bad \in SUBSET (SUBSET S)
      OBVIOUS
    <2> HIDE DEF Bad
    <2> QED BY <2>1, LeastSubset
  <1>2. ASSUME NEW U \in SUBSET T, U # T
        PROVE  Recurs(Partial(f, U), f, U)
    BY <1>1, <1>2
  <1>3. ASSUME NEW U \in SUBSET T, U # T
        PROVE  Sum(U) = IF U = {} THEN 0 ELSE f[First(U)] + Sum(U \ {First(U)})
    <2>1. Sum(U) = IF U = {} THEN 0
                   ELSE f[First(U)] + Partial(f, U)[U \ {First(U)}]
      BY <1>2, <1>3 DEF Recurs
    <2>2. CASE U = {}
      BY <2>1, <2>2
    <2>3. CASE U # {}
      <3> DEFINE V == U \ {First(U)}
      <3>1. V \in SUBSET U /\ V \in SUBSET T /\ V # T
        BY <2>3, FirstMember
      <3>2. Recurs(Partial(f, V), f, V) /\ Recurs(Partial(f, U), f, U)
        BY <1>2, <1>3, <3>1
      <3>3. IsFiniteSet(U)
        BY FS_Subset
      <3>4. Partial(f, U)[V] = Sum(V)
        BY <3>1, <3>2, <3>3, RecursUnique
      <3> QED BY <2>1, <2>3, <3>4
    <2> QED BY <2>2, <2>3
  <1> DEFINE g == [U \in SUBSET T |->
                     IF U = {} THEN 0 ELSE f[First(U)] + Sum(U \ {First(U)})]
  <1>4. ASSUME NEW U \in SUBSET T, U # {}
        PROVE  g[U \ {First(U)}] = Sum(U \ {First(U)})
    <2> DEFINE V == U \ {First(U)}
    <2>1. V \in SUBSET T /\ V # T
      BY <1>4, FirstMember
    <2>2. g[V] = IF V = {} THEN 0 ELSE f[First(V)] + Sum(V \ {First(V)})
      BY <2>1
    <2>3. Sum(V) = IF V = {} THEN 0 ELSE f[First(V)] + Sum(V \ {First(V)})
      BY <1>3, <2>1
    <2> QED BY <2>2, <2>3
  <1>5. Recurs(g, f, T)
    <2> HIDE DEF Sum
    <2> DEFINE h == [U \in SUBSET T |->
                     IF U = {} THEN 0 ELSE f[First(U)] + g[U \ {First(U)}]]
    <2>1. ASSUME NEW U \in SUBSET T
          PROVE  g[U] = h[U]
      BY <1>4
    <2>2. g = h
      BY <2>1
    <2> QED BY <2>2 DEF Recurs
  <1>6. Recurs(Partial(f, T), f, T)
    <2> HIDE DEF g
    <2> QED BY <1>5 DEF Partial
  <1> QED BY <1>1, <1>6

-----------------------------------------------------------------------------
(* What is used of sums.                                                    *)

LEMMA SumEmpty ==
    ASSUME NEW f
    PROVE  SumFunctionOnSet(f, {}) = 0
  <1>1. Recurs(Partial(f, {}), f, {})
    BY FS_EmptySet, PartialRecurs
  <1> QED BY <1>1, SumIsPartial DEF Recurs

LEMMA SumRecurs ==
    ASSUME NEW S, IsFiniteSet(S), S # {}, NEW f
    PROVE  SumFunctionOnSet(f, S)
             = f[First(S)] + SumFunctionOnSet(f, S \ {First(S)})
  <1> DEFINE T == S \ {First(S)}
  <1>1. IsFiniteSet(T)
    BY FS_Subset
  <1>2. Recurs(Partial(f, S), f, S) /\ Recurs(Partial(f, T), f, T)
    BY <1>1, PartialRecurs
  <1>3. Partial(f, S)[T] = Partial(f, T)[T]
    BY <1>2, RecursUnique
  <1>4. Partial(f, S)[S] = f[First(S)] + Partial(f, S)[T]
    BY <1>2 DEF Recurs
  <1> QED BY <1>3, <1>4, SumIsPartial

\* A sum of integers is an integer.
LEMMA SumType ==
    ASSUME NEW S, IsFiniteSet(S), NEW f, \A x \in S : f[x] \in Int
    PROVE  SumFunctionOnSet(f, S) \in Int
  <1> DEFINE Bad == {T \in SUBSET S : SumFunctionOnSet(f, T) \notin Int}
  <1> SUFFICES ASSUME Bad # {} PROVE FALSE
    OBVIOUS
  <1>1. PICK T \in Bad : \A U \in SUBSET T : U # T => U \notin Bad
    <2>1. Bad \in SUBSET (SUBSET S)
      OBVIOUS
    <2> HIDE DEF Bad
    <2> QED BY <2>1, LeastSubset
  <1>2. T # {} /\ IsFiniteSet(T)
    <2>1. T # {}
      <3>1. SumFunctionOnSet(f, T) \notin Int
        BY <1>1
      <3>2. SumFunctionOnSet(f, {}) \in Int
        BY SumEmpty
      <3> QED BY <3>1, <3>2
    <2>2. IsFiniteSet(T)
      BY <1>1, FS_Subset
    <2> QED BY <2>1, <2>2
  <1>3. First(T) \in T /\ SumFunctionOnSet(f, T \ {First(T)}) \in Int
    BY <1>1, <1>2, FirstMember
  <1>4. SumFunctionOnSet(f, T)
             = f[First(T)] + SumFunctionOnSet(f, T \ {First(T)})
    BY <1>2, SumRecurs
  <1> QED BY <1>1, <1>3, <1>4

\* Any element of the set can be taken out of the sum.
LEMMA SumTakeOut ==
    ASSUME NEW S, IsFiniteSet(S), NEW f, \A x \in S : f[x] \in Int, NEW e \in S
    PROVE  SumFunctionOnSet(f, S) = f[e] + SumFunctionOnSet(f, S \ {e})
  <1> DEFINE Bad == {T \in SUBSET S : \E x \in T :
                SumFunctionOnSet(f, T) # f[x] + SumFunctionOnSet(f, T \ {x})}
  <1> SUFFICES ASSUME Bad # {} PROVE FALSE
    BY S \in SUBSET S
  <1>1. PICK T \in Bad : \A U \in SUBSET T : U # T => U \notin Bad
    <2>1. Bad \in SUBSET (SUBSET S)
      OBVIOUS
    <2> HIDE DEF Bad
    <2> QED BY <2>1, LeastSubset
  <1>2. PICK x \in T : SumFunctionOnSet(f, T) # f[x] + SumFunctionOnSet(f, T \ {x})
    BY <1>1
  <1> DEFINE c == First(T)
  <1>3. c \in T /\ T \in SUBSET S
    BY FirstMember
  <1>4. /\ IsFiniteSet(T) /\ IsFiniteSet(T \ {c}) /\ IsFiniteSet(T \ {x})
        /\ IsFiniteSet((T \ {x}) \ {c})
    BY <1>3, FS_Subset, FS_RemoveElement
  <1>5. SumFunctionOnSet(f, T) = f[c] + SumFunctionOnSet(f, T \ {c})
    BY <1>3, <1>4, SumRecurs
  <1>6. c # x
    BY <1>2, <1>5
  <1>7. SumFunctionOnSet(f, T \ {c}) = f[x] + SumFunctionOnSet(f, (T \ {c}) \ {x})
    <2> HIDE DEF c
    <2>1. T \ {c} \in SUBSET T /\ T \ {c} # T /\ x \in T \ {c}
      BY <1>3, <1>6
    <2> QED BY <1>1, <2>1
  <1>8. SumFunctionOnSet(f, T \ {x}) = f[c] + SumFunctionOnSet(f, (T \ {x}) \ {c})
    <2> HIDE DEF c
    <2>1. T \ {x} \in SUBSET T /\ T \ {x} # T /\ c \in T \ {x}
      BY <1>2, <1>3, <1>6
    <2> QED BY <1>1, <2>1
  <1>9. (T \ {x}) \ {c} = (T \ {c}) \ {x}
    OBVIOUS
  <1>10. SumFunctionOnSet(f, (T \ {x}) \ {c}) \in Int
    BY <1>3, <1>4, SumType
  <1> HIDE DEF c
  <1>11. f[c] \in Int /\ f[x] \in Int
    BY <1>2, <1>3
  <1> QED BY <1>2, <1>5, <1>7, <1>8, <1>9, <1>10, <1>11

\* One more element adds its value.
LEMMA SumAdd ==
    ASSUME NEW S, IsFiniteSet(S), NEW f, NEW e, e \notin S,
           \A x \in S \cup {e} : f[x] \in Int
    PROVE  SumFunctionOnSet(f, S \cup {e}) = SumFunctionOnSet(f, S) + f[e]
  <1>1. IsFiniteSet(S \cup {e}) /\ (S \cup {e}) \ {e} = S
    BY FS_AddElement
  <1>2. SumFunctionOnSet(f, S \cup {e}) = f[e] + SumFunctionOnSet(f, S)
    BY <1>1, SumTakeOut
  <1> QED BY <1>2, SumType

\* A sum depends on no value of its function outside the set.
LEMMA SumSame ==
    ASSUME NEW S, IsFiniteSet(S), NEW f, NEW g, \A x \in S : f[x] = g[x]
    PROVE  SumFunctionOnSet(f, S) = SumFunctionOnSet(g, S)
  <1> DEFINE Bad == {T \in SUBSET S : SumFunctionOnSet(f, T) # SumFunctionOnSet(g, T)}
  <1> SUFFICES ASSUME Bad # {} PROVE FALSE
    OBVIOUS
  <1>1. PICK T \in Bad : \A U \in SUBSET T : U # T => U \notin Bad
    <2>1. Bad \in SUBSET (SUBSET S)
      OBVIOUS
    <2> HIDE DEF Bad
    <2> QED BY <2>1, LeastSubset
  <1>2. T # {} /\ IsFiniteSet(T)
    <2>1. T # {}
      BY <1>1, SumEmpty
    <2>2. IsFiniteSet(T)
      BY <1>1, FS_Subset
    <2> QED BY <2>1, <2>2
  <1>3. First(T) \in T
        /\ SumFunctionOnSet(f, T \ {First(T)}) = SumFunctionOnSet(g, T \ {First(T)})
    BY <1>1, <1>2, FirstMember
  <1>4. /\ SumFunctionOnSet(f, T)
             = f[First(T)] + SumFunctionOnSet(f, T \ {First(T)})
        /\ SumFunctionOnSet(g, T)
             = g[First(T)] + SumFunctionOnSet(g, T \ {First(T)})
    BY <1>2, SumRecurs
  <1> QED BY <1>1, <1>3, <1>4

\* A sum of naturals is a natural.
LEMMA SumNat ==
    ASSUME NEW S, IsFiniteSet(S), NEW f, \A x \in S : f[x] \in Nat
    PROVE  SumFunctionOnSet(f, S) \in Nat
  <1> DEFINE Bad == {T \in SUBSET S : SumFunctionOnSet(f, T) \notin Nat}
  <1> SUFFICES ASSUME Bad # {} PROVE FALSE
    OBVIOUS
  <1>1. PICK T \in Bad : \A U \in SUBSET T : U # T => U \notin Bad
    <2>1. Bad \in SUBSET (SUBSET S)
      OBVIOUS
    <2> HIDE DEF Bad
    <2> QED BY <2>1, LeastSubset
  <1>2. T # {} /\ IsFiniteSet(T)
    <2>1. T # {}
      <3>1. SumFunctionOnSet(f, T) \notin Nat
        BY <1>1
      <3>2. SumFunctionOnSet(f, {}) \in Nat
        BY SumEmpty
      <3> QED BY <3>1, <3>2
    <2>2. IsFiniteSet(T)
      BY <1>1, FS_Subset
    <2> QED BY <2>1, <2>2
  <1>3. First(T) \in T /\ SumFunctionOnSet(f, T \ {First(T)}) \in Nat
    BY <1>1, <1>2, FirstMember
  <1>4. SumFunctionOnSet(f, T)
             = f[First(T)] + SumFunctionOnSet(f, T \ {First(T)})
    BY <1>2, SumRecurs
  <1> QED BY <1>1, <1>3, <1>4

\* No summand exceeds a sum of naturals.
LEMMA SumMember ==
    ASSUME NEW S, IsFiniteSet(S), NEW f, \A x \in S : f[x] \in Nat, NEW e \in S
    PROVE  f[e] <= SumFunctionOnSet(f, S)
  <1>1. IsFiniteSet(S \ {e})
    BY FS_Subset
  <1>2. SumFunctionOnSet(f, S \ {e}) \in Nat
    BY <1>1, SumNat
  <1>3. SumFunctionOnSet(f, S) = f[e] + SumFunctionOnSet(f, S \ {e})
    BY SumTakeOut
  <1> QED BY <1>2, <1>3

\* A sum of naturals grows with its set.
LEMMA SumMono ==
    ASSUME NEW T, IsFiniteSet(T), NEW S \in SUBSET T, NEW f, \A x \in T : f[x] \in Nat
    PROVE  SumFunctionOnSet(f, S) <= SumFunctionOnSet(f, T)
  <1> DEFINE Bad == {U \in SUBSET T : S \subseteq U
                        /\ ~(SumFunctionOnSet(f, S) <= SumFunctionOnSet(f, U))}
  <1> SUFFICES ASSUME Bad # {} PROVE FALSE
    OBVIOUS
  <1>1. PICK U \in Bad : \A V \in SUBSET U : V # U => V \notin Bad
    <2>1. Bad \in SUBSET (SUBSET T)
      OBVIOUS
    <2> HIDE DEF Bad
    <2> QED BY <2>1, LeastSubset
  <1>2. IsFiniteSet(S) /\ IsFiniteSet(U)
    BY <1>1, FS_Subset
  <1>3. SumFunctionOnSet(f, S) \in Nat
    BY <1>2, SumNat
  <1>4. S # U
    BY <1>1, <1>3
  <1>5. PICK e \in U : e \notin S
    BY <1>1, <1>4
  <1> DEFINE V == U \ {e}
  <1>6. V \in SUBSET U /\ V # U /\ S \subseteq V /\ IsFiniteSet(V)
    BY <1>1, <1>2, <1>5, FS_Subset
  <1>7. SumFunctionOnSet(f, S) <= SumFunctionOnSet(f, V)
    BY <1>1, <1>6
  <1>8. SumFunctionOnSet(f, V) \in Nat
    BY <1>1, <1>6, SumNat
  <1>9. SumFunctionOnSet(f, U) = f[e] + SumFunctionOnSet(f, V) /\ f[e] \in Nat
    BY <1>1, <1>2, <1>5, SumTakeOut
  <1> HIDE DEF V
  <1> QED BY <1>1, <1>3, <1>7, <1>8, <1>9
=============================================================================
