------------------------------ MODULE SumProofs ------------------------------
(***************************************************************************)
(* Facts about SumFunctionOnSet and SumFunction of the Functions module,   *)
(* for the proofs about points, shares and collateral, and two about the   *)
(* subsets of a finite set.                                                *)
(*                                                                         *)
(* A sum is a fold, and a fold is a recursive function on the subsets of   *)
(* its set.  The arguments below are inductions over those subsets, put as *)
(* a minimal counterexample: among the subsets for which the claim fails   *)
(* there is one without smaller ones (MinimalSubset).                      *)
(***************************************************************************)
EXTENDS Integers, FiniteSets, Functions, FiniteSetTheorems, TLAPS

LEMMA MinimalSubset ==
    ASSUME NEW S, IsFiniteSet(S), NEW B \in SUBSET SUBSET S, B # {}
    PROVE  \E T \in B : \A V \in B : V \subseteq T => V = T
  <1>1. IsWellFoundedOn(StrictSubsetOrdering(S), FiniteSubsetsOf(S))
    BY FS_StrictSubsetOrderingWellFounded
  <1>2. B \subseteq FiniteSubsetsOf(S)
    BY FS_FiniteSubsetsOfFinite
  <1>3. \E T \in B : \A V \in B : ~ (<<V, T>> \in StrictSubsetOrdering(S))
    BY <1>1, <1>2, WFMin
  <1>4. QED
    BY <1>3 DEF StrictSubsetOrdering

\* Induction over the subsets, with the set G of those for which a claim holds.
LEMMA SubsetInduction ==
    ASSUME NEW S, IsFiniteSet(S), NEW G, {} \in G,
           \A T \in SUBSET S : (T # {} /\ \A x \in T : T \ {x} \in G) => T \in G
    PROVE  S \in G
  <1> DEFINE B == {T \in SUBSET S : T \notin G}
  <1>1. SUFFICES ASSUME B # {} PROVE FALSE
    OBVIOUS
  <1>2. PICK T \in B : \A W \in B : W \subseteq T => W = T
    <2>1. B \in SUBSET SUBSET S
      OBVIOUS
    <2> HIDE DEF B
    <2>2. QED
      BY <1>1, <2>1, MinimalSubset
  <1>3. T # {} /\ T \in SUBSET S /\ T \notin G
    BY <1>2
  <1>4. ASSUME NEW x \in T PROVE T \ {x} \in G
    BY <1>2, <1>3
  <1>5. QED
    BY <1>3, <1>4

LEMMA LargestOfFinite ==
    ASSUME NEW S \in SUBSET Int, IsFiniteSet(S), S # {}
    PROVE  \E x \in S : \A y \in S : x >= y
  <1> DEFINE HasMax(T) == \E x \in T : \A y \in T : x >= y
             G == {T \in SUBSET S : T = {} \/ HasMax(T)}
  <1>1. {} \in G
    OBVIOUS
  <1>2. ASSUME NEW T \in SUBSET S, T # {}, \A z \in T : T \ {z} \in G
        PROVE  T \in G
    <2>1. PICK z \in T : TRUE
      BY <1>2
    <2>2. CASE T \ {z} = {}
      <3>1. \A y \in T : z >= y
        BY <2>2
      <3>2. QED
        BY <3>1
    <2>3. CASE HasMax(T \ {z})
      <3>1. PICK x \in T \ {z} : \A y \in T \ {z} : x >= y
        BY <2>3
      <3>2. CASE x >= z
        BY <3>1, <3>2
      <3>3. CASE z >= x
        <4>1. \A y \in T : z >= y
          BY <3>1, <3>3
        <4>2. QED
          BY <4>1
      <3>4. QED
        BY <3>2, <3>3
    <2>4. QED
      BY <1>2, <2>2, <2>3
  <1>3. \A T \in SUBSET S : (T # {} /\ \A z \in T : T \ {z} \in G) => T \in G
    BY <1>2
  <1> HIDE DEF G
  <1>4. S \in G
    BY <1>1, <1>3, SubsetInduction
  <1>5. QED
    BY <1>4 DEF G

-----------------------------------------------------------------------------
(* The recursive function behind a sum                                     *)

Chosen(s) == CHOOSE x \in s : TRUE

LEMMA ChosenIsElement == ASSUME NEW s, s # {} PROVE Chosen(s) \in s
  BY DEF Chosen

IsIter(g, f, S) ==
    g = [s \in SUBSET S |-> IF s = {} THEN 0 ELSE f[Chosen(s)] + g[s \ {Chosen(s)}]]

Iter(f, S) == CHOOSE g : IsIter(g, f, S)

LEMMA SumIsIter ==
    ASSUME NEW f, NEW S
    PROVE  SumFunctionOnSet(f, S) = Iter(f, S)[S]
  <1>1. SumFunctionOnSet(f, S) =
          (CHOOSE iter : iter = [s \in SUBSET S |->
              IF s = {} THEN 0
              ELSE LET x == CHOOSE x \in s : TRUE IN f[x] + iter[s \ {x}]])[S]
    BY Zenon DEF SumFunctionOnSet, FoldFunctionOnSet, MapThenFoldSet
  <1>2. QED
    BY <1>1 DEF Iter, IsIter, Chosen

LEMMA IterValue ==
    ASSUME NEW f, NEW S, NEW g, IsIter(g, f, S), NEW s \in SUBSET S
    PROVE  g[s] = IF s = {} THEN 0 ELSE f[Chosen(s)] + g[s \ {Chosen(s)}]
  <1> DEFINE G == [r \in SUBSET S |-> IF r = {} THEN 0 ELSE f[Chosen(r)] + g[r \ {Chosen(r)}]]
  <1>1. g = G
    BY DEF IsIter
  <1>2. G[s] = IF s = {} THEN 0 ELSE f[Chosen(s)] + g[s \ {Chosen(s)}]
    OBVIOUS
  <1> HIDE DEF G
  <1>3. QED
    BY <1>1, <1>2

\* On the sets that two of these functions share they agree.
LEMMA IterUnique ==
    ASSUME NEW f, NEW S, IsFiniteSet(S), NEW T \in SUBSET S,
           NEW g, IsIter(g, f, S), NEW h, IsIter(h, f, T)
    PROVE  \A V \in SUBSET T : g[V] = h[V]
  <1> DEFINE B == {V \in SUBSET T : g[V] # h[V]}
  <1>1. SUFFICES ASSUME B # {} PROVE FALSE
    OBVIOUS
  <1>2. IsFiniteSet(T)
    BY FS_Subset
  <1>3. PICK V \in B : \A W \in B : W \subseteq V => W = V
    <2>1. B \in SUBSET SUBSET T
      OBVIOUS
    <2> HIDE DEF B
    <2>2. QED
      BY <1>1, <1>2, <2>1, MinimalSubset
  <1>4. V \in SUBSET T /\ V \in SUBSET S /\ g[V] # h[V]
    BY <1>3
  <1>5. /\ g[V] = IF V = {} THEN 0 ELSE f[Chosen(V)] + g[V \ {Chosen(V)}]
        /\ h[V] = IF V = {} THEN 0 ELSE f[Chosen(V)] + h[V \ {Chosen(V)}]
    <2> HIDE DEF B
    <2>1. g[V] = IF V = {} THEN 0 ELSE f[Chosen(V)] + g[V \ {Chosen(V)}]
      BY <1>4, IterValue
    <2>2. h[V] = IF V = {} THEN 0 ELSE f[Chosen(V)] + h[V \ {Chosen(V)}]
      BY <1>4, IterValue
    <2>3. QED
      BY <2>1, <2>2
  <1>6. V # {}
    BY <1>4, <1>5
  <1>7. Chosen(V) \in V
    BY <1>6, ChosenIsElement
  <1>8. g[V \ {Chosen(V)}] = h[V \ {Chosen(V)}]
    <2> DEFINE W == V \ {Chosen(V)}
    <2>1. W \in SUBSET T /\ W \subseteq V /\ W # V
      BY <1>4, <1>7
    <2>2. W \notin B
      BY <1>3, <2>1
    <2>3. QED
      BY <2>1, <2>2
  <1>9. QED
    BY <1>4, <1>5, <1>6, <1>8

LEMMA IterExists ==
    ASSUME NEW f, NEW S, IsFiniteSet(S)
    PROVE  IsIter(Iter(f, S), f, S)
  <1> DEFINE B == {T \in SUBSET S : ~ IsIter(Iter(f, T), f, T)}
  <1>1. SUFFICES ASSUME B # {} PROVE FALSE
    OBVIOUS
  <1>2. PICK T \in B : \A W \in B : W \subseteq T => W = T
    <2>1. B \in SUBSET SUBSET S
      OBVIOUS
    <2> HIDE DEF B
    <2>2. QED
      BY <1>1, <2>1, MinimalSubset
  <1>3. T \in SUBSET S /\ ~ IsIter(Iter(f, T), f, T)
    BY <1>2
  <1>4. ASSUME NEW V \in SUBSET T, V # T PROVE IsIter(Iter(f, V), f, V) /\ IsFiniteSet(V)
    BY <1>2, <1>3, <1>4, FS_Subset
  <1> DEFINE g == [s \in SUBSET T |->
                      IF s = {} THEN 0
                      ELSE f[Chosen(s)] + Iter(f, s \ {Chosen(s)})[s \ {Chosen(s)}]]
  <1>5. ASSUME NEW s \in SUBSET T, s # {}
        PROVE  Iter(f, s \ {Chosen(s)})[s \ {Chosen(s)}] = g[s \ {Chosen(s)}]
    <2> DEFINE r == s \ {Chosen(s)}
    <2>1. Chosen(s) \in s
      BY <1>5, ChosenIsElement
    <2>2. r \in SUBSET T /\ r # T
      BY <2>1
    <2>3. IsIter(Iter(f, r), f, r) /\ IsFiniteSet(r)
      BY <1>4, <2>2
    <2> HIDE DEF r
    <2>4. Iter(f, r)[r] = IF r = {} THEN 0 ELSE f[Chosen(r)] + Iter(f, r)[r \ {Chosen(r)}]
      BY <2>3, IterValue
    <2>5. g[r] = IF r = {} THEN 0 ELSE f[Chosen(r)] + Iter(f, r \ {Chosen(r)})[r \ {Chosen(r)}]
      BY <2>2
    <2>6. CASE r = {}
      BY <2>4, <2>5, <2>6 DEF r
    <2>7. CASE r # {}
      <3> DEFINE q == r \ {Chosen(r)}
      <3>1. Chosen(r) \in r
        BY <2>7, ChosenIsElement
      <3>2. q \in SUBSET T /\ q # T /\ q \in SUBSET r
        BY <2>2, <3>1
      <3>3. IsIter(Iter(f, q), f, q)
        BY <1>4, <3>2
      <3> HIDE DEF q
      <3>4. \A V \in SUBSET q : Iter(f, r)[V] = Iter(f, q)[V]
        BY <2>3, <3>2, <3>3, IterUnique
      <3>5. Iter(f, r)[q] = Iter(f, q)[q]
        BY <3>4
      <3>6. QED
        BY <2>4, <2>5, <2>7, <3>5 DEF q, r
    <2>8. QED
      BY <2>6, <2>7
  <1>6. IsIter(g, f, T)
    <2> DEFINE h == [s \in SUBSET T |-> IF s = {} THEN 0 ELSE f[Chosen(s)] + g[s \ {Chosen(s)}]]
    <2>1. ASSUME NEW s \in SUBSET T PROVE g[s] = h[s]
      <3>1. h[s] = IF s = {} THEN 0 ELSE f[Chosen(s)] + g[s \ {Chosen(s)}]
        OBVIOUS
      <3>2. g[s] = IF s = {} THEN 0
                   ELSE f[Chosen(s)] + Iter(f, s \ {Chosen(s)})[s \ {Chosen(s)}]
        OBVIOUS
      <3> HIDE DEF g, h
      <3>3. QED
        BY <1>5, <3>1, <3>2
    <2>2. g = [s \in SUBSET T |-> g[s]] /\ h = [s \in SUBSET T |-> h[s]]
      OBVIOUS
    <2> HIDE DEF g, h
    <2>3. g = h
      BY <2>1, <2>2
    <2>4. QED
      BY <2>3 DEF h, IsIter
  <1> HIDE DEF g
  <1>7. QED
    BY <1>3, <1>6 DEF Iter
-----------------------------------------------------------------------------
(* Sums                                                                    *)

LEMMA SumEmpty == ASSUME NEW f PROVE SumFunctionOnSet(f, {}) = 0
  <1>1. IsIter(Iter(f, {}), f, {})
    BY FS_EmptySet, IterExists
  <1>2. Iter(f, {})[{}] = 0
    BY <1>1, IterValue
  <1>3. QED
    BY <1>2, SumIsIter

LEMMA SumEquation ==
    ASSUME NEW f, NEW S, IsFiniteSet(S), S # {}
    PROVE  \E x \in S : SumFunctionOnSet(f, S) = f[x] + SumFunctionOnSet(f, S \ {x})
  <1> DEFINE x == Chosen(S)
             T == S \ {x}
  <1>1. x \in S
    BY ChosenIsElement
  <1>2. T \in SUBSET S /\ IsFiniteSet(T)
    BY FS_Subset
  <1>3. IsIter(Iter(f, S), f, S) /\ IsIter(Iter(f, T), f, T)
    BY <1>2, IterExists
  <1>4. Iter(f, S)[S] = f[x] + Iter(f, S)[T]
    BY <1>3, IterValue
  <1>5. \A V \in SUBSET T : Iter(f, S)[V] = Iter(f, T)[V]
    <2> HIDE DEF T
    <2>1. QED
      BY <1>2, <1>3, IterUnique
  <1>6. Iter(f, S)[T] = Iter(f, T)[T]
    BY <1>5
  <1>7. SumFunctionOnSet(f, S) = Iter(f, S)[S] /\ SumFunctionOnSet(f, T) = Iter(f, T)[T]
    BY SumIsIter
  <1>8. QED
    BY <1>1, <1>4, <1>6, <1>7

LEMMA SumType ==
    ASSUME NEW f, NEW S, IsFiniteSet(S), \A x \in S : f[x] \in Int
    PROVE  SumFunctionOnSet(f, S) \in Int
  <1> DEFINE G == {T \in SUBSET S : SumFunctionOnSet(f, T) \in Int}
  <1>1. {} \in G
    BY SumEmpty
  <1>2. ASSUME NEW T \in SUBSET S, T # {}, \A x \in T : T \ {x} \in G
        PROVE  T \in G
    <2>1. PICK x \in T : SumFunctionOnSet(f, T) = f[x] + SumFunctionOnSet(f, T \ {x})
      BY <1>2, SumEquation, FS_Subset
    <2>2. SumFunctionOnSet(f, T \ {x}) \in Int /\ f[x] \in Int
      BY <1>2
    <2>3. QED
      BY <2>1, <2>2
  <1> HIDE DEF G
  <1>3. S \in G
    BY <1>1, <1>2, SubsetInduction
  <1>4. QED
    BY <1>3 DEF G

\* Any element can be taken out first.
LEMMA SumRemove ==
    ASSUME NEW f, NEW S, IsFiniteSet(S), \A x \in S : f[x] \in Int, NEW x \in S
    PROVE  SumFunctionOnSet(f, S) = f[x] + SumFunctionOnSet(f, S \ {x})
  <1> DEFINE Holds(T, y) == SumFunctionOnSet(f, T) = f[y] + SumFunctionOnSet(f, T \ {y})
             G == {T \in SUBSET S : \A y \in T : Holds(T, y)}
  <1>1. {} \in G
    OBVIOUS
  <1>2. ASSUME NEW T \in SUBSET S, T # {}, \A z \in T : T \ {z} \in G, NEW y \in T
        PROVE  Holds(T, y)
    <2>1. IsFiniteSet(T)
      BY FS_Subset
    <2>2. PICK z \in T : Holds(T, z)
      BY <1>2, <2>1, SumEquation
    <2>3. CASE y = z
      BY <2>2, <2>3
    <2>4. CASE y # z
      <3>1. Holds(T \ {z}, y) /\ Holds(T \ {y}, z)
        BY <1>2, <2>4
      <3>2. SumFunctionOnSet(f, (T \ {z}) \ {y}) = SumFunctionOnSet(f, (T \ {y}) \ {z})
        <4>1. (T \ {z}) \ {y} = (T \ {y}) \ {z}
          OBVIOUS
        <4>2. QED
          BY <4>1, Zenon
      <3>3. SumFunctionOnSet(f, (T \ {y}) \ {z}) \in Int
        <4>1. (T \ {y}) \ {z} \in SUBSET S
          OBVIOUS
        <4>2. IsFiniteSet((T \ {y}) \ {z}) /\ \A w \in (T \ {y}) \ {z} : f[w] \in Int
          BY <4>1, FS_Subset
        <4>3. QED
          BY <4>2, SumType
      <3>4. f[y] \in Int /\ f[z] \in Int
        OBVIOUS
      <3>5. QED
        BY <2>2, <3>1, <3>2, <3>3, <3>4
    <2>5. QED
      BY <2>3, <2>4
  <1>3. \A T \in SUBSET S : (T # {} /\ \A z \in T : T \ {z} \in G) => T \in G
    BY <1>2
  <1> HIDE DEF G
  <1>4. S \in G
    BY <1>1, <1>3, SubsetInduction
  <1>5. QED
    BY <1>4 DEF G

\* Functions with the same values have the same sum.
LEMMA SumSame ==
    ASSUME NEW f, NEW g, NEW S, IsFiniteSet(S),
           \A x \in S : f[x] \in Int /\ f[x] = g[x]
    PROVE  SumFunctionOnSet(f, S) = SumFunctionOnSet(g, S)
  <1> DEFINE G == {T \in SUBSET S : SumFunctionOnSet(f, T) = SumFunctionOnSet(g, T)}
  <1>1. {} \in G
    BY SumEmpty
  <1>2. ASSUME NEW T \in SUBSET S, T # {}, \A z \in T : T \ {z} \in G
        PROVE  T \in G
    <2>1. IsFiniteSet(T)
      BY FS_Subset
    <2>2. PICK z \in T : SumFunctionOnSet(f, T) = f[z] + SumFunctionOnSet(f, T \ {z})
      BY <1>2, <2>1, SumEquation
    <2>3. SumFunctionOnSet(g, T) = g[z] + SumFunctionOnSet(g, T \ {z})
      BY <2>1, SumRemove
    <2>4. SumFunctionOnSet(f, T \ {z}) = SumFunctionOnSet(g, T \ {z}) /\ f[z] = g[z]
      BY <1>2
    <2>5. QED
      BY <2>2, <2>3, <2>4
  <1>3. \A T \in SUBSET S : (T # {} /\ \A z \in T : T \ {z} \in G) => T \in G
    BY <1>2
  <1> HIDE DEF G
  <1>4. S \in G
    BY <1>1, <1>3, SubsetInduction
  <1>5. QED
    BY <1>4 DEF G

\* A function that changes at one point changes its sum by as much.
LEMMA SumChange ==
    ASSUME NEW f, NEW g, NEW S, IsFiniteSet(S), NEW c \in S,
           \A x \in S : f[x] \in Int /\ g[x] \in Int,
           \A x \in S \ {c} : g[x] = f[x]
    PROVE  SumFunctionOnSet(g, S) = SumFunctionOnSet(f, S) + (g[c] - f[c])
  <1>1. IsFiniteSet(S \ {c})
    BY FS_Subset
  <1>2. SumFunctionOnSet(f, S \ {c}) = SumFunctionOnSet(g, S \ {c})
    BY <1>1, SumSame
  <1>3. SumFunctionOnSet(f, S \ {c}) \in Int
    BY <1>1, SumType
  <1>4. /\ SumFunctionOnSet(f, S) = f[c] + SumFunctionOnSet(f, S \ {c})
        /\ SumFunctionOnSet(g, S) = g[c] + SumFunctionOnSet(g, S \ {c})
    BY SumRemove
  <1>5. QED
    BY <1>2, <1>3, <1>4

\* One more element in the set.
LEMMA SumAdd ==
    ASSUME NEW f, NEW S, IsFiniteSet(S), NEW c, c \notin S, \A x \in S \cup {c} : f[x] \in Int
    PROVE  SumFunctionOnSet(f, S \cup {c}) = f[c] + SumFunctionOnSet(f, S)
  <1>1. IsFiniteSet(S \cup {c})
    BY FS_AddElement
  <1>2. (S \cup {c}) \ {c} = S
    OBVIOUS
  <1>3. SumFunctionOnSet(f, S \cup {c}) = f[c] + SumFunctionOnSet(f, (S \cup {c}) \ {c})
    BY <1>1, SumRemove
  <1>4. QED
    BY <1>2, <1>3

\* The sums over two sets without a common element add up.
LEMMA SumUnion ==
    ASSUME NEW f, NEW S, NEW R, IsFiniteSet(S), IsFiniteSet(R), S \cap R = {},
           \A x \in S \cup R : f[x] \in Int
    PROVE  SumFunctionOnSet(f, S \cup R) = SumFunctionOnSet(f, S) + SumFunctionOnSet(f, R)
  <1> DEFINE Holds(T) ==
          SumFunctionOnSet(f, S \cup T) = SumFunctionOnSet(f, S) + SumFunctionOnSet(f, T)
             G == {T \in SUBSET R : Holds(T)}
  <1>1. {} \in G
    <2>1. SumFunctionOnSet(f, S) \in Int /\ SumFunctionOnSet(f, {}) = 0 /\ S \cup {} = S
      BY SumType, SumEmpty
    <2>2. QED
      BY <2>1
  <1>2. ASSUME NEW T \in SUBSET R, T # {}, \A z \in T : T \ {z} \in G
        PROVE  Holds(T)
    <2>1. PICK z \in T : TRUE
      BY <1>2
    <2> DEFINE U == T \ {z}
    <2>2. Holds(U) /\ U \in SUBSET R
      BY <1>2
    <2>3. IsFiniteSet(U) /\ IsFiniteSet(S \cup U)
      BY <2>2, FS_Subset, FS_Union
    <2>4. z \notin U /\ z \notin S \cup U /\ S \cup T = (S \cup U) \cup {z} /\ T = U \cup {z}
      BY <2>1
    <2>5. /\ \A x \in U \cup {z} : f[x] \in Int
          /\ \A x \in (S \cup U) \cup {z} : f[x] \in Int
      BY <2>1, <2>2
    <2> HIDE DEF U
    <2>6. SumFunctionOnSet(f, (S \cup U) \cup {z}) = f[z] + SumFunctionOnSet(f, S \cup U)
      BY <2>3, <2>4, <2>5, SumAdd
    <2>7. SumFunctionOnSet(f, U \cup {z}) = f[z] + SumFunctionOnSet(f, U)
      BY <2>3, <2>4, <2>5, SumAdd
    <2>8. f[z] \in Int /\ SumFunctionOnSet(f, U) \in Int /\ SumFunctionOnSet(f, S) \in Int
      BY <2>3, <2>5, SumType
    <2>9. /\ SumFunctionOnSet(f, S \cup T) = f[z] + SumFunctionOnSet(f, S \cup U)
          /\ SumFunctionOnSet(f, T) = f[z] + SumFunctionOnSet(f, U)
      BY <2>4, <2>6, <2>7
    <2>10. SumFunctionOnSet(f, S \cup U) = SumFunctionOnSet(f, S) + SumFunctionOnSet(f, U)
      BY <2>2
    <2>11. QED
      BY <2>8, <2>9, <2>10
  <1>3. \A T \in SUBSET R : (T # {} /\ \A z \in T : T \ {z} \in G) => T \in G
    BY <1>2
  <1> HIDE DEF G
  <1>4. R \in G
    BY <1>1, <1>3, SubsetInduction
  <1>5. QED
    BY <1>4 DEF G

\* The sum of k * f[x] + c over S.
Linear(f, S, k, c) == [x \in S |-> k * f[x] + c]

LEMMA SumLinear ==
    ASSUME NEW f, NEW S, IsFiniteSet(S), NEW k \in Int, NEW c \in Int, \A x \in S : f[x] \in Int
    PROVE  SumFunctionOnSet(Linear(f, S, k, c), S) = k * SumFunctionOnSet(f, S) + Cardinality(S) * c
  <1> DEFINE g == Linear(f, S, k, c)
  <1>0. \A x \in S : f[x] \in Int /\ g[x] = k * f[x] + c
    BY DEF Linear
  <1> HIDE DEF g
  <1> DEFINE Holds(T) == SumFunctionOnSet(g, T) = k * SumFunctionOnSet(f, T) + Cardinality(T) * c
             G == {T \in SUBSET S : Holds(T)}
  <1>1. {} \in G
    BY SumEmpty, FS_EmptySet
  <1>2. ASSUME NEW T \in SUBSET S, T # {}, \A z \in T : T \ {z} \in G
        PROVE  Holds(T)
    <2>1. IsFiniteSet(T)
      BY FS_Subset
    <2>2. PICK z \in T : TRUE
      BY <1>2
    <2> DEFINE U == T \ {z}
               F == SumFunctionOnSet(f, U)
               N == Cardinality(U)
    <2>3. IsFiniteSet(U) /\ U \in SUBSET S
      BY <2>1, FS_Subset
    <2>4. F \in Int /\ N \in Int /\ f[z] \in Int
      BY <2>3, SumType, FS_CardinalityType
    <2>5. Holds(U)
      BY <1>2
    <2>6. \A x \in T : g[x] \in Int
      BY <1>0
    <2>7. SumFunctionOnSet(g, T) = g[z] + SumFunctionOnSet(g, U)
      BY <2>1, <2>6, SumRemove
    <2>8. SumFunctionOnSet(f, T) = f[z] + F
      BY <2>1, SumRemove
    <2>9. Cardinality(T) = N + 1
      <3>1. N = Cardinality(T) - 1 /\ Cardinality(T) \in Int
        BY <2>1, FS_RemoveElement, FS_CardinalityType
      <3>2. QED
        BY <3>1
    <2>10. g[z] = k * f[z] + c
      BY <1>0
    <2> HIDE DEF F, N
    <2>11. k * (f[z] + F) = k * f[z] + k * F /\ (N + 1) * c = N * c + c
      BY <2>4
    <2>12. k * f[z] \in Int /\ k * F \in Int /\ N * c \in Int
      BY <2>4
    <2>13. SumFunctionOnSet(g, U) = k * F + N * c
      BY <2>5 DEF F, N
    <2>14. QED
      BY <2>7, <2>8, <2>9, <2>10, <2>11, <2>12, <2>13
  <1>3. \A T \in SUBSET S : (T # {} /\ \A z \in T : T \ {z} \in G) => T \in G
    BY <1>2
  <1> HIDE DEF G
  <1>4. S \in G
    BY <1>1, <1>3, SubsetInduction
  <1>5. QED
    BY <1>4 DEF G, g

\* The sum of f[x] + g[x].
LEMMA SumPointwise ==
    ASSUME NEW f, NEW g, NEW h, NEW S, IsFiniteSet(S),
           \A x \in S : f[x] \in Int /\ g[x] \in Int /\ h[x] = f[x] + g[x]
    PROVE  SumFunctionOnSet(h, S) = SumFunctionOnSet(f, S) + SumFunctionOnSet(g, S)
  <1> DEFINE Holds(T) ==
               SumFunctionOnSet(h, T) = SumFunctionOnSet(f, T) + SumFunctionOnSet(g, T)
             G == {T \in SUBSET S : Holds(T)}
  <1>1. {} \in G
    BY SumEmpty
  <1>2. ASSUME NEW T \in SUBSET S, T # {}, \A z \in T : T \ {z} \in G
        PROVE  Holds(T)
    <2>1. IsFiniteSet(T)
      BY FS_Subset
    <2>2. PICK z \in T : TRUE
      BY <1>2
    <2> DEFINE U == T \ {z}
    <2>3. IsFiniteSet(U) /\ U \in SUBSET S
      BY <2>1, FS_Subset
    <2>4. SumFunctionOnSet(f, U) \in Int /\ SumFunctionOnSet(g, U) \in Int
      BY <2>3, SumType
    <2>5. Holds(U)
      BY <1>2
    <2>6. SumFunctionOnSet(f, T) = f[z] + SumFunctionOnSet(f, U)
      BY <2>1, SumRemove
    <2>7. SumFunctionOnSet(g, T) = g[z] + SumFunctionOnSet(g, U)
      BY <2>1, SumRemove
    <2>8. SumFunctionOnSet(h, T) = h[z] + SumFunctionOnSet(h, U)
      <3>1. \A x \in T : h[x] \in Int
        OBVIOUS
      <3>2. QED
        BY <2>1, <3>1, SumRemove
    <2>9. h[z] = f[z] + g[z] /\ f[z] \in Int /\ g[z] \in Int
      OBVIOUS
    <2> HIDE DEF U
    <2>10. QED
      BY <2>4, <2>5, <2>6, <2>7, <2>8, <2>9
  <1>3. \A T \in SUBSET S : (T # {} /\ \A z \in T : T \ {z} \in G) => T \in G
    BY <1>2
  <1> HIDE DEF G
  <1>4. S \in G
    BY <1>1, <1>3, SubsetInduction
  <1>5. QED
    BY <1>4 DEF G

\* The smaller function has the smaller sum.
LEMMA SumMonotonic ==
    ASSUME NEW f, NEW g, NEW S, IsFiniteSet(S),
           \A x \in S : f[x] \in Int /\ g[x] \in Int /\ f[x] <= g[x]
    PROVE  SumFunctionOnSet(f, S) <= SumFunctionOnSet(g, S)
  <1> DEFINE Holds(T) == SumFunctionOnSet(f, T) <= SumFunctionOnSet(g, T)
             G == {T \in SUBSET S : Holds(T)}
  <1>1. {} \in G
    BY SumEmpty
  <1>2. ASSUME NEW T \in SUBSET S, T # {}, \A z \in T : T \ {z} \in G
        PROVE  Holds(T)
    <2>1. IsFiniteSet(T)
      BY FS_Subset
    <2>2. PICK z \in T : TRUE
      BY <1>2
    <2> DEFINE U == T \ {z}
    <2>3. IsFiniteSet(U) /\ U \in SUBSET S
      BY <2>1, FS_Subset
    <2>4. SumFunctionOnSet(f, U) \in Int /\ SumFunctionOnSet(g, U) \in Int
      BY <2>3, SumType
    <2>5. Holds(U)
      BY <1>2
    <2>6. SumFunctionOnSet(f, T) = f[z] + SumFunctionOnSet(f, U)
      BY <2>1, SumRemove
    <2>7. SumFunctionOnSet(g, T) = g[z] + SumFunctionOnSet(g, U)
      BY <2>1, SumRemove
    <2>8. f[z] <= g[z] /\ f[z] \in Int /\ g[z] \in Int
      OBVIOUS
    <2> HIDE DEF U
    <2>9. QED
      BY <2>4, <2>5, <2>6, <2>7, <2>8
  <1>3. \A T \in SUBSET S : (T # {} /\ \A z \in T : T \ {z} \in G) => T \in G
    BY <1>2
  <1> HIDE DEF G
  <1>4. S \in G
    BY <1>1, <1>3, SubsetInduction
  <1>5. QED
    BY <1>4 DEF G

\* Shares of a whole, each cut down by less than one: they are short of it by
\* less than one for each of them.
LEMMA CutShares ==
    ASSUME NEW S, IsFiniteSet(S), NEW f, NEW g, NEW n \in Nat \ {0}, NEW whole \in Int,
           \A x \in S : f[x] \in Int /\ g[x] \in Int,
           \A x \in S : g[x] * n <= f[x] * whole /\ f[x] * whole - n <= g[x] * n,
           SumFunctionOnSet(f, S) = n
    PROVE  /\ SumFunctionOnSet(g, S) * n <= whole * n
           /\ (whole - Cardinality(S)) * n <= SumFunctionOnSet(g, S) * n
  <1> DEFINE minus == -n
             scaled == Linear(g, S, n, 0)
             upper == Linear(f, S, whole, 0)
             lower == Linear(f, S, whole, minus)
             sum == SumFunctionOnSet(g, S)
             N == Cardinality(S)
  <1>1. sum \in Int /\ N \in Nat /\ minus \in Int
    BY SumType, FS_CardinalityType
  <1>5. \A x \in S : scaled[x] \in Int /\ upper[x] \in Int /\ scaled[x] <= upper[x]
    BY DEF Linear
  <1>6. \A x \in S : lower[x] \in Int /\ scaled[x] \in Int /\ lower[x] <= scaled[x]
    BY DEF Linear
  <1> HIDE DEF minus
  <1>7. SumFunctionOnSet(scaled, S) = n * sum + N * 0
    BY SumLinear
  <1>8. SumFunctionOnSet(upper, S) = whole * n + N * 0
    BY SumLinear
  <1>9. SumFunctionOnSet(lower, S) = whole * n + N * minus
    BY <1>1, SumLinear
  <1> HIDE DEF scaled, upper, lower
  <1>10. SumFunctionOnSet(scaled, S) <= SumFunctionOnSet(upper, S)
    BY <1>5, SumMonotonic
  <1>11. SumFunctionOnSet(lower, S) <= SumFunctionOnSet(scaled, S)
    BY <1>6, SumMonotonic
  <1> HIDE DEF sum, N
  <1>12. N * 0 = 0 /\ n * sum = sum * n /\ N * minus = -(N * n)
    BY <1>1 DEF minus
  <1>13. (whole - N) * n = whole * n - N * n
    BY <1>1
  <1>14. sum * n \in Int /\ whole * n \in Int /\ N * n \in Int
    BY <1>1
  <1>15. QED
    BY <1>7, <1>8, <1>9, <1>10, <1>11, <1>12, <1>13, <1>14 DEF sum, N

\* Naturals: a sum of them is one, and no part exceeds it.
LEMMA SumOfNaturals ==
    ASSUME NEW f, NEW S, IsFiniteSet(S), \A x \in S : f[x] \in Nat
    PROVE  /\ SumFunctionOnSet(f, S) \in Nat
           /\ \A x \in S : f[x] <= SumFunctionOnSet(f, S)
  <1>1. ASSUME NEW T \in SUBSET S PROVE SumFunctionOnSet(f, T) \in Nat
    <2> DEFINE zero == Linear(f, T, 0, 0)
    <2>1. IsFiniteSet(T) /\ \A x \in T : f[x] \in Int
      BY FS_Subset
    <2>2. \A x \in T : zero[x] \in Int /\ f[x] \in Int /\ zero[x] <= f[x]
      BY DEF Linear
    <2>3. SumFunctionOnSet(zero, T) = 0 * SumFunctionOnSet(f, T) + Cardinality(T) * 0
      BY <2>1, SumLinear
    <2> HIDE DEF zero
    <2>4. SumFunctionOnSet(zero, T) <= SumFunctionOnSet(f, T)
      BY <2>1, <2>2, SumMonotonic
    <2>6. SumFunctionOnSet(f, T) \in Int /\ Cardinality(T) \in Int
      BY <2>1, SumType, FS_CardinalityType
    <2>7. SumFunctionOnSet(zero, T) = 0
      BY <2>3, <2>6
    <2>8. QED
      BY <2>4, <2>6, <2>7
  <1>2. ASSUME NEW x \in S PROVE f[x] <= SumFunctionOnSet(f, S)
    <2>1. SumFunctionOnSet(f, S) = f[x] + SumFunctionOnSet(f, S \ {x})
      BY SumRemove
    <2>2. SumFunctionOnSet(f, S \ {x}) \in Nat
      BY <1>1
    <2>3. QED
      BY <2>1, <2>2
  <1>3. QED
    BY <1>1, <1>2

-----------------------------------------------------------------------------
(* Sums over the whole domain of a function                                *)

LEMMA FunctionSumIs ==
    ASSUME NEW S, NEW f, DOMAIN f = S
    PROVE  SumFunction(f) = SumFunctionOnSet(f, S)
  BY DEF SumFunction

LEMMA FunctionSumType ==
    ASSUME NEW S, IsFiniteSet(S), NEW f \in [S -> Int]
    PROVE  SumFunction(f) \in Int
  BY SumType, FunctionSumIs

LEMMA FunctionSumZero ==
    ASSUME NEW S, IsFiniteSet(S), NEW f, DOMAIN f = S, \A x \in S : f[x] = 0
    PROVE  SumFunction(f) = 0
  <1> DEFINE zero == Linear(f, S, 0, 0)
  <1>1. SumFunctionOnSet(zero, S) = 0 * SumFunctionOnSet(f, S) + Cardinality(S) * 0
    BY SumLinear
  <1>2. \A x \in S : f[x] \in Int /\ f[x] = zero[x]
    BY DEF Linear
  <1> HIDE DEF zero
  <1>3. SumFunctionOnSet(f, S) = SumFunctionOnSet(zero, S)
    BY <1>2, SumSame
  <1>4. SumFunctionOnSet(f, S) \in Int /\ Cardinality(S) \in Int
    BY SumType, FS_CardinalityType
  <1>5. SumFunctionOnSet(f, S) = 0
    BY <1>1, <1>3, <1>4
  <1>6. QED
    BY <1>5, FunctionSumIs

LEMMA FunctionSumChange ==
    ASSUME NEW S, IsFiniteSet(S), NEW f \in [S -> Int], NEW g \in [S -> Int], NEW c \in S,
           \A x \in S \ {c} : g[x] = f[x]
    PROVE  SumFunction(g) = SumFunction(f) + (g[c] - f[c])
  <1>1. SumFunctionOnSet(g, S) = SumFunctionOnSet(f, S) + (g[c] - f[c])
    BY SumChange
  <1>2. QED
    BY <1>1, FunctionSumIs
=============================================================================
