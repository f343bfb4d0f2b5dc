-------------------------------- MODULE Sums --------------------------------
(***************************************************************************)
(* Sums over finite sets.  MapThenSumSet is a recursive function over the  *)
(* subsets of the set, which takes away one chosen element at a time.  The *)
(* first part shows that this function exists, by extending it from the    *)
(* subsets of at most n elements to those of n + 1; the second, that it    *)
(* does not matter which element is taken away.  Both are inductions in    *)
(* the form of a smallest counterexample.                                  *)
(***************************************************************************)
EXTENDS FiniteSetsExt, FiniteSetTheorems, TLAPS

SumOf(f, S) == MapThenSumSet(LAMBDA x : f[x], S)

\* The element that MapThenSumSet takes away first.
Chosen(s) == CHOOSE x \in s : TRUE

\* g[s] is the sum of f over s, for every s in D.
Sums(f, D, g) ==
    g = [s \in D |-> IF s = {} THEN 0 ELSE f[Chosen(s)] + g[s \ {Chosen(s)}]]

\* The subsets of S with at most n elements.
Small(S, n) == {s \in SUBSET S : Cardinality(s) <= n}

SameAt(g, k, T) == g[T] = k[T]

-----------------------------------------------------------------------------
(* Smallest counterexamples.                                                 *)

\* A nonempty set of naturals has a least element.
LEMMA LeastNumber ==
    ASSUME NEW S, S \subseteq Nat, S # {}
    PROVE  \E m \in S : \A x \in S : ~(x < m)
<1>1. PICK m \in S : \A x \in S : ~(<<x, m>> \in OpToRel(<, Nat))
  BY NatLessThanWellFounded, WFMin, Zenon
<1> QED BY <1>1, Zenon DEF OpToRel

\* Taking an element away from a finite set.
LEMMA OneLess ==
    ASSUME NEW s, IsFiniteSet(s), NEW x \in s
    PROVE  /\ IsFiniteSet(s \ {x})
           /\ Cardinality(s) \in Nat /\ Cardinality(s \ {x}) \in Nat
           /\ Cardinality(s \ {x}) = Cardinality(s) - 1
BY FS_RemoveElement, FS_CardinalityType

\* Among subsets of a finite set there is one with no other below it.
LEMMA SmallestSubset ==
    ASSUME NEW S, IsFiniteSet(S), NEW B, B \subseteq SUBSET S, B # {}
    PROVE  \E s \in B : \A x \in s : s \ {x} \notin B
<1> DEFINE N == {Cardinality(s) : s \in B}
<1>1. \A s \in B : IsFiniteSet(s) /\ Cardinality(s) \in Nat
  BY FS_Subset, FS_CardinalityType
<1>2. N \subseteq Nat /\ N # {}
  BY <1>1
<1>3. PICK n \in N : \A m \in N : ~(m < n)
  <2> HIDE DEF N
  <2> QED BY <1>2, LeastNumber, Zenon
<1>4. PICK s \in B : n = Cardinality(s)
  BY <1>3
<1>5. ASSUME NEW x \in s, s \ {x} \in B PROVE FALSE
  <2>1. Cardinality(s \ {x}) \in N
    BY <1>5
  <2>2. Cardinality(s \ {x}) = n - 1 /\ n \in Nat
    BY <1>1, <1>4, OneLess
  <2> QED BY <1>3, <2>1, <2>2
<1> QED BY <1>4, <1>5

\* The chosen element of a nonempty set.
LEMMA ChosenIn ==
    ASSUME NEW s, s # {}
    PROVE  Chosen(s) \in s
<1>1. \E x \in s : TRUE
  OBVIOUS
<1> QED BY <1>1, Zenon DEF Chosen

-----------------------------------------------------------------------------
(* The recursive function exists.                                            *)

\* From the subsets of at most n - 1 elements to those of at most n.
LEMMA SumsExtend ==
    ASSUME NEW f, NEW S, IsFiniteSet(S), NEW n \in Nat, n # 0,
           NEW g, Sums(f, Small(S, n - 1), g)
    PROVE  \E h : Sums(f, Small(S, n), h)
<1> DEFINE D == {s \in SUBSET S : Cardinality(s) <= n - 1}
           E == {s \in SUBSET S : Cardinality(s) <= n}
           h == [s \in E |-> IF Cardinality(s) <= n - 1 THEN g[s]
                             ELSE f[Chosen(s)] + g[s \ {Chosen(s)}]]
           k == [s \in E |-> IF s = {} THEN 0 ELSE f[Chosen(s)] + h[s \ {Chosen(s)}]]
<1>1. \A s \in D : g[s] = IF s = {} THEN 0 ELSE f[Chosen(s)] + g[s \ {Chosen(s)}]
  BY Zenon DEF Sums, Small
<1>2. {} \in D
  BY FS_EmptySet
<1>3. ASSUME NEW s \in E, s # {}
      PROVE  s \ {Chosen(s)} \in D /\ s \ {Chosen(s)} \in E
  <2> DEFINE t == s \ {Chosen(s)}
  <2>1. Chosen(s) \in s /\ IsFiniteSet(s)
    BY <1>3, ChosenIn, FS_Subset
  <2>2. Cardinality(s) \in Nat /\ Cardinality(t) \in Nat /\ Cardinality(t) = Cardinality(s) - 1
    BY <2>1, OneLess
  <2>3. Cardinality(s) <= n
    OBVIOUS
  <2>4. Cardinality(t) <= n - 1 /\ Cardinality(t) <= n
    BY <2>2, <2>3
  <2> QED BY <2>4
<1>4. ASSUME NEW s \in E
      PROVE  h[s] = IF s = {} THEN 0 ELSE f[Chosen(s)] + h[s \ {Chosen(s)}]
  <2> DEFINE t == s \ {Chosen(s)}
  <2>1. CASE s = {}
    BY <1>1, <1>2, <2>1
  <2>2. CASE s # {}
    <3>1. t \in D /\ t \in E /\ Cardinality(t) <= n - 1
      BY <1>3, <2>2
    <3>2. h[t] = g[t]
      BY <3>1
    <3>3. CASE Cardinality(s) <= n - 1
      BY <1>1, <2>2, <3>2, <3>3
    <3>4. CASE ~(Cardinality(s) <= n - 1)
      BY <2>2, <3>2, <3>4
    <3> QED BY <3>3, <3>4
  <2> QED BY <2>1, <2>2
<1>5. h = k
  <2> HIDE DEF E
  <2> QED BY <1>4, Zenon
<1>6. Sums(f, E, h)
  BY <1>5, Zenon DEF Sums
<1> QED BY <1>6, Zenon DEF Small

\* The function that MapThenSumSet is defined by exists.
LEMMA SumsExist ==
    ASSUME NEW f, NEW S, IsFiniteSet(S)
    PROVE  \E g : Sums(f, SUBSET S, g)
<1> DEFINE Bad == {n \in Nat : ~\E g : Sums(f, Small(S, n), g)}
<1>1. \A s \in SUBSET S : IsFiniteSet(s) /\ Cardinality(s) \in Nat /\ Cardinality(s) <= Cardinality(S)
  BY FS_Subset, FS_CardinalityType
<1>2. Bad = {}
  <2> SUFFICES ASSUME Bad # {} PROVE FALSE
    OBVIOUS
  <2>1. PICK n \in Bad : \A m \in Bad : ~(m < n)
    <3>1. Bad \subseteq Nat
      OBVIOUS
    <3> HIDE DEF Bad
    <3> QED BY <3>1, LeastNumber, Zenon
  <2>2. CASE n = 0
    <3>1. Small(S, 0) = {{}}
      <4>1. \A s \in SUBSET S : Cardinality(s) = 0 <=> s = {}
        BY <1>1, FS_EmptySet
      <4> QED BY <1>1, <4>1, FS_EmptySet DEF Small
    <3> DEFINE g == [s \in Small(S, 0) |-> 0]
               k == [s \in Small(S, 0) |-> IF s = {} THEN 0 ELSE f[Chosen(s)] + g[s \ {Chosen(s)}]]
    <3>2. g = k
      BY <3>1
    <3>3. Sums(f, Small(S, 0), g)
      BY <3>2, Zenon DEF Sums
    <3>4. \E x : Sums(f, Small(S, n), x)
      BY <2>2, <3>3, Zenon
    <3> QED BY <3>4, Zenon
  <2>3. CASE n # 0
    <3>1. n \in Nat /\ n - 1 \in Nat /\ n - 1 < n
      BY <2>3
    <3>2. n - 1 \notin Bad
      BY <2>1, <3>1, Zenon
    <3>3. PICK g : Sums(f, Small(S, n - 1), g)
      BY <3>1, <3>2, Zenon
    <3>4. \E h : Sums(f, Small(S, n), h)
      BY <2>3, <3>1, <3>3, SumsExtend, Zenon
    <3> QED BY <3>4, Zenon
  <2> QED BY <2>2, <2>3, Zenon
<1>3. Small(S, Cardinality(S)) = SUBSET S
  BY <1>1 DEF Small
<1>4. Cardinality(S) \in Nat
  BY FS_CardinalityType
<1>5. \E g : Sums(f, Small(S, Cardinality(S)), g)
  BY <1>2, <1>4, Zenon
<1> QED BY <1>3, <1>5, Zenon

\* MapThenSumSet is a value of that function.
LEMMA SumIsValue ==
    ASSUME NEW f, NEW S, IsFiniteSet(S)
    PROVE  \E g : Sums(f, SUBSET S, g) /\ SumOf(f, S) = g[S]
<1> DEFINE g == CHOOSE g : Sums(f, SUBSET S, g)
<1>1. Sums(f, SUBSET S, g)
  BY SumsExist, Zenon
<1>2. SumOf(f, S) = g[S]
  BY Zenon DEF SumOf, MapThenSumSet, MapThenFoldSet, Sums, Chosen
<1> QED BY <1>1, <1>2, Zenon

\* Such functions agree where they are defined and the summands are the same.
LEMMA SumsAgree ==
    ASSUME NEW f, NEW S, NEW g, Sums(f, SUBSET S, g),
           NEW h, NEW T, NEW k, Sums(h, SUBSET T, k),
           IsFiniteSet(T), T \subseteq S, \A x \in T : f[x] = h[x]
    PROVE  SameAt(g, k, T)
<1> DEFINE Bad == {s \in SUBSET T : g[s] # k[s]}
<1>1. \A s \in SUBSET T : g[s] = IF s = {} THEN 0 ELSE f[Chosen(s)] + g[s \ {Chosen(s)}]
  BY Zenon DEF Sums
<1>2. \A s \in SUBSET T : k[s] = IF s = {} THEN 0 ELSE h[Chosen(s)] + k[s \ {Chosen(s)}]
  BY Zenon DEF Sums
<1>3. SUFFICES ASSUME Bad # {} PROVE FALSE
  BY DEF SameAt
<1>4. PICK s \in Bad : \A x \in s : s \ {x} \notin Bad
  <2>1. Bad \subseteq SUBSET T
    OBVIOUS
  <2> HIDE DEF Bad
  <2> QED BY <1>3, <2>1, SmallestSubset, Zenon
<1>5. s \in SUBSET T /\ g[s] # k[s]
  BY <1>4
<1>6. s # {}
  BY <1>1, <1>2, <1>5
<1>7. Chosen(s) \in s /\ Chosen(s) \in T
  BY <1>5, <1>6, ChosenIn
<1>8. s \ {Chosen(s)} \in SUBSET T
  BY <1>5
<1>9. g[s \ {Chosen(s)}] = k[s \ {Chosen(s)}]
  BY <1>4, <1>7, <1>8
<1>10. f[Chosen(s)] = h[Chosen(s)]
  BY <1>7
<1> QED BY <1>1, <1>2, <1>5, <1>6, <1>9, <1>10, Zenon

-----------------------------------------------------------------------------
(* Sums.                                                                     *)

\* A sum over nothing.
LEMMA SumEmpty ==
    ASSUME NEW f
    PROVE  SumOf(f, {}) = 0
<1>1. PICK g : Sums(f, SUBSET {}, g) /\ SumOf(f, {}) = g[{}]
  BY FS_EmptySet, SumIsValue, Zenon
<1>2. g[{}] = 0
  BY <1>1, Zenon DEF Sums
<1> QED BY <1>1, <1>2

\* The recursive equation.
LEMMA SumUnfold ==
    ASSUME NEW f, NEW S, IsFiniteSet(S), S # {}
    PROVE  SumOf(f, S) = f[Chosen(S)] + SumOf(f, S \ {Chosen(S)})
<1> DEFINE T == S \ {Chosen(S)}
<1>0. IsFiniteSet(T) /\ T \subseteq S
  BY FS_Subset
<1>1. PICK g : Sums(f, SUBSET S, g) /\ SumOf(f, S) = g[S]
  BY SumIsValue, Zenon
<1>2. PICK k : Sums(f, SUBSET T, k) /\ SumOf(f, T) = k[T]
  BY <1>0, SumIsValue, Zenon
<1>3. SameAt(g, k, T)
  <2> HIDE DEF T
  <2>1. Sums(f, SUBSET S, g) /\ Sums(f, SUBSET T, k) /\ \A x \in T : f[x] = f[x]
    BY <1>1, <1>2, Zenon
  <2> QED BY <1>0, <2>1, SumsAgree, Zenon
<1>4. g[S] = f[Chosen(S)] + g[T]
  BY <1>1, Zenon DEF Sums
<1> QED BY <1>1, <1>2, <1>3, <1>4, Zenon DEF SameAt

\* Equal summands have equal sums.
LEMMA SumCongruent ==
    ASSUME NEW f, NEW h, NEW S, IsFiniteSet(S), \A x \in S : f[x] = h[x]
    PROVE  SumOf(f, S) = SumOf(h, S)
<1>1. PICK g : Sums(f, SUBSET S, g) /\ SumOf(f, S) = g[S]
  BY SumIsValue, Zenon
<1>2. PICK k : Sums(h, SUBSET S, k) /\ SumOf(h, S) = k[S]
  BY SumIsValue, Zenon
<1>3. SameAt(g, k, S)
  <2>1. Sums(f, SUBSET S, g) /\ Sums(h, SUBSET S, k) /\ S \subseteq S
    BY <1>1, <1>2, Zenon
  <2> QED BY <2>1, SumsAgree, Zenon
<1> QED BY <1>1, <1>2, <1>3, Zenon DEF SameAt

IntegerOn(f, S) == \A x \in S : f[x] \in Int

\* A sum of integers is an integer.
LEMMA SumInteger ==
    ASSUME NEW f, NEW S, IsFiniteSet(S), IntegerOn(f, S)
    PROVE  SumOf(f, S) \in Int
<1> DEFINE Bad == {s \in SUBSET S : SumOf(f, s) \notin Int}
<1>1. SUFFICES ASSUME Bad # {} PROVE FALSE
  OBVIOUS
<1>2. PICK s \in Bad : \A x \in s : s \ {x} \notin Bad
  <2>1. Bad \subseteq SUBSET S
    OBVIOUS
  <2> HIDE DEF Bad
  <2> QED BY <1>1, <2>1, SmallestSubset, Zenon
<1>3. s # {}
  BY <1>2, SumEmpty
<1>4. Chosen(s) \in s /\ s \ {Chosen(s)} \in SUBSET S /\ IsFiniteSet(s)
  BY <1>2, <1>3, ChosenIn, FS_Subset
<1>5. SumOf(f, s \ {Chosen(s)}) \in Int /\ f[Chosen(s)] \in Int
  BY <1>2, <1>4 DEF IntegerOn
<1>6. SumOf(f, s) = f[Chosen(s)] + SumOf(f, s \ {Chosen(s)})
  BY <1>3, <1>4, SumUnfold, Zenon
<1> QED BY <1>2, <1>5, <1>6

\* Any element may be taken away first.
LEMMA SumRemove ==
    ASSUME NEW f, NEW S, IsFiniteSet(S), IntegerOn(f, S), NEW x \in S
    PROVE  SumOf(f, S) = f[x] + SumOf(f, S \ {x})
<1> DEFINE Bad == {s \in SUBSET S : \E y \in s : SumOf(f, s) # f[y] + SumOf(f, s \ {y})}
<1>1. SUFFICES ASSUME Bad # {} PROVE FALSE
  BY Zenon
<1>2. PICK s \in Bad : \A y \in s : s \ {y} \notin Bad
  <2>1. Bad \subseteq SUBSET S
    OBVIOUS
  <2> HIDE DEF Bad
  <2> QED BY <1>1, <2>1, SmallestSubset, Zenon
<1>3. PICK y \in s : SumOf(f, s) # f[y] + SumOf(f, s \ {y})
  BY <1>2
<1> DEFINE c == Chosen(s)
<1>4. c \in s /\ s \in SUBSET S /\ IsFiniteSet(s)
  BY <1>2, <1>3, ChosenIn, FS_Subset
<1>5. \A t \in SUBSET S : IsFiniteSet(t) /\ SumOf(f, t) \in Int
  <2> SUFFICES ASSUME NEW t \in SUBSET S PROVE IsFiniteSet(t) /\ SumOf(f, t) \in Int
    OBVIOUS
  <2>1. IsFiniteSet(t) /\ IntegerOn(f, t)
    BY FS_Subset DEF IntegerOn
  <2> QED BY <2>1, SumInteger, Zenon
<1>6. SumOf(f, s) = f[c] + SumOf(f, s \ {c})
  BY <1>3, <1>4, SumUnfold
<1>7. y # c
  BY <1>3, <1>6, Zenon
<1> HIDE DEF c
<1>8. SumOf(f, s \ {c}) = f[y] + SumOf(f, (s \ {c}) \ {y})
  <2>1. s \ {c} \in SUBSET S /\ s \ {c} \notin Bad /\ y \in s \ {c}
    BY <1>2, <1>4, <1>7
  <2> QED BY <2>1, Zenon
<1>9. SumOf(f, s \ {y}) = f[c] + SumOf(f, (s \ {y}) \ {c})
  <2>1. s \ {y} \in SUBSET S /\ s \ {y} \notin Bad /\ c \in s \ {y}
    BY <1>2, <1>4, <1>7, Zenon
  <2> QED BY <2>1, Zenon
<1>10. (s \ {c}) \ {y} = (s \ {y}) \ {c}
  OBVIOUS
<1> DEFINE r == SumOf(f, (s \ {y}) \ {c})
<1>11. r \in Int /\ f[c] \in Int /\ f[y] \in Int
  <2>1. (s \ {y}) \ {c} \in SUBSET S
    BY <1>4
  <2>2. c \in S /\ y \in S
    BY <1>4
  <2> QED BY <1>5, <2>1, <2>2, Zenon DEF IntegerOn
<1>12. SumOf(f, s) = f[c] + (f[y] + r) /\ SumOf(f, s \ {y}) = f[c] + r
  BY <1>6, <1>8, <1>9, <1>10, Zenon
<1> HIDE DEF r
<1> QED BY <1>3, <1>11, <1>12

\* Sums are taken apart and put together element by element.
LEMMA SumAdd ==
    ASSUME NEW f, NEW S, IsFiniteSet(S), NEW x, x \notin S, IntegerOn(f, S \cup {x})
    PROVE  SumOf(f, S \cup {x}) = f[x] + SumOf(f, S)
<1> DEFINE T == S \cup {x}
<1>1. IsFiniteSet(T) /\ x \in T /\ T \ {x} = S /\ IntegerOn(f, T)
  BY FS_AddElement
<1> HIDE DEF T
<1>2. SumOf(f, T) = f[x] + SumOf(f, T \ {x})
  BY <1>1, SumRemove
<1> QED BY <1>1, <1>2, Zenon DEF T

\* The sum of sums.
LEMMA SumPlus ==
    ASSUME NEW f, NEW g, NEW h, NEW S, IsFiniteSet(S), IntegerOn(f, S), IntegerOn(g, S),
           \A x \in S : h[x] = f[x] + g[x]
    PROVE  SumOf(h, S) = SumOf(f, S) + SumOf(g, S)
<1> DEFINE Bad == {s \in SUBSET S : SumOf(h, s) # SumOf(f, s) + SumOf(g, s)}
<1>1. SUFFICES ASSUME Bad # {} PROVE FALSE
  OBVIOUS
<1>2. PICK s \in Bad : \A x \in s : s \ {x} \notin Bad
  <2>1. Bad \subseteq SUBSET S
    OBVIOUS
  <2> HIDE DEF Bad
  <2> QED BY <1>1, <2>1, SmallestSubset, Zenon
<1> DEFINE c == Chosen(s)
           t == s \ {c}
<1>3. s # {}
  BY <1>2, SumEmpty
<1>4. c \in s /\ c \in S /\ t \in SUBSET S /\ IsFiniteSet(s) /\ IsFiniteSet(t)
  BY <1>2, <1>3, ChosenIn, FS_Subset
<1>5. SumOf(h, t) = SumOf(f, t) + SumOf(g, t)
  BY <1>2, <1>4
<1>6. SumOf(f, t) \in Int /\ SumOf(g, t) \in Int
  <2>1. IntegerOn(f, t) /\ IntegerOn(g, t)
    BY <1>4 DEF IntegerOn
  <2> HIDE DEF t
  <2> QED BY <1>4, <2>1, SumInteger, Zenon
<1>7. /\ SumOf(f, s) = f[c] + SumOf(f, t) /\ SumOf(g, s) = g[c] + SumOf(g, t)
      /\ SumOf(h, s) = h[c] + SumOf(h, t)
  BY <1>3, <1>4, SumUnfold, Zenon
<1>8. f[c] \in Int /\ g[c] \in Int /\ h[c] = f[c] + g[c]
  BY <1>4 DEF IntegerOn
<1>9. SumOf(h, s) # SumOf(f, s) + SumOf(g, s)
  BY <1>2
<1> HIDE DEF c, t
<1> QED BY <1>5, <1>6, <1>7, <1>8, <1>9

\* A change of one summand.
LEMMA SumChange ==
    ASSUME NEW f, NEW g, NEW S, IsFiniteSet(S), IntegerOn(f, S), NEW x \in S, NEW d \in Int,
           g[x] = f[x] + d, \A y \in S : y # x => g[y] = f[y]
    PROVE  SumOf(g, S) = SumOf(f, S) + d
<1> DEFINE T == S \ {x}
<1>1. IsFiniteSet(T) /\ IntegerOn(f, T) /\ \A y \in T : g[y] = f[y]
  BY FS_Subset DEF IntegerOn
<1>2. f[x] \in Int /\ SumOf(f, T) \in Int /\ IntegerOn(g, S)
  <2>1. SumOf(f, T) \in Int
    <3> HIDE DEF T
    <3> QED BY <1>1, SumInteger, Zenon
  <2> QED BY <2>1 DEF IntegerOn
<1>3. SumOf(g, T) = SumOf(f, T)
  <2> HIDE DEF T
  <2> QED BY <1>1, SumCongruent, Zenon
<1>4. SumOf(f, S) = f[x] + SumOf(f, T) /\ SumOf(g, S) = g[x] + SumOf(g, T)
  <2>1. SumOf(f, S) = f[x] + SumOf(f, S \ {x})
    BY SumRemove
  <2>2. SumOf(g, S) = g[x] + SumOf(g, S \ {x})
    BY <1>2, SumRemove
  <2> QED BY <2>1, <2>2
<1> HIDE DEF T
<1> QED BY <1>2, <1>3, <1>4

\* Equal summands.
LEMMA SumConstant ==
    ASSUME NEW f, NEW S, IsFiniteSet(S), NEW c \in Int, \A x \in S : f[x] = c
    PROVE  SumOf(f, S) = c * Cardinality(S)
<1> DEFINE Bad == {s \in SUBSET S : SumOf(f, s) # c * Cardinality(s)}
<1>1. SUFFICES ASSUME Bad # {} PROVE FALSE
  OBVIOUS
<1>2. PICK s \in Bad : \A x \in s : s \ {x} \notin Bad
  <2>1. Bad \subseteq SUBSET S
    OBVIOUS
  <2> HIDE DEF Bad
  <2> QED BY <1>1, <2>1, SmallestSubset, Zenon
<1> DEFINE x == Chosen(s)
           t == s \ {x}
<1>3. s # {}
  BY <1>2, SumEmpty, FS_EmptySet
<1>4. x \in s /\ x \in S /\ t \in SUBSET S /\ IsFiniteSet(s)
  BY <1>2, <1>3, ChosenIn, FS_Subset
<1>5. SumOf(f, t) = c * Cardinality(t)
  BY <1>2, <1>4
<1>6. SumOf(f, s) = f[x] + SumOf(f, t) /\ f[x] = c
  BY <1>3, <1>4, SumUnfold, Zenon
<1>7. Cardinality(s) \in Nat /\ Cardinality(t) \in Nat /\ Cardinality(t) = Cardinality(s) - 1
  BY <1>4, OneLess
<1>8. SumOf(f, s) # c * Cardinality(s)
  BY <1>2
<1> HIDE DEF x, t
<1>9. SumOf(f, s) = c + c * (Cardinality(s) - 1)
  BY <1>5, <1>6, <1>7, Zenon
<1> DEFINE n == Cardinality(s)
<1>10. n \in Nat /\ SumOf(f, s) = c + c * (n - 1)
  BY <1>7, <1>9
<1> HIDE DEF n
<1>11. c + c * (n - 1) = c * n
  BY <1>10
<1> QED BY <1>8, <1>10, <1>11 DEF n

\* A sum of naturals is a natural.
LEMMA SumNatural ==
    ASSUME NEW f, NEW S, IsFiniteSet(S), \A x \in S : f[x] \in Nat
    PROVE  SumOf(f, S) \in Nat
<1> DEFINE Bad == {s \in SUBSET S : SumOf(f, s) \notin Nat}
<1>1. SUFFICES ASSUME Bad # {} PROVE FALSE
  OBVIOUS
<1>2. PICK s \in Bad : \A x \in s : s \ {x} \notin Bad
  <2>1. Bad \subseteq SUBSET S
    OBVIOUS
  <2> HIDE DEF Bad
  <2> QED BY <1>1, <2>1, SmallestSubset, Zenon
<1>3. s # {}
  BY <1>2, SumEmpty
<1>4. Chosen(s) \in s /\ s \ {Chosen(s)} \in SUBSET S /\ IsFiniteSet(s)
  BY <1>2, <1>3, ChosenIn, FS_Subset
<1>5. SumOf(f, s \ {Chosen(s)}) \in Nat /\ f[Chosen(s)] \in Nat
  BY <1>2, <1>4
<1>6. SumOf(f, s) = f[Chosen(s)] + SumOf(f, s \ {Chosen(s)})
  BY <1>3, <1>4, SumUnfold, Zenon
<1> QED BY <1>2, <1>5, <1>6

\* The sum over a set and what is left of it.
LEMMA SumSplit ==
    ASSUME NEW f, NEW S, IsFiniteSet(S), IntegerOn(f, S), NEW T, T \subseteq S
    PROVE  SumOf(f, S) = SumOf(f, T) + SumOf(f, S \ T)
<1> DEFINE R == S \ T
           Bad == {s \in SUBSET T : SumOf(f, R \cup s) # SumOf(f, s) + SumOf(f, R)}
<1>0. IsFiniteSet(T) /\ IsFiniteSet(R) /\ IntegerOn(f, R)
  BY FS_Subset DEF IntegerOn
<1>i. SumOf(f, R) \in Int
  <2> HIDE DEF R
  <2> QED BY <1>0, SumInteger, Zenon
<1>1. SUFFICES ASSUME Bad # {} PROVE FALSE
  <2>1. SumOf(f, R \cup T) = SumOf(f, T) + SumOf(f, R)
    BY <1>1, Zenon
  <2>2. R \cup T = S
    OBVIOUS
  <2> QED BY <2>1, <2>2
<1>2. PICK s \in Bad : \A x \in s : s \ {x} \notin Bad
  <2>1. Bad \subseteq SUBSET T
    OBVIOUS
  <2> HIDE DEF Bad
  <2> QED BY <1>0, <1>1, <2>1, SmallestSubset, Zenon
<1>3. s # {}
  <2>1. R \cup {} = R /\ SumOf(f, {}) = 0
    BY SumEmpty
  <2>2. SUFFICES ASSUME s = {} PROVE FALSE
    OBVIOUS
  <2>3. SumOf(f, R \cup {}) # SumOf(f, {}) + SumOf(f, R)
    BY <1>2, <2>2
  <2> HIDE DEF R
  <2> QED BY <1>i, <2>1, <2>3
<1> DEFINE c == Chosen(s)
           t == s \ {c}
           A == R \cup s
<1>4. c \in s /\ c \in A /\ t \in SUBSET T /\ t \subseteq S /\ s \subseteq S /\ A \subseteq S
      /\ A \ {c} = R \cup t
  BY <1>2, <1>3, ChosenIn
<1>5. SumOf(f, R \cup t) = SumOf(f, t) + SumOf(f, R)
  BY <1>2, <1>4, Zenon
<1>6. /\ IsFiniteSet(s) /\ IsFiniteSet(t) /\ IsFiniteSet(A)
      /\ IntegerOn(f, s) /\ IntegerOn(f, t) /\ IntegerOn(f, A)
  <2> HIDE DEF t, A
  <2> QED BY <1>4, FS_Subset DEF IntegerOn
<1>7. SumOf(f, R \cup s) # SumOf(f, s) + SumOf(f, R)
  BY <1>2
<1> HIDE DEF c, A
<1>8. SumOf(f, A) = f[c] + SumOf(f, A \ {c}) /\ SumOf(f, s) = f[c] + SumOf(f, s \ {c})
  BY <1>4, <1>6, SumRemove
<1>9. f[c] \in Int /\ SumOf(f, t) \in Int
  <2>1. f[c] \in Int
    BY <1>4, <1>6 DEF IntegerOn
  <2> HIDE DEF t
  <2> QED BY <1>6, <2>1, SumInteger, Zenon
<1>10. /\ SumOf(f, A) = f[c] + (SumOf(f, t) + SumOf(f, R))
       /\ SumOf(f, s) = f[c] + SumOf(f, t) /\ SumOf(f, A) # SumOf(f, s) + SumOf(f, R)
  BY <1>4, <1>5, <1>7, <1>8 DEF A
<1> HIDE DEF t, R
<1> QED BY <1>i, <1>9, <1>10

\* A function that is zero outside T.
LEMMA SumPart ==
    ASSUME NEW f, NEW g, NEW S, IsFiniteSet(S), NEW T, T \subseteq S, IntegerOn(f, T),
           \A x \in S : g[x] = IF x \in T THEN f[x] ELSE 0
    PROVE  SumOf(g, S) = SumOf(f, T)
<1> DEFINE R == S \ T
<1>1. IsFiniteSet(T) /\ IsFiniteSet(R) /\ Cardinality(R) \in Nat
  BY FS_Subset, FS_CardinalityType
<1>2. IntegerOn(g, S) /\ (\A x \in T : g[x] = f[x]) /\ (\A x \in R : g[x] = 0)
  BY DEF IntegerOn
<1>3. SumOf(g, S) = SumOf(g, T) + SumOf(g, R)
  BY <1>2, SumSplit
<1> HIDE DEF R
<1>4. SumOf(g, T) = SumOf(f, T)
  BY <1>1, <1>2, SumCongruent, Zenon
<1>5. SumOf(f, T) \in Int
  BY <1>1, SumInteger, Zenon
<1>6. SumOf(g, R) = 0 * Cardinality(R)
  <2>1. 0 \in Int
    OBVIOUS
  <2> QED BY <1>1, <1>2, <2>1, SumConstant, Zenon
<1>7. SumOf(g, R) = 0
  BY <1>1, <1>6
<1> QED BY <1>3, <1>4, <1>5, <1>7

ImageOf(m, S) == {m[x] : x \in S}

\* The image of a finite set is finite.
LEMMA FiniteImage ==
    ASSUME NEW S, IsFiniteSet(S), NEW m
    PROVE  IsFiniteSet(ImageOf(m, S))
<1> DEFINE T == ImageOf(m, S)
           k == [x \in S |-> m[x]]
<1>1. k \in Surjection(S, T)
  BY DEF Surjection, ImageOf
<1> HIDE DEF T, k
<1>2. IsFiniteSet(T)
  BY <1>1, FS_Surjection, Zenon
<1> QED BY <1>2 DEF T

\* The sum over the image of a set under an injective function m.
LEMMA SumImage ==
    ASSUME NEW f, NEW g, NEW m, NEW S, IsFiniteSet(S), IntegerOn(f, S),
           \A x, y \in S : m[x] = m[y] => x = y,
           \A x \in S : g[m[x]] = f[x]
    PROVE  SumOf(g, ImageOf(m, S)) = SumOf(f, S)
<1> DEFINE Bad == {s \in SUBSET S : SumOf(g, ImageOf(m, s)) # SumOf(f, s)}
<1>1. SUFFICES ASSUME Bad # {} PROVE FALSE
  OBVIOUS
<1>2. PICK s \in Bad : \A x \in s : s \ {x} \notin Bad
  <2>1. Bad \subseteq SUBSET S
    OBVIOUS
  <2> HIDE DEF Bad
  <2> QED BY <1>1, <2>1, SmallestSubset, Zenon
<1>3. s # {}
  <2>1. ImageOf(m, {}) = {}
    BY DEF ImageOf
  <2> QED BY <1>2, <2>1, SumEmpty
<1> DEFINE c == Chosen(s)
           t == s \ {c}
<1>4. c \in s /\ c \in S /\ t \in SUBSET S /\ s \subseteq S
  BY <1>2, <1>3, ChosenIn
<1>5. SumOf(g, ImageOf(m, t)) = SumOf(f, t) /\ SumOf(g, ImageOf(m, s)) # SumOf(f, s)
  BY <1>2, <1>4
<1>6. ImageOf(m, t) = ImageOf(m, s) \ {m[c]} /\ m[c] \in ImageOf(m, s)
  BY <1>4 DEF ImageOf
<1>7. IsFiniteSet(ImageOf(m, s))
  BY <1>4, FS_Subset, FiniteImage, Zenon
<1>8. IntegerOn(g, ImageOf(m, s))
  BY <1>4 DEF IntegerOn, ImageOf
<1>9. SumOf(g, ImageOf(m, s)) = g[m[c]] + SumOf(g, ImageOf(m, s) \ {m[c]})
  BY <1>6, <1>7, <1>8, SumRemove
<1>10. SumOf(f, s) = f[c] + SumOf(f, t)
  BY <1>3, <1>4, FS_Subset, SumUnfold, Zenon
<1>11. g[m[c]] = f[c]
  BY <1>4
<1> QED BY <1>5, <1>6, <1>9, <1>10, <1>11, Zenon
=============================================================================
