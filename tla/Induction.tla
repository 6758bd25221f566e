------------------------------- MODULE Induction -------------------------------
(***************************************************************************)
(* Induction over the natural numbers and over finite sets, with sets and  *)
(* functions where the library's theorems take an operator: what is to be  *)
(* shown is that a set holds every number, or every part of a finite set,  *)
(* and what a recursive function computes is given by functions for its    *)
(* steps. With it, the laws of sums over finite sets. The proof modules of *)
(* the components whose results are counted or built up step by step use   *)
(* it.                                                                     *)
(***************************************************************************)
EXTENDS Integers, FiniteSets, Functions, FiniteSetTheorems, FunctionTheorems,
        WellFoundedInduction, TLAPS

\* A set that holds 0 and every successor of its members holds every number:
\* the least number it lacks would have a predecessor.
LEMMA InductionOnNat ==
  ASSUME NEW T, 0 \in T, \A n \in Nat : n \in T => n + 1 \in T
  PROVE  Nat \subseteq T
<1> SUFFICES ASSUME Nat \ T # {} PROVE FALSE
  OBVIOUS
<1>1. PICK x \in Nat \ T : \A y \in Nat \ T : ~ (<<y, x>> \in OpToRel(<, Nat))
  BY WFMin, NatLessThanWellFounded
<1>2. \A y \in Nat \ T : ~ (y < x)
  BY <1>1 DEF OpToRel
<1> QED
  BY <1>2

\* The same up to a bound.
LEMMA InductionUpTo ==
  ASSUME NEW n \in Nat, NEW T, 0 \in T,
         \A k \in 0..(n - 1) : k \in T => k + 1 \in T
  PROVE  0..n \subseteq T
<1> DEFINE U == {k \in Nat : k <= n => k \in T}
<1>1. 0 \in U
  OBVIOUS
<1>2. \A k \in Nat : k \in U => k + 1 \in U
  OBVIOUS
<1> HIDE DEF U
<1>3. Nat \subseteq U
  BY <1>1, <1>2, InductionOnNat
<1> QED
  BY <1>3 DEF U

\* A non-empty set of natural numbers has a least element.
LEMMA LeastOf ==
  ASSUME NEW T \in SUBSET Nat, T # {}
  PROVE  \E x \in T : \A y \in T : x <= y
<1>1. PICK x \in T : \A y \in T : ~ (<<y, x>> \in OpToRel(<, Nat))
  BY WFMin, NatLessThanWellFounded
<1>2. \A y \in T : ~ (y < x)
  BY <1>1 DEF OpToRel
<1> QED
  BY <1>2

\* A non-empty set of natural numbers with a bound has a greatest element.
LEMMA GreatestOf ==
  ASSUME NEW n \in Nat, NEW T \in SUBSET (0..n), T # {}
  PROVE  \E x \in T : \A y \in T : y <= x
<1> DEFINE U == {n - x : x \in T}
<1>1. U \in SUBSET Nat /\ U # {}
  <2>1. \A x \in T : n - x \in Nat
    OBVIOUS
  <2> QED
    BY <2>1, Zenon
<1>2. PICK u \in U : \A v \in U : u <= v
  BY <1>1, LeastOf, Zenon
<1>3. PICK x \in T : u = n - x
  BY <1>2
<1>4. \A y \in T : n - y \in U
  OBVIOUS
<1>5. \A y \in T : n - x <= n - y
  BY <1>2, <1>3, <1>4
<1>6. \A y \in T : y <= x
  BY <1>5
<1> QED
  BY <1>6

\* g takes the value base at 0 and at each further number what step makes of the
\* value before.
BuiltUp(g, n, D, base, step) ==
    /\ g \in [0..n -> D]
    /\ g[0] = base
    /\ \A r \in 1..n : g[r] = step[r][g[r - 1]]

\* A function on 0..n may be defined by its value at 0 and, at each further
\* number, a function of the value before.
LEMMA RecursionUpTo ==
  ASSUME NEW n \in Nat, NEW D, NEW base \in D, NEW step \in [1..n -> [D -> D]]
  PROVE  \E g : BuiltUp(g, n, D, base, step)
<1> DEFINE Upto(k, g) == /\ g[0] = base
                         /\ \A r \in 1..k : g[r] = step[r][g[r - 1]]
           T == {k \in 0..n : \E g \in [0..k -> D] : Upto(k, g)}
<1>1. 0 \in T
  <2> DEFINE g == [k \in 0..0 |-> base]
  <2>1. g \in [0..0 -> D] /\ Upto(0, g)
    OBVIOUS
  <2> HIDE DEF g
  <2> QED
    BY <2>1
<1>2. ASSUME NEW k \in 0..(n - 1), k \in T PROVE k + 1 \in T
  <2>1. PICK g \in [0..k -> D] : Upto(k, g)
    BY <1>2
  <2> DEFINE h == [r \in 0..(k + 1) |-> IF r <= k THEN g[r] ELSE step[k + 1][g[k]]]
  <2>2. step[k + 1] \in [D -> D] /\ g[k] \in D
    BY k + 1 \in 1..n
  <2>3. h \in [0..(k + 1) -> D]
    BY <2>2
  <2>4. h[0] = base
    BY <2>1
  <2>5. ASSUME NEW r \in 1..(k + 1) PROVE h[r] = step[r][h[r - 1]]
    <3>1. CASE r <= k
      BY <2>1, <3>1
    <3>2. CASE r = k + 1
      BY <2>1, <3>2
    <3> QED
      BY <3>1, <3>2
  <2> HIDE DEF h
  <2>6. Upto(k + 1, h)
    BY <2>4, <2>5
  <2> QED
    BY <2>3, <2>6, k + 1 \in 0..n
<1> HIDE DEF T
<1>3. 0..n \subseteq T
  BY <1>1, <1>2, InductionUpTo
<1> QED
  BY <1>3 DEF T, BuiltUp

\* A set twice as large: T and a copy of it that shares nothing with it.
LEMMA Doubled ==
  ASSUME NEW T, IsFiniteSet(T), NEW U, NEW f \in Bijection(T, U), T \cap U = {}
  PROVE  /\ IsFiniteSet(T \cup U)
         /\ Cardinality(T \cup U) = 2 * Cardinality(T)
<1>1. IsFiniteSet(U) /\ Cardinality(U) = Cardinality(T)
  BY FS_Bijection DEF ExistsBijection
<1>2. Cardinality(T) \in Nat
  BY FS_CardinalityType
<1>3. Cardinality(T \cap U) = 0
  BY FS_EmptySet
<1> QED
  BY <1>1, <1>2, <1>3, FS_Union

\* The powers of two, by way of the subsets of a set with one element more.
LEMMA PowerOfTwo ==
  ASSUME NEW n \in Nat
  PROVE  2 ^ n \in Nat /\ 2 ^ (n + 1) = 2 * 2 ^ n
<1> DEFINE T == SUBSET (1..n)
           U == {t \cup {n + 1} : t \in T}
           f == [t \in T |-> t \cup {n + 1}]
<1>1. IsFiniteSet(1..n) /\ Cardinality(1..n) = n
  BY FS_Interval
<1>2. IsFiniteSet(1..(n + 1)) /\ Cardinality(1..(n + 1)) = n + 1
  BY FS_Interval
<1>3. IsFiniteSet(T) /\ Cardinality(T) = 2 ^ n
  BY <1>1, FS_SUBSET
<1>4. Cardinality(SUBSET (1..(n + 1))) = 2 ^ (n + 1)
  BY <1>2, FS_SUBSET
<1>5. SUBSET (1..(n + 1)) = T \cup U
  <2>1. 1..(n + 1) = (1..n) \cup {n + 1}
    OBVIOUS
  <2>2. ASSUME NEW t \in SUBSET (1..(n + 1)) PROVE t \in T \cup U
    <3>1. CASE n + 1 \in t
      <4>1. t \ {n + 1} \in T /\ t = (t \ {n + 1}) \cup {n + 1}
        BY <2>1, <3>1, Zenon
      <4> QED
        BY <4>1, Zenon
    <3>2. CASE n + 1 \notin t
      BY <2>1, <3>2
    <3> QED
      BY <3>1, <3>2
  <2>3. ASSUME NEW t \in T PROVE t \cup {n + 1} \in SUBSET (1..(n + 1))
    BY <2>1
  <2>4. T \subseteq SUBSET (1..(n + 1))
    BY <2>1
  <2>5. U \subseteq SUBSET (1..(n + 1))
    BY <2>3, Zenon
  <2> HIDE DEF T, U
  <2> QED
    BY <2>2, <2>4, <2>5, Zenon
<1>6. T \cap U = {}
  <2>1. n + 1 \notin 1..n
    OBVIOUS
  <2> QED
    BY <2>1, Zenon
<1>7. f \in Bijection(T, U)
  <2>1. ASSUME NEW t \in T, NEW u \in T, t \cup {n + 1} = u \cup {n + 1} PROVE t = u
    <3>1. n + 1 \notin t /\ n + 1 \notin u
      OBVIOUS
    <3>2. ASSUME NEW x PROVE x \in t <=> x \in u
      BY <2>1, <3>1, Zenon
    <3> QED
      BY <3>2, SMT
  <2>2. f \in [T -> U] /\ \A t \in T : f[t] = t \cup {n + 1}
    OBVIOUS
  <2>3. ASSUME NEW u \in U PROVE \E t \in T : f[t] = u
    BY <2>2
  <2> HIDE DEF T, U, f
  <2> QED
    BY <2>1, <2>2, <2>3, Zenon DEF Bijection, Injection, Surjection, IsInjective
<1> HIDE DEF T, U, f
<1>8. Cardinality(T \cup U) = 2 * Cardinality(T)
  BY <1>3, <1>6, <1>7, Doubled
<1>9. Cardinality(T) \in Nat
  BY <1>3, FS_CardinalityType
<1> QED
  BY <1>3, <1>4, <1>5, <1>8, <1>9
-----------------------------------------------------------------------------
\* Sums: SumFunctionOnSet of the community modules adds the values of a function
\* over a finite set in the order in which CHOOSE picks the members; the laws
\* below say that the order does not matter.

First(s) == CHOOSE x \in s : TRUE

\* What one step of the fold says of a set.
Unfolds(f, s) == SumFunctionOnSet(f, s) =
                   IF s = {} THEN 0
                   ELSE f[First(s)] + SumFunctionOnSet(f, s \ {First(s)})

\* A finite set without a member has one member less.
LEMMA OneLess ==
  ASSUME NEW s, IsFiniteSet(s), NEW x \in s
  PROVE  /\ IsFiniteSet(s \ {x})
         /\ Cardinality(s \ {x}) \in Nat /\ Cardinality(s) = Cardinality(s \ {x}) + 1
<1>1. IsFiniteSet(s \ {x}) /\ Cardinality(s \ {x}) = Cardinality(s) - 1
  BY FS_RemoveElement
<1>2. Cardinality(s) \in Nat /\ Cardinality(s \ {x}) \in Nat
  BY <1>1, FS_CardinalityType
<1> QED
  BY <1>1, <1>2

\* The members of a non-empty set include the one that CHOOSE picks.
LEMMA FirstIn == ASSUME NEW s, s # {} PROVE First(s) \in s
BY DEF First

\* Of the sets in a non-empty set of subsets of a finite set, one is smallest.
LEMMA SmallestSet ==
  ASSUME NEW T, IsFiniteSet(T), NEW Bad \in SUBSET (SUBSET T), Bad # {}
  PROVE  \E s \in Bad : /\ IsFiniteSet(s)
                        /\ \A r \in SUBSET T :
                              Cardinality(r) < Cardinality(s) => r \notin Bad
<1> DEFINE Sizes == {Cardinality(s) : s \in Bad}
<1>1. \A s \in SUBSET T : IsFiniteSet(s) /\ Cardinality(s) \in Nat
  BY FS_Subset, FS_CardinalityType
<1>2. Sizes \in SUBSET Nat /\ Sizes # {}
  BY <1>1
<1>3. PICK k \in Sizes : \A m \in Sizes : k <= m
  BY <1>2, LeastOf
<1>4. PICK s \in Bad : Cardinality(s) = k
  BY <1>3
<1>5. ASSUME NEW r \in SUBSET T, Cardinality(r) < Cardinality(s), r \in Bad PROVE FALSE
  <2>1. Cardinality(r) \in Sizes /\ Cardinality(r) \in Nat /\ k \in Nat
    BY <1>1, <1>2, <1>5
  <2> HIDE DEF Sizes
  <2> QED
    BY <1>3, <1>4, <1>5, <2>1
<1> QED
  BY <1>1, <1>4, <1>5

\* g folds f over the subsets of T.
Adds(f, T, g) ==
    \A s \in SUBSET T : g[s] = IF s = {} THEN 0 ELSE f[First(s)] + g[s \ {First(s)}]

\* Two functions on the subsets of a finite set that obey the same recursion
\* are equal.
LEMMA FoldIsUnique ==
  ASSUME NEW f, NEW T, IsFiniteSet(T), NEW g, NEW h,
         Adds(f, T, g), Adds(f, T, h)
  PROVE  g[T] = h[T]
<1> DEFINE Same(s) == g[s] = h[s]
           Bad == {s \in SUBSET T : ~ Same(s)}
<1> SUFFICES ASSUME Bad # {} PROVE FALSE
  BY DEF Bad
<1>1. Bad \in SUBSET (SUBSET T)
  OBVIOUS
<1>2. PICK s \in Bad : /\ IsFiniteSet(s)
                      /\ \A r \in SUBSET T :
                            Cardinality(r) < Cardinality(s) => r \notin Bad
  <2> HIDE DEF Bad
  <2> QED
    BY <1>1, SmallestSet
<1>5. s \in SUBSET T /\ ~ Same(s)
  BY <1>2
<1>6. s # {}
  BY <1>5 DEF Adds
<1> DEFINE r == s \ {First(s)}
<1>7. r \in SUBSET T /\ Cardinality(r) < Cardinality(s)
  <2>1. Cardinality(r) \in Nat /\ Cardinality(s) = Cardinality(r) + 1
    BY <1>2, <1>6, FirstIn, OneLess
  <2> QED
    BY <1>5, <2>1
<1>8. r \notin Bad
  BY <1>2, <1>7
<1>9. Same(r)
  BY <1>7, <1>8
<1> QED
  BY <1>5, <1>6, <1>9 DEF Adds

\* If the fold unfolds on the smaller sets, it does on the set itself.
LEMMA UnfoldsNext ==
  ASSUME NEW f, NEW T, IsFiniteSet(T), \A s \in SUBSET T : s # T => Unfolds(f, s)
  PROVE  Unfolds(f, T)
<1> DEFINE body(g) == [s \in SUBSET T |->
                         IF s = {} THEN 0 ELSE f[First(s)] + g[s \ {First(s)}]]
           fold == CHOOSE g : g = body(g)
           h == [s \in SUBSET T |->
                   IF s = {} THEN 0 ELSE f[First(s)] + SumFunctionOnSet(f, s \ {First(s)})]
<1>1. SumFunctionOnSet(f, T) = fold[T]
  BY Zenon DEF SumFunctionOnSet, FoldFunctionOnSet, MapThenFoldSet, First
<1>2. Adds(f, T, h)
  <2> SUFFICES ASSUME NEW s \in SUBSET T, s # {}
               PROVE  h[s] = f[First(s)] + h[s \ {First(s)}]
    BY DEF Adds
  <2> DEFINE r == s \ {First(s)}
  <2>1. First(s) \in s
    BY FirstIn
  <2>2. r \in SUBSET T /\ r # T
    BY <2>1
  <2>3. Unfolds(f, r)
    BY <2>2
  <2>4. h[r] = SumFunctionOnSet(f, r)
    BY <2>2, <2>3 DEF Unfolds
  <2> QED
    BY <2>4
<1>3. h = body(h)
  <2> HIDE DEF h
  <2>1. h = [s \in SUBSET T |-> h[s]]
    BY DEF h
  <2> QED
    BY <1>2, <2>1 DEF Adds
<1>4. fold = body(fold)
  <2> HIDE DEF h, body
  <2> QED
    BY <1>3, Zenon
<1>5. Adds(f, T, fold)
  <2> HIDE DEF fold
  <2> QED
    BY <1>4 DEF Adds
<1>6. fold[T] = h[T]
  <2> HIDE DEF fold, h
  <2> QED
    BY <1>2, <1>5, FoldIsUnique, Zenon
<1> QED
  BY <1>1, <1>6 DEF Unfolds

\* The fold unfolds on every finite set.
LEMMA SumUnfolds ==
  ASSUME NEW f, NEW T, IsFiniteSet(T) PROVE Unfolds(f, T)
<1> DEFINE Bad == {s \in SUBSET T : ~ Unfolds(f, s)}
<1> SUFFICES ASSUME Bad # {} PROVE FALSE
  BY DEF Bad
<1>1. Bad \in SUBSET (SUBSET T)
  OBVIOUS
<1>2. PICK s \in Bad : /\ IsFiniteSet(s)
                      /\ \A r \in SUBSET T :
                            Cardinality(r) < Cardinality(s) => r \notin Bad
  <2> HIDE DEF Bad
  <2> QED
    BY <1>1, SmallestSet
<1>3. ASSUME NEW r \in SUBSET s, r # s PROVE Unfolds(f, r)
  <2>1. Cardinality(r) < Cardinality(s)
    BY <1>2, <1>3, FS_Subset, FS_CardinalityType
  <2> QED
    BY <1>2, <2>1
<1>6. Unfolds(f, s)
  BY <1>2, <1>3, UnfoldsNext
<1> QED
  BY <1>2, <1>6
\* A sum over no member is 0.
LEMMA SumEmpty == ASSUME NEW f PROVE SumFunctionOnSet(f, {}) = 0
BY FS_EmptySet, SumUnfolds DEF Unfolds

\* A sum of integers is an integer.
LEMMA SumType ==
  ASSUME NEW T, IsFiniteSet(T), NEW f, \A x \in T : f[x] \in Int
  PROVE  SumFunctionOnSet(f, T) \in Int
<1> DEFINE Bad == {s \in SUBSET T : SumFunctionOnSet(f, s) \notin Int}
<1> SUFFICES ASSUME Bad # {} PROVE FALSE
  BY DEF Bad
<1>1. Bad \in SUBSET (SUBSET T)
  OBVIOUS
<1>2. PICK s \in Bad : /\ IsFiniteSet(s)
                      /\ \A r \in SUBSET T :
                            Cardinality(r) < Cardinality(s) => r \notin Bad
  <2> HIDE DEF Bad
  <2> QED
    BY <1>1, SmallestSet
<1>3. s \in SUBSET T /\ SumFunctionOnSet(f, s) \notin Int
  BY <1>2
<1>4. Unfolds(f, s)
  BY <1>2, SumUnfolds
<1>5. s # {}
  BY <1>3, SumEmpty
<1> DEFINE r == s \ {First(s)}
<1>6. r \in SUBSET T /\ First(s) \in T /\ Cardinality(r) < Cardinality(s)
  <2>1. Cardinality(r) \in Nat /\ Cardinality(s) = Cardinality(r) + 1
    BY <1>2, <1>5, FirstIn, OneLess
  <2> QED
    BY <1>3, <1>5, <2>1, FirstIn
<1>7. SumFunctionOnSet(f, r) \in Int
  BY <1>2, <1>6
<1>8. f[First(s)] \in Int
  BY <1>6
<1> HIDE DEF Bad
<1> QED
  BY <1>3, <1>4, <1>5, <1>7, <1>8 DEF Unfolds

\* Any member may be taken out first.
LEMMA SumWithout ==
  ASSUME NEW T, IsFiniteSet(T), NEW f, \A x \in T : f[x] \in Int, NEW x \in T
  PROVE  SumFunctionOnSet(f, T) = f[x] + SumFunctionOnSet(f, T \ {x})
<1> DEFINE Out(s, y) == SumFunctionOnSet(f, s) = f[y] + SumFunctionOnSet(f, s \ {y})
           Bad == {s \in SUBSET T : \E y \in s : ~ Out(s, y)}
<1> SUFFICES ASSUME Bad # {} PROVE FALSE
  BY DEF Bad
<1>1. Bad \in SUBSET (SUBSET T)
  OBVIOUS
<1>2. PICK s \in Bad : /\ IsFiniteSet(s)
                      /\ \A r \in SUBSET T :
                            Cardinality(r) < Cardinality(s) => r \notin Bad
  <2> HIDE DEF Bad
  <2> QED
    BY <1>1, SmallestSet
<1>3. PICK y \in s : ~ Out(s, y)
  BY <1>2
<1> DEFINE c == First(s)
<1>4. c \in s /\ SumFunctionOnSet(f, s) = f[c] + SumFunctionOnSet(f, s \ {c})
  BY <1>2, <1>3, SumUnfolds, FirstIn DEF Unfolds
<1> HIDE DEF c
<1>5. c # y /\ s \in SUBSET T
  BY <1>1, <1>3, <1>4
<1>6. ASSUME NEW z \in s, NEW u \in s \ {z} PROVE Out(s \ {z}, u)
  <2>1. Cardinality(s \ {z}) < Cardinality(s)
    BY <1>2, OneLess
  <2>2. s \ {z} \notin Bad
    BY <1>2, <1>5, <2>1
  <2> QED
    BY <1>5, <2>2
<1>7. Out(s \ {c}, y) /\ Out(s \ {y}, c)
  BY <1>3, <1>4, <1>5, <1>6
<1>8. (s \ {c}) \ {y} = (s \ {y}) \ {c}
  OBVIOUS
<1>9. f[c] \in Int /\ f[y] \in Int /\ SumFunctionOnSet(f, (s \ {y}) \ {c}) \in Int
  <2>1. IsFiniteSet((s \ {y}) \ {c})
    BY <1>2, FS_Subset
  <2> QED
    BY <1>4, <1>5, <2>1, SumType
<1> DEFINE R == SumFunctionOnSet(f, (s \ {y}) \ {c})
<1>10. /\ SumFunctionOnSet(f, s \ {c}) = f[y] + R
       /\ SumFunctionOnSet(f, s \ {y}) = f[c] + R
  BY <1>7, <1>8, Zenon
<1>11. R \in Int
  BY <1>9
<1> HIDE DEF R
<1>12. SumFunctionOnSet(f, s) = f[y] + SumFunctionOnSet(f, s \ {y})
  BY <1>4, <1>9, <1>10, <1>11
<1> QED
  BY <1>3, <1>12

\* A member more.
LEMMA SumWith ==
  ASSUME NEW T, IsFiniteSet(T), NEW x, x \notin T,
         NEW f, \A y \in T \cup {x} : f[y] \in Int
  PROVE  SumFunctionOnSet(f, T \cup {x}) = SumFunctionOnSet(f, T) + f[x]
<1>1. IsFiniteSet(T \cup {x}) /\ (T \cup {x}) \ {x} = T
  BY FS_AddElement
<1>2. SumFunctionOnSet(f, T \cup {x}) = f[x] + SumFunctionOnSet(f, T)
  BY <1>1, SumWithout
<1>3. f[x] \in Int /\ SumFunctionOnSet(f, T) \in Int
  BY SumType
<1> QED
  BY <1>2, <1>3

\* What holds for no member and with each member more holds for a finite set.
LEMMA SetInduction ==
  ASSUME NEW T, IsFiniteSet(T), NEW U, {} \in U,
         \A s \in SUBSET T : \A x \in T \ s : s \in U => s \cup {x} \in U
  PROVE  T \in U
<1> DEFINE Bad == (SUBSET T) \ U
<1> SUFFICES ASSUME T \notin U PROVE FALSE
  OBVIOUS
<1>1. Bad \in SUBSET (SUBSET T) /\ Bad # {}
  OBVIOUS
<1>2. PICK s \in Bad : /\ IsFiniteSet(s)
                      /\ \A r \in SUBSET T :
                            Cardinality(r) < Cardinality(s) => r \notin Bad
  <2> HIDE DEF Bad
  <2> QED
    BY <1>1, SmallestSet
<1>3. PICK x \in s : TRUE
  BY <1>2
<1>4. Cardinality(s \ {x}) < Cardinality(s)
  <2>1. Cardinality(s \ {x}) \in Nat /\ Cardinality(s) = Cardinality(s \ {x}) + 1
    BY <1>2, <1>3, OneLess
  <2> QED
    BY <2>1
<1>5. s \ {x} \in U
  BY <1>2, <1>4
<1>6. (s \ {x}) \cup {x} \in U
  BY <1>2, <1>3, <1>5
<1> QED
  BY <1>2, <1>3, <1>6
\* Only the values on the set count.
LEMMA SumSame ==
  ASSUME NEW T, IsFiniteSet(T), NEW f, \A x \in T : f[x] \in Int,
         NEW g, \A x \in T : g[x] = f[x]
  PROVE  SumFunctionOnSet(g, T) = SumFunctionOnSet(f, T)
<1> DEFINE U == {s \in SUBSET T : SumFunctionOnSet(g, s) = SumFunctionOnSet(f, s)}
<1>1. {} \in U
  BY SumEmpty
<1>2. ASSUME NEW s \in SUBSET T, NEW x \in T \ s, s \in U PROVE s \cup {x} \in U
  <2>1. IsFiniteSet(s)
    BY FS_Subset
  <2>2. /\ SumFunctionOnSet(f, s \cup {x}) = SumFunctionOnSet(f, s) + f[x]
        /\ SumFunctionOnSet(g, s \cup {x}) = SumFunctionOnSet(g, s) + g[x]
    BY <2>1, SumWith
  <2> QED
    BY <1>2, <2>2
<1> HIDE DEF U
<1>3. T \in U
  BY <1>1, <1>2, SetInduction
<1> QED
  BY <1>3 DEF U

\* Sums are linear.
LEMMA SumLinear ==
  ASSUME NEW T, IsFiniteSet(T), NEW a \in Int, NEW b \in Int,
         NEW f, \A x \in T : f[x] \in Int, NEW g, \A x \in T : g[x] \in Int,
         NEW h, \A x \in T : h[x] = a * f[x] + b * g[x]
  PROVE  SumFunctionOnSet(h, T) = a * SumFunctionOnSet(f, T) + b * SumFunctionOnSet(g, T)
<1> DEFINE Fits(s) == SumFunctionOnSet(h, s)
                        = a * SumFunctionOnSet(f, s) + b * SumFunctionOnSet(g, s)
           U == {s \in SUBSET T : Fits(s)}
<1>1. {} \in U
  <2>1. SumFunctionOnSet(h, {}) = 0 /\ SumFunctionOnSet(f, {}) = 0 /\ SumFunctionOnSet(g, {}) = 0
    BY SumEmpty
  <2> QED
    BY <2>1
<1>2. ASSUME NEW s \in SUBSET T, NEW x \in T \ s, s \in U PROVE s \cup {x} \in U
  <2>1. IsFiniteSet(s)
    BY FS_Subset
  <2>2. \A y \in T : h[y] \in Int
    BY SMT
  <2>3. /\ SumFunctionOnSet(f, s \cup {x}) = SumFunctionOnSet(f, s) + f[x]
        /\ SumFunctionOnSet(g, s \cup {x}) = SumFunctionOnSet(g, s) + g[x]
        /\ SumFunctionOnSet(h, s \cup {x}) = SumFunctionOnSet(h, s) + h[x]
    BY <2>1, <2>2, SumWith
  <2>4. SumFunctionOnSet(f, s) \in Int /\ SumFunctionOnSet(g, s) \in Int
    BY <2>1, SumType
  <2>5. f[x] \in Int /\ g[x] \in Int /\ h[x] = a * f[x] + b * g[x]
    OBVIOUS
  <2>6. SumFunctionOnSet(h, s) = a * SumFunctionOnSet(f, s) + b * SumFunctionOnSet(g, s)
    BY <1>2
  <2>7. \A p, q, u, v \in Int : (a * p + b * q) + (a * u + b * v) = a * (p + u) + b * (q + v)
    OBVIOUS
  <2>8. Fits(s \cup {x})
    BY <2>3, <2>4, <2>5, <2>6, <2>7
  <2> QED
    BY <2>8
<1> HIDE DEF U
<1>3. T \in U
  BY <1>1, <1>2, SetInduction
<1> QED
  BY <1>3 DEF U

\* A sum of numbers that are not negative is not negative.
LEMMA SumNatural ==
  ASSUME NEW T, IsFiniteSet(T), NEW f, \A x \in T : f[x] \in Int /\ f[x] >= 0
  PROVE  SumFunctionOnSet(f, T) \in Int /\ SumFunctionOnSet(f, T) >= 0
<1> DEFINE U == {s \in SUBSET T : SumFunctionOnSet(f, s) >= 0}
<1>1. {} \in U
  <2>1. SumFunctionOnSet(f, {}) = 0
    BY SumEmpty
  <2> QED
    BY <2>1
<1>2. ASSUME NEW s \in SUBSET T, NEW x \in T \ s, s \in U PROVE s \cup {x} \in U
  <2>1. IsFiniteSet(s)
    BY FS_Subset
  <2>2. SumFunctionOnSet(f, s \cup {x}) = SumFunctionOnSet(f, s) + f[x]
    BY <2>1, SumWith
  <2>3. SumFunctionOnSet(f, s) \in Int
    BY <2>1, SumType
  <2> QED
    BY <1>2, <2>2, <2>3
<1> HIDE DEF U
<1>3. T \in U
  BY <1>1, <1>2, SetInduction
<1> QED
  BY <1>3, SumType DEF U

\* The sum over two sets with no common member.
LEMMA SumUnion ==
  ASSUME NEW T, IsFiniteSet(T), NEW S, IsFiniteSet(S), S \cap T = {},
         NEW f, \A x \in S \cup T : f[x] \in Int
  PROVE  SumFunctionOnSet(f, S \cup T) = SumFunctionOnSet(f, S) + SumFunctionOnSet(f, T)
<1> DEFINE Fits(s) == SumFunctionOnSet(f, S \cup s)
                        = SumFunctionOnSet(f, S) + SumFunctionOnSet(f, s)
           U == {s \in SUBSET T : Fits(s)}
<1>1. {} \in U
  <2>1. SumFunctionOnSet(f, {}) = 0 /\ S \cup {} = S /\ SumFunctionOnSet(f, S) \in Int
    BY SumEmpty, SumType
  <2> QED
    BY <2>1
<1>2. ASSUME NEW s \in SUBSET T, NEW x \in T \ s, s \in U PROVE s \cup {x} \in U
  <2>1. IsFiniteSet(s) /\ IsFiniteSet(S \cup s)
    BY FS_Subset, FS_Union
  <2>2. /\ SumFunctionOnSet(f, s \cup {x}) = SumFunctionOnSet(f, s) + f[x]
        /\ SumFunctionOnSet(f, (S \cup s) \cup {x}) = SumFunctionOnSet(f, S \cup s) + f[x]
    BY <2>1, SumWith
  <2>3. (S \cup s) \cup {x} = S \cup (s \cup {x})
    OBVIOUS
  <2>4. /\ SumFunctionOnSet(f, s) \in Int /\ SumFunctionOnSet(f, S) \in Int
        /\ f[x] \in Int
    BY <2>1, SumType
  <2>5. Fits(s)
    BY <1>2
  <2>6. SumFunctionOnSet(f, S \cup (s \cup {x})) = SumFunctionOnSet(f, S \cup s) + f[x]
    BY <2>2, <2>3, Zenon
  <2>7. Fits(s \cup {x})
    BY <2>2, <2>4, <2>5, <2>6
  <2> QED
    BY <2>7
<1> HIDE DEF U
<1>3. T \in U
  BY <1>1, <1>2, SetInduction
<1> QED
  BY <1>3 DEF U

\* A sum may be taken over the images of a bijection.
LEMMA SumOverImages ==
  ASSUME NEW T, IsFiniteSet(T), NEW S, NEW b \in Bijection(T, S),
         NEW f, \A x \in S : f[x] \in Int
  PROVE  SumFunctionOnSet(f, S) = SumFunctionOnSet([x \in T |-> f[b[x]]], T)
<1> DEFINE g == [x \in T |-> f[b[x]]]
           Image(s) == {b[x] : x \in s}
           Fits(s) == SumFunctionOnSet(f, Image(s)) = SumFunctionOnSet(g, s)
           U == {s \in SUBSET T : Fits(s)}
<1>1. /\ b \in [T -> S]
      /\ \A x, y \in T : b[x] = b[y] => x = y
      /\ \A z \in S : \E x \in T : b[x] = z
  BY Zenon DEF Bijection, Injection, Surjection, IsInjective
<1>2. {} \in U
  <2>1. Image({}) = {}
    OBVIOUS
  <2> QED
    BY <2>1, SumEmpty
<1>3. \A s \in SUBSET T : IsFiniteSet(Image(s))
  <2>1. IsFiniteSet(S)
    BY FS_Bijection DEF ExistsBijection
  <2>2. \A s \in SUBSET T : Image(s) \in SUBSET S
    BY <1>1
  <2> HIDE DEF Image
  <2> QED
    BY <2>1, <2>2, FS_Subset
<1>4. ASSUME NEW s \in SUBSET T, NEW x \in T \ s, s \in U PROVE s \cup {x} \in U
  <2>1. IsFiniteSet(s) /\ IsFiniteSet(Image(s))
    BY <1>3, FS_Subset
  <2>2. Image(s \cup {x}) = Image(s) \cup {b[x]}
    OBVIOUS
  <2>3. b[x] \notin Image(s) /\ Image(s) \cup {b[x]} \in SUBSET S
    BY <1>1
  <2>4. \A y \in T : g[y] \in Int
    BY <1>1
  <2>5. g[x] = f[b[x]]
    OBVIOUS
  <2>6. Fits(s)
    BY <1>4
  <2> HIDE DEF Image, g
  <2>7. SumFunctionOnSet(f, Image(s) \cup {b[x]}) = SumFunctionOnSet(f, Image(s)) + f[b[x]]
    BY <2>1, <2>3, SumWith
  <2>8. SumFunctionOnSet(g, s \cup {x}) = SumFunctionOnSet(g, s) + g[x]
    BY <2>1, <2>4, SumWith
  <2>9. Fits(s \cup {x})
    BY <2>2, <2>5, <2>6, <2>7, <2>8
  <2> QED
    BY <2>9
<1>5. Image(T) = S
  BY <1>1
<1> HIDE DEF U, Image, g
<1>6. T \in U
  BY <1>2, <1>4, SetInduction
<1> QED
  BY <1>5, <1>6 DEF U, g
\* A sum over 0..k, the last term apart.
LEMMA SumToNext ==
  ASSUME NEW k \in Nat, NEW f, \A x \in 0..k : f[x] \in Int
  PROVE  SumFunctionOnSet(f, 0..k) = SumFunctionOnSet(f, 0..(k - 1)) + f[k]
<1> DEFINE T == 0..(k - 1)
<1>1. IsFiniteSet(T)
  BY FS_Interval, 0 \in Int, k - 1 \in Int
<1>2. 0..k = T \cup {k} /\ k \notin T
  OBVIOUS
<1> HIDE DEF T
<1>3. \A x \in T \cup {k} : f[x] \in Int
  BY <1>2
<1>4. SumFunctionOnSet(f, T \cup {k}) = SumFunctionOnSet(f, T) + f[k]
  BY <1>1, <1>2, <1>3, SumWith
<1>5. SumFunctionOnSet(f, 0..k) = SumFunctionOnSet(f, T) + f[k]
  BY <1>2, <1>4, Zenon
<1> QED
  BY <1>5 DEF T

\* The size of a set as a sum of ones and zeros.
LEMMA CountIsSum ==
  ASSUME NEW T, IsFiniteSet(T), NEW S \in SUBSET T
  PROVE  Cardinality(S) = SumFunctionOnSet([x \in T |-> IF x \in S THEN 1 ELSE 0], T)
<1> DEFINE f == [x \in T |-> IF x \in S THEN 1 ELSE 0]
           Fits(s) == Cardinality(S \cap s) = SumFunctionOnSet(f, s)
           U == {s \in SUBSET T : Fits(s)}
<1>1. {} \in U
  <2>1. S \cap {} = {} /\ Cardinality({}) = 0
    BY FS_EmptySet
  <2> QED
    BY <2>1, SumEmpty
<1>2. ASSUME NEW s \in SUBSET T, NEW x \in T \ s, s \in U PROVE s \cup {x} \in U
  <2>1. IsFiniteSet(s) /\ IsFiniteSet(S \cap s)
    BY FS_Subset
  <2>2. \A y \in T : f[y] \in Int
    OBVIOUS
  <2>3. SumFunctionOnSet(f, s \cup {x}) = SumFunctionOnSet(f, s) + f[x]
    <3> HIDE DEF f
    <3> QED
      BY <2>1, <2>2, SumWith
  <2>4. Fits(s) /\ Cardinality(S \cap s) \in Nat
    BY <1>2, <2>1, FS_CardinalityType
  <2>5. Fits(s \cup {x})
    <3>1. CASE x \in S
      <4>1. S \cap (s \cup {x}) = (S \cap s) \cup {x} /\ x \notin S \cap s
        BY <3>1
      <4>2. Cardinality((S \cap s) \cup {x}) = Cardinality(S \cap s) + 1
        BY <2>1, <4>1, FS_AddElement
      <4>3. Cardinality(S \cap (s \cup {x})) = Cardinality(S \cap s) + 1
        BY <4>1, <4>2, Zenon
      <4>4. f[x] = 1
        BY <3>1
      <4> HIDE DEF f
      <4> QED
        BY <2>3, <2>4, <4>3, <4>4
    <3>2. CASE x \notin S
      <4>1. S \cap (s \cup {x}) = S \cap s
        BY <3>2
      <4>2. f[x] = 0
        BY <3>2
      <4>3. Cardinality(S \cap (s \cup {x})) = Cardinality(S \cap s)
        BY <4>1, Zenon
      <4> HIDE DEF f
      <4> QED
        BY <2>3, <2>4, <4>2, <4>3
    <3> QED
      BY <3>1, <3>2
  <2> QED
    BY <2>5
<1>3. T \in U
  <2> HIDE DEF U
  <2> QED
    BY <1>1, <1>2, SetInduction
<1>4. Cardinality(S \cap T) = SumFunctionOnSet(f, T) /\ S \cap T = S
  <2>1. Fits(T)
    BY <1>3
  <2>2. S \cap T = S
    OBVIOUS
  <2> HIDE DEF f
  <2> QED
    BY <2>1, <2>2
<1> HIDE DEF f
<1>5. Cardinality(S) = SumFunctionOnSet(f, T)
  BY <1>4, Zenon
<1> QED
  BY <1>5 DEF f

\* Sorted by a function, the members of a set are counted once each.
LEMMA CountsAddUp ==
  ASSUME NEW T, IsFiniteSet(T), NEW S, IsFiniteSet(S), NEW g \in [S -> T]
  PROVE  SumFunctionOnSet([y \in T |-> Cardinality({x \in S : g[x] = y})], T)
           = Cardinality(S)
<1> DEFINE f == [y \in T |-> Cardinality({x \in S : g[x] = y})]
           Fits(s) == SumFunctionOnSet(f, s) = Cardinality({x \in S : g[x] \in s})
           U == {s \in SUBSET T : Fits(s)}
<1>1. {} \in U
  <2>1. {x \in S : g[x] \in {}} = {} /\ Cardinality({}) = 0
    BY FS_EmptySet
  <2>2. Cardinality({x \in S : g[x] \in {}}) = 0
    BY <2>1, Zenon
  <2> HIDE DEF f
  <2>3. Fits({})
    BY <2>2, SumEmpty
  <2> QED
    BY <2>3
<1>2. ASSUME NEW s \in SUBSET T, NEW z \in T \ s, s \in U PROVE s \cup {z} \in U
  <2> DEFINE A == {x \in S : g[x] \in s}
             B == {x \in S : g[x] = z}
             W == {x \in S : g[x] \in s \cup {z}}
  <2>1. IsFiniteSet(s) /\ IsFiniteSet(A) /\ IsFiniteSet(B)
    BY FS_Subset
  <2>2. W = A \cup B /\ A \cap B = {}
    OBVIOUS
  <2>3. f[z] = Cardinality(B)
    OBVIOUS
  <2>4. \A y \in T : f[y] \in Int
    <3>1. \A y \in T : IsFiniteSet({x \in S : g[x] = y})
      BY FS_Subset
    <3> QED
      BY <3>1, FS_CardinalityType
  <2>5. SumFunctionOnSet(f, s) = Cardinality(A)
    BY <1>2
  <2> HIDE DEF A, B, f
  <2>6. SumFunctionOnSet(f, s \cup {z}) = SumFunctionOnSet(f, s) + f[z]
    BY <2>1, <2>4, SumWith
  <2>7. Cardinality(A \cup B) = Cardinality(A) + Cardinality(B)
    <3>1. Cardinality({}) = 0
      BY FS_EmptySet
    <3>2. Cardinality(A) \in Nat /\ Cardinality(B) \in Nat
      BY <2>1, FS_CardinalityType
    <3>3. Cardinality(A \cup B) = Cardinality(A) + Cardinality(B) - Cardinality(A \cap B)
      BY <2>1, FS_Union
    <3>4. Cardinality(A \cap B) = 0
      BY <2>2, <3>1, Zenon
    <3> QED
      BY <3>2, <3>3, <3>4
  <2> HIDE DEF W
  <2>8. SumFunctionOnSet(f, s \cup {z}) = Cardinality(W)
    BY <2>2, <2>3, <2>5, <2>6, <2>7
  <2> QED
    BY <2>8 DEF W
<1>3. T \in U
  <2> HIDE DEF U
  <2> QED
    BY <1>1, <1>2, SetInduction
<1>4. Fits(T)
  BY <1>3
<1>5. {x \in S : g[x] \in T} = S
  OBVIOUS
<1> HIDE DEF f
<1>6. SumFunctionOnSet(f, T) = Cardinality(S)
  BY <1>4, <1>5, Zenon
<1> QED
  BY <1>6 DEF f
\* The sum over the numbers from a on, shifted to start from 0.
LEMMA SumShift ==
  ASSUME NEW N \in Nat, NEW a \in Int, NEW f, \A k \in a..(a + N - 1) : f[k] \in Int
  PROVE  SumFunctionOnSet(f, a..(a + N - 1))
           = SumFunctionOnSet([x \in 0..(N - 1) |-> f[a + x]], 0..(N - 1))
<1> DEFINE T == 0..(N - 1)
           S == a..(a + N - 1)
           b == [x \in T |-> a + x]
<1>1. IsFiniteSet(T)
  BY FS_Interval, 0 \in Int, N - 1 \in Int
<1>2. b \in Bijection(T, S)
  <2>1. b \in [T -> S]
    OBVIOUS
  <2>2. \A x, y \in T : b[x] = b[y] => x = y
    OBVIOUS
  <2>3. \A z \in S : \E x \in T : b[x] = z
    <3> TAKE z \in S
    <3>1. z - a \in T /\ b[z - a] = z
      OBVIOUS
    <3> QED
      BY <3>1
  <2> HIDE DEF b, T, S
  <2> QED
    BY <2>1, <2>2, <2>3, Zenon DEF Bijection, Injection, Surjection, IsInjective
<1>3. [x \in T |-> f[b[x]]] = [x \in T |-> f[a + x]]
  OBVIOUS
<1> HIDE DEF b, T, S
<1>4. SumFunctionOnSet(f, S) = SumFunctionOnSet([x \in T |-> f[b[x]]], T)
  BY <1>1, <1>2, SumOverImages DEF S
<1> QED
  BY <1>3, <1>4, Zenon DEF T, S

\* The sum over 0..N+k-1 is that over 0..N-1 and that over the k numbers after.
LEMMA SumSplit ==
  ASSUME NEW N \in Nat, NEW k \in Nat, NEW f, \A x \in 0..(N + k - 1) : f[x] \in Int
  PROVE  SumFunctionOnSet(f, 0..(N + k - 1))
           = SumFunctionOnSet(f, 0..(N - 1))
             + SumFunctionOnSet([x \in 0..(k - 1) |-> f[N + x]], 0..(k - 1))
<1> DEFINE S == 0..(N - 1)
           T == N..(N + k - 1)
<1>1. IsFiniteSet(S) /\ IsFiniteSet(T)
  BY FS_Interval, 0 \in Int, N - 1 \in Int, N \in Int, N + k - 1 \in Int
<1>2. S \cup T = 0..(N + k - 1) /\ S \cap T = {}
  OBVIOUS
<1>3. SumFunctionOnSet(f, T) = SumFunctionOnSet([x \in 0..(k - 1) |-> f[N + x]], 0..(k - 1))
  <2>1. N \in Int /\ \A x \in T : f[x] \in Int
    OBVIOUS
  <2> QED
    BY <2>1, SumShift
<1> HIDE DEF S, T
<1>4. SumFunctionOnSet(f, S \cup T) = SumFunctionOnSet(f, S) + SumFunctionOnSet(f, T)
  BY <1>1, <1>2, SumUnion
<1> QED
  BY <1>2, <1>3, <1>4, Zenon DEF S

\* The sum of two functions.
LEMMA SumOfTwo ==
  ASSUME NEW T, IsFiniteSet(T),
         NEW f, \A x \in T : f[x] \in Int, NEW g, \A x \in T : g[x] \in Int,
         NEW h, \A x \in T : h[x] = f[x] + g[x]
  PROVE  SumFunctionOnSet(h, T) = SumFunctionOnSet(f, T) + SumFunctionOnSet(g, T)
<1>1. \A x \in T : h[x] = 1 * f[x] + 1 * g[x]
  OBVIOUS
<1>2. SumFunctionOnSet(h, T) = 1 * SumFunctionOnSet(f, T) + 1 * SumFunctionOnSet(g, T)
  BY <1>1, SumLinear, 1 \in Int
<1>3. SumFunctionOnSet(f, T) \in Int /\ SumFunctionOnSet(g, T) \in Int
  BY SumType
<1> QED
  BY <1>2, <1>3

\* A sum over 0..2N-1, with the terms of the two halves in pairs.
LEMMA SumByHalves ==
  ASSUME NEW N \in Nat, NEW f, \A x \in 0..(2 * N - 1) : f[x] \in Int
  PROVE  SumFunctionOnSet(f, 0..(2 * N - 1))
           = SumFunctionOnSet([y \in 0..(N - 1) |-> f[y] + f[N + y]], 0..(N - 1))
<1> DEFINE T == 0..(N - 1)
           g == [y \in T |-> f[N + y]]
           h == [y \in T |-> f[y] + f[N + y]]
<1>1. IsFiniteSet(T)
  BY FS_Interval, 0 \in Int, N - 1 \in Int
<1>2. 2 * N = N + N
  OBVIOUS
<1>3. \A x \in 0..(N + N - 1) : f[x] \in Int
  BY <1>2
<1>4. SumFunctionOnSet(f, 0..(N + N - 1)) = SumFunctionOnSet(f, T) + SumFunctionOnSet(g, T)
  BY <1>3, SumSplit
<1>5. \A y \in T : f[y] \in Int /\ g[y] \in Int /\ h[y] = f[y] + g[y]
  <2>1. \A y \in T : y \in 0..(N + N - 1) /\ N + y \in 0..(N + N - 1)
    OBVIOUS
  <2>2. \A y \in T : g[y] = f[N + y] /\ h[y] = f[y] + f[N + y]
    OBVIOUS
  <2> HIDE DEF T, g, h
  <2> QED
    BY <1>3, <2>1, <2>2
<1> HIDE DEF T, g, h
<1>6. SumFunctionOnSet(h, T) = SumFunctionOnSet(f, T) + SumFunctionOnSet(g, T)
  BY <1>1, <1>5, SumOfTwo
<1> QED
  BY <1>2, <1>4, <1>6 DEF T, h

\* A sum over 0..2N-1, with the terms at 2y and 2y+1 in pairs.
LEMMA SumByPairs ==
  ASSUME NEW N \in Nat, NEW f, \A x \in 0..(2 * N - 1) : f[x] \in Int
  PROVE  SumFunctionOnSet(f, 0..(2 * N - 1))
           = SumFunctionOnSet([y \in 0..(N - 1) |-> f[2 * y] + f[2 * y + 1]], 0..(N - 1))
<1> DEFINE h == [y \in 0..(N - 1) |-> f[2 * y] + f[2 * y + 1]]
           Fits(k) == SumFunctionOnSet(f, 0..(2 * k - 1)) = SumFunctionOnSet(h, 0..(k - 1))
           U == {k \in 0..N : Fits(k)}
<1>1. 0 \in U
  <2>1. 0..(2 * 0 - 1) = {} /\ 0..(0 - 1) = {}
    OBVIOUS
  <2> HIDE DEF h
  <2>2. Fits(0)
    BY <2>1, SumEmpty, Zenon
  <2> QED
    BY <2>2
<1>2. \A y \in 0..(N - 1) : /\ f[2 * y] \in Int /\ f[2 * y + 1] \in Int
                            /\ h[y] = f[2 * y] + f[2 * y + 1]
  <2>1. \A y \in 0..(N - 1) : 2 * y \in 0..(2 * N - 1) /\ 2 * y + 1 \in 0..(2 * N - 1)
    OBVIOUS
  <2>2. \A y \in 0..(N - 1) : h[y] = f[2 * y] + f[2 * y + 1]
    OBVIOUS
  <2> HIDE DEF h
  <2> QED
    BY <2>1, <2>2, Zenon
<1>3. ASSUME NEW k \in 0..(N - 1), k \in U PROVE k + 1 \in U
  <2>1. k \in Nat /\ 2 * k \in Nat /\ 2 * k + 1 \in Nat
    OBVIOUS
  <2>2. SumFunctionOnSet(h, 0..k) = SumFunctionOnSet(h, 0..(k - 1)) + h[k]
    <3>1. \A x \in 0..k : x \in 0..(N - 1)
      OBVIOUS
    <3>2. \A x \in 0..(N - 1) : h[x] \in Int
      <4> HIDE DEF h
      <4> QED
        BY <1>2
    <3> HIDE DEF h
    <3> QED
      BY <2>1, <3>1, <3>2, SumToNext
  <2>3. SumFunctionOnSet(f, 0..(2 * k)) = SumFunctionOnSet(f, 0..(2 * k - 1)) + f[2 * k]
    <3>1. \A x \in 0..(2 * k) : x \in 0..(2 * N - 1)
      OBVIOUS
    <3> QED
      BY <2>1, <3>1, SumToNext
  <2>4. SumFunctionOnSet(f, 0..(2 * k + 1)) = SumFunctionOnSet(f, 0..(2 * k)) + f[2 * k + 1]
    <3>1. \A x \in 0..(2 * k + 1) : x \in 0..(2 * N - 1)
      OBVIOUS
    <3>2. (2 * k + 1) - 1 = 2 * k
      OBVIOUS
    <3>3. SumFunctionOnSet(f, 0..(2 * k + 1))
            = SumFunctionOnSet(f, 0..((2 * k + 1) - 1)) + f[2 * k + 1]
      BY <2>1, <3>1, SumToNext
    <3> QED
      BY <3>2, <3>3, Zenon
  <2>5. SumFunctionOnSet(f, 0..(2 * k - 1)) \in Int
    <3>1. IsFiniteSet(0..(2 * k - 1)) /\ \A x \in 0..(2 * k - 1) : x \in 0..(2 * N - 1)
      BY FS_Interval, 0 \in Int, 2 * k - 1 \in Int
    <3> QED
      BY <3>1, SumType
  <2>6. 2 * (k + 1) - 1 = 2 * k + 1 /\ (k + 1) - 1 = k
    OBVIOUS
  <2>7. Fits(k)
    BY <1>3
  <2> HIDE DEF h
  <2>8. SumFunctionOnSet(f, 0..(2 * k + 1)) = SumFunctionOnSet(h, 0..k)
    BY <1>2, <2>2, <2>3, <2>4, <2>5, <2>7
  <2>9. Fits(k + 1)
    BY <2>6, <2>8, Zenon
  <2> QED
    BY <2>9
<1> HIDE DEF U, h
<1>4. 0..N \subseteq U
  BY <1>1, <1>3, InductionUpTo
<1> QED
  BY <1>4 DEF U, h
=============================================================================
