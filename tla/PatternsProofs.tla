---------------------------- MODULE PatternsProofs ----------------------------
(***************************************************************************)
(* What the counting tests of package nist leave in counts is right for    *)
(* every bitstream, every block length and every list of templates: the    *)
(* types, the distances of the universal test, the matches that the non-   *)
(* overlapping test finds, the windows of approximate entropy and serial,  *)
(* the classes and sums of the blocks. The thresholds of SuiteParameters   *)
(* fit together for every number of bits, and the table of templates is    *)
(* complete.                                                               *)
(*                                                                         *)
(* The route: a block of bits read as a number determines the bits (powers *)
(* of two, readings, digits), so that a word that overlaps its own copy    *)
(* has a period (OverlapIsPeriod, NoOverlap) and the scan that jumps over  *)
(* a match counts every match (ScanCounts). IInv has one conjunct for each *)
(* test; TurnEffects and Steps say what a step leaves alone, and each      *)
(* conjunct has a lemma that it is kept.                                   *)
(*                                                                         *)
(* The tables of windows are counts over the positions of a circle: Window *)
(* and Freq give them as functions of the bits (TableHolds), going once    *)
(* round the circle changes no count (Rotated), and the arguments of the   *)
(* serial test are sums of squares (PsiDifferences). WindowsInv says which *)
(* tables are made when.                                                   *)
(*                                                                         *)
(* Every stretch of ones lies in one maximal run (StretchInRun,            *)
(* RunsApart): the scan of longest_run.go keeps its run and its longest    *)
(* stretch (ScanIsAt), and the matches of the template of ones are counted *)
(* run by run (MatchesByRun). BlocksInv says which blocks are in which     *)
(* class.                                                                  *)
(***************************************************************************)
EXTENDS Patterns, Induction, SequenceTheorems

\* Below MinBits the switch of universal.go ends in its default, L = 5.
LEMMA LengthBelow ==
  ASSUME NEW s \in Nat, s < MinBits PROVE BlockLength(s) = 5
  BY DEF MinBits, BlockLength, Reaches

\* From MinBits on L is one of the lengths the test is defined for.
LEMMA LengthAbove ==
  ASSUME NEW s \in Nat, s >= MinBits PROVE BlockLength(s) \in 6..16
  BY DEF MinBits, BlockLength, Reaches

\* From MinBits on L is the largest block length that leaves 1000 * 2^L blocks
\* (universal.go:11-43): one linear problem for each length.
LEMMA LargestLength ==
  ASSUME NEW s \in Nat, s >= MinBits, NEW k \in 6..16
  PROVE  (s \div k - Q(k) >= 1000 * 2 ^ k) <=> k <= BlockLength(s)
<1>1. k \in {6, 7, 8, 9, 10, 11, 12, 13, 14, 15, 16}
  OBVIOUS
<1>3. CASE k = 6
  BY <1>3 DEF MinBits, BlockLength, Reaches, Q
<1>4. CASE k = 7
  BY <1>4 DEF MinBits, BlockLength, Reaches, Q
<1>5. CASE k = 8
  BY <1>5 DEF MinBits, BlockLength, Reaches, Q
<1>6. CASE k = 9
  BY <1>6 DEF MinBits, BlockLength, Reaches, Q
<1>7. CASE k = 10
  BY <1>7 DEF MinBits, BlockLength, Reaches, Q
<1>8. CASE k = 11
  BY <1>8 DEF MinBits, BlockLength, Reaches, Q
<1>9. CASE k = 12
  BY <1>9 DEF MinBits, BlockLength, Reaches, Q
<1>10. CASE k = 13
  BY <1>10 DEF MinBits, BlockLength, Reaches, Q
<1>11. CASE k = 14
  BY <1>11 DEF MinBits, BlockLength, Reaches, Q
<1>12. CASE k = 15
  BY <1>12 DEF MinBits, BlockLength, Reaches, Q
<1>13. CASE k = 16
  BY <1>13 DEF MinBits, BlockLength, Reaches, Q
<1> QED
  BY <1>1, <1>3, <1>4, <1>5, <1>6, <1>7, <1>8, <1>9, <1>10, <1>11, <1>12, <1>13

\* A bitstream of MinBits leaves the universal test at least one block to
\* measure, the condition K > 0 of universal.go:41.
LEMMA SomethingMeasured ==
  ASSUME NEW s \in Nat, s >= MinBits
  PROVE  ~ (K(s) <= 0)
<1>1. BlockLength(s) \in 6..16
  BY LengthAbove
<1>2. BlockLength(s) \in {6, 7, 8, 9, 10, 11, 12, 13, 14, 15, 16}
  BY <1>1
<1>4. CASE BlockLength(s) = 6
  BY <1>4, SMT DEF MinBits, BlockLength, Reaches, K, Q
<1>5. CASE BlockLength(s) = 7
  BY <1>5, SMT DEF MinBits, BlockLength, Reaches, K, Q
<1>6. CASE BlockLength(s) = 8
  BY <1>6, SMT DEF MinBits, BlockLength, Reaches, K, Q
<1>7. CASE BlockLength(s) = 9
  BY <1>7, SMT DEF MinBits, BlockLength, Reaches, K, Q
<1>8. CASE BlockLength(s) = 10
  BY <1>8, SMT DEF MinBits, BlockLength, Reaches, K, Q
<1>9. CASE BlockLength(s) = 11
  BY <1>9, SMT DEF MinBits, BlockLength, Reaches, K, Q
<1>10. CASE BlockLength(s) = 12
  BY <1>10, SMT DEF MinBits, BlockLength, Reaches, K, Q
<1>11. CASE BlockLength(s) = 13
  BY <1>11, SMT DEF MinBits, BlockLength, Reaches, K, Q
<1>12. CASE BlockLength(s) = 14
  BY <1>12, SMT DEF MinBits, BlockLength, Reaches, K, Q
<1>13. CASE BlockLength(s) = 15
  BY <1>13, SMT DEF MinBits, BlockLength, Reaches, K, Q
<1>14. CASE BlockLength(s) = 16
  BY <1>14, SMT DEF MinBits, BlockLength, Reaches, K, Q
<1> QED
  BY <1>2, <1>4, <1>5, <1>6, <1>7, <1>8, <1>9, <1>10, <1>11, <1>12, <1>13, <1>14

\* From MinBits on no test refuses a bitstream for its length; below it the
\* universal test does (run_all.go:23, 36, and the guards of the tests).
LEMMA RefusedBelowMinBits ==
  ASSUME NEW s \in Nat
  PROVE  Refuses(s) = {} <=> s >= MinBits
<1>1. CASE s >= MinBits
  <2>1. ~ (BlockLength(s) < 6 \/ BlockLength(s) > 16)
    BY <1>1, LengthAbove
  <2>2. ~ (K(s) <= 0)
    BY <1>1, SomethingMeasured
  <2>3. s \div LongestRunCase(s).M # 0
    BY <1>1, SMT DEF MinBits, LongestRunCase
  <2>4. /\ s # 0 /\ ~ (s < 128) /\ s \div 128 # 0 /\ s \div (32 * 32) # 0
        /\ ~ (s < 9) /\ s \div 8 # 0 /\ s \div 1032 # 0 /\ s \div 500 # 0
    BY <1>1, SMT DEF MinBits
  <2>5. SUFFICES ASSUME NEW test \in Refuses(s) PROVE FALSE
    BY <1>1
  <2> QED
    BY <2>1, <2>2, <2>3, <2>4, <2>5, Zenon DEF Refuses
<1>2. CASE ~ s >= MinBits
  <2>1. BlockLength(s) < 6
    BY <1>2, LengthBelow DEF MinBits
  <2>2. "universal_statistical" \in Refuses(s)
    BY <2>1, Zenon DEF Refuses
  <2> QED
    BY <1>2, <2>2
<1> QED
  BY <1>1, <1>2

\* The classes of longest_run.go:26-39 are consecutive numbers in every case.
LEMMA ClassesWithoutGap ==
  ASSUME NEW s \in Nat, NEW r \in 2..Len(LongestRunCase(s).V)
  PROVE  LongestRunCase(s).V[r] = LongestRunCase(s).V[r - 1] + 1
<1>1. CASE s < 6272
  BY <1>1 DEF LongestRunCase
<1>2. CASE s >= 6272 /\ s < 750000
  BY <1>2 DEF LongestRunCase
<1>3. CASE s >= 750000
  BY <1>3 DEF LongestRunCase
<1> QED
  BY <1>1, <1>2, <1>3

\* Whatever the number of bits, both length checks of RunAllTests, the guards of
\* the tests and their parameters fit together: up to MaxBits a length is
\* admitted exactly when no test refuses it, above MaxBits it is turned down
\* although none would (run_all.go:22-41, universal.go:11-43,
\* longest_run.go:26-39).
THEOREM EverySizeFits == \A s \in Nat : SizeFits(s)
<1> SUFFICES ASSUME NEW s \in Nat PROVE SizeFits(s)
  OBVIOUS
<1>1. \A k \in 6..16 : s >= MinBits =>
         ((s \div k - Q(k) >= 1000 * 2 ^ k) <=> k <= BlockLength(s))
  BY LargestLength, Zenon
<1>2. \A r \in 2..Len(LongestRunCase(s).V) :
         LongestRunCase(s).V[r] = LongestRunCase(s).V[r - 1] + 1
  BY ClassesWithoutGap
<1>3. MinBits \in Nat /\ MaxBits \in Nat /\ MinBits <= MaxBits
  BY DEF MinBits, MaxBits
<1>4. Admits(s) <=> Refuses(s) = {} /\ s <= MaxBits
  BY RefusedBelowMinBits, Zenon DEF Admits
<1>5. s > MaxBits => Refuses(s) = {}
  <2>1. s > MaxBits => s >= MinBits
    BY <1>3
  <2> QED
    BY <2>1, RefusedBelowMinBits, Zenon
<1> QED
  BY <1>1, <1>2, <1>4, <1>5, Zenon DEF SizeFits

\* The invariant of the runs, for every set of sizes.
THEOREM ParametersAlwaysFit == Spec => []ParametersFit
<1>1. ParametersFit
  BY EverySizeFits, PatternsAssumption DEF ParametersFit, PatternsAssumption
<1> QED
  BY <1>1, PTL
-----------------------------------------------------------------------------
\* Powers of two and the divisions by them.

\* The first powers and the step from one to the next.
LEMMA PowersOfTwo ==
  /\ 2 ^ 0 = 1
  /\ \A k \in Nat : 2 ^ k \in Nat /\ 2 ^ k >= 1 /\ 2 ^ (k + 1) = 2 * 2 ^ k
<1>1. 2 ^ 0 = 1
  <2>1. IsFiniteSet({}) /\ Cardinality({}) = 0
    BY FS_EmptySet
  <2>2. Cardinality(SUBSET {}) = 2 ^ 0
    BY <2>1, FS_SUBSET
  <2>3. SUBSET {} = {{}} /\ Cardinality({{}}) = 1
    BY FS_Singleton
  <2> QED
    BY <2>2, <2>3
<1>2. \A k \in Nat : 2 ^ k \in Nat /\ 2 ^ (k + 1) = 2 * 2 ^ k
  BY PowerOfTwo
<1> DEFINE T == {k \in Nat : 2 ^ k >= 1}
<1>3. 0 \in T
  BY <1>1
<1>4. \A k \in Nat : k \in T => k + 1 \in T
  BY <1>2
<1> HIDE DEF T
<1>5. Nat \subseteq T
  BY <1>3, <1>4, InductionOnNat
<1> QED
  BY <1>1, <1>2, <1>5 DEF T

\* Dividing by twice a number is dividing by it and halving.
LEMMA DivideTwice ==
  ASSUME NEW x \in Nat, NEW d \in Nat, d >= 1
  PROVE  x \div (2 * d) = (x \div d) \div 2
<1> DEFINE q == x \div d
           h == q \div 2
<1>1. q \in Nat /\ h \in Nat /\ 2 * h <= q /\ q <= 2 * h + 1
  OBVIOUS
<1>2. d * q <= x /\ x < d * q + d
  OBVIOUS
<1> HIDE DEF q, h
<1>3. \A y, z \in Nat : y <= z => d * y <= d * z
  OBVIOUS
<1>4. d * (2 * h) <= d * q /\ d * q <= d * (2 * h + 1)
  BY <1>1, <1>3
<1>5. d * (2 * h) = (2 * d) * h /\ d * (2 * h + 1) = (2 * d) * h + d /\ (2 * d) * h \in Nat
  BY <1>1
<1>6. (2 * d) * h <= x /\ x < (2 * d) * h + 2 * d
  <2>1. d * q \in Nat
    BY <1>1
  <2> QED
    BY <1>2, <1>4, <1>5, <2>1
<1>7. \A e \in Nat \ {0} : e * h <= x /\ x < e * h + e => x \div e = h
  BY <1>1
<1>8. x \div (2 * d) = h
  BY <1>6, <1>7
<1> QED
  BY <1>8 DEF q, h

\* A number of k bits has no further ones.
LEMMA DivideOut ==
  ASSUME NEW d \in Nat, d >= 1, NEW x \in 0..(d - 1)
  PROVE  x \div d = 0
  OBVIOUS
-----------------------------------------------------------------------------
\* Numbers read bit by bit: v is what the m bits b[1], ..., b[m] make, the first
\* of them the most significant.

IsReading(h, b, m) == /\ h \in [0..m -> Int] /\ h[0] = 0
                      /\ \A j \in 1..m : h[j] = 2 * h[j - 1] + b[j]

IsValue(v, b, m) == \E h : IsReading(h, b, m) /\ v = h[m]

\* Every partial reading is a number of as many bits as were read.
LEMMA ReadingBounds ==
  ASSUME NEW m \in Nat, NEW b \in [1..m -> 0..1], NEW h, IsReading(h, b, m)
  PROVE  \A j \in 0..m : h[j] \in 0..(2 ^ j - 1)
<1> DEFINE T == {j \in 0..m : h[j] \in 0..(2 ^ j - 1)}
<1>1. 0 \in T
  BY PowersOfTwo DEF IsReading
<1>2. ASSUME NEW j \in 0..(m - 1), j \in T PROVE j + 1 \in T
  <2>1. j \in Nat /\ j + 1 \in 1..m /\ (j + 1) - 1 = j
    OBVIOUS
  <2>2. h[j + 1] = 2 * h[j] + b[j + 1] /\ b[j + 1] \in 0..1 /\ h[j] \in Int
    BY <2>1 DEF IsReading
  <2>3. 2 ^ j \in Nat /\ 2 ^ (j + 1) = 2 * 2 ^ j
    BY <2>1, PowersOfTwo
  <2>4. h[j] \in 0..(2 ^ j - 1)
    BY <1>2
  <2> QED
    BY <2>1, <2>2, <2>3, <2>4
<1> HIDE DEF T
<1>3. 0..m \subseteq T
  BY <1>1, <1>2, InductionUpTo
<1> QED
  BY <1>3 DEF T

\* A value is a number of m bits.
LEMMA ValueBounds ==
  ASSUME NEW m \in Nat, NEW b \in [1..m -> 0..1], NEW v, IsValue(v, b, m)
  PROVE  v \in Words(m)
<1>1. PICK h : IsReading(h, b, m) /\ v = h[m]
  BY DEF IsValue
<1>2. m \in 0..m
  OBVIOUS
<1> QED
  BY <1>1, <1>2, ReadingBounds DEF Words

\* Two values of m bits are equal exactly when the bits are.
LEMMA ValueDetermines ==
  ASSUME NEW m \in Nat, NEW b \in [1..m -> 0..1], NEW c \in [1..m -> 0..1],
         NEW v, NEW w, IsValue(v, b, m), IsValue(w, c, m)
  PROVE  v = w <=> \A j \in 1..m : b[j] = c[j]
<1>1. PICK h : IsReading(h, b, m) /\ v = h[m]
  BY DEF IsValue
<1>2. PICK g : IsReading(g, c, m) /\ w = g[m]
  BY DEF IsValue
<1> DEFINE T == {j \in 0..m : h[j] = g[j] <=> \A k \in 1..j : b[k] = c[k]}
<1>3. 0 \in T
  BY <1>1, <1>2 DEF IsReading
<1>4. ASSUME NEW j \in 0..(m - 1), j \in T PROVE j + 1 \in T
  <2>1. j + 1 \in 1..m /\ (j + 1) - 1 = j /\ j + 1 \in 0..m
    OBVIOUS
  <2>2. /\ h[j + 1] = 2 * h[j] + b[j + 1] /\ b[j + 1] \in 0..1 /\ h[j] \in Int
        /\ g[j + 1] = 2 * g[j] + c[j + 1] /\ c[j + 1] \in 0..1 /\ g[j] \in Int
    <3>1. h[j + 1] = 2 * h[j] + b[j + 1] /\ h[j] \in Int
      BY <1>1, <2>1 DEF IsReading
    <3>2. g[j + 1] = 2 * g[j] + c[j + 1] /\ g[j] \in Int
      BY <1>2, <2>1 DEF IsReading
    <3>3. b[j + 1] \in 0..1 /\ c[j + 1] \in 0..1
      BY <2>1
    <3> QED
      BY <3>1, <3>2, <3>3
  <2>3. h[j + 1] = g[j + 1] <=> h[j] = g[j] /\ b[j + 1] = c[j + 1]
    BY <2>2
  <2>4. h[j] = g[j] <=> \A k \in 1..j : b[k] = c[k]
    BY <1>4
  <2>5. (\A k \in 1..(j + 1) : b[k] = c[k])
            <=> (\A k \in 1..j : b[k] = c[k]) /\ b[j + 1] = c[j + 1]
    <3>1. \A k \in 1..(j + 1) : k \in 1..j \/ k = j + 1
      OBVIOUS
    <3>2. \A k \in 1..j : k \in 1..(j + 1)
      OBVIOUS
    <3>3. j + 1 \in 1..(j + 1)
      OBVIOUS
    <3> QED
      BY <3>1, <3>2, <3>3, Zenon
  <2>6. h[j + 1] = g[j + 1] <=> \A k \in 1..(j + 1) : b[k] = c[k]
    BY <2>3, <2>4, <2>5, Zenon
  <2> QED
    BY <2>1, <2>6
<1> HIDE DEF T
<1>5. 0..m \subseteq T
  BY <1>3, <1>4, InductionUpTo
<1>6. m \in T
  BY <1>5
<1> QED
  BY <1>1, <1>2, <1>6, Zenon DEF T

\* A recursive function of the form in which decRep and Node read their bits.
LEMMA ReadingExists ==
  ASSUME NEW m \in Nat, NEW b \in [1..m -> 0..1], NEW z \in Int
  PROVE  \E h : /\ h \in [0..m -> Int] /\ h[0] = z
                /\ \A j \in 1..m : h[j] = 2 * h[j - 1] + b[j]
<1> DEFINE step == [j \in 1..m |-> [x \in Int |-> 2 * x + b[j]]]
<1>1. step \in [1..m -> [Int -> Int]]
  OBVIOUS
<1>2. \A j \in 1..m : \A x \in Int : step[j][x] = 2 * x + b[j]
  OBVIOUS
<1> HIDE DEF step
<1>3. PICK h : BuiltUp(h, m, Int, z, step)
  BY <1>1, RecursionUpTo
<1>4. ASSUME NEW j \in 1..m PROVE h[j] = 2 * h[j - 1] + b[j]
  <2>1. j - 1 \in 0..m
    OBVIOUS
  <2> QED
    BY <1>2, <1>3, <2>1 DEF BuiltUp
<1> QED
  BY <1>3, <1>4 DEF BuiltUp
\* The digits of a word are read back to the word, and its first j digits to
\* the word without its last ones.
LEMMA WordReading ==
  ASSUME NEW m \in Nat, NEW w \in Words(m)
  PROVE  /\ IsReading([j \in 0..m |-> w \div 2 ^ (m - j)],
                      [j \in 1..m |-> Digit(w, m, j - 1)], m)
         /\ [j \in 1..m |-> Digit(w, m, j - 1)] \in [1..m -> 0..1]
         /\ \A j \in 0..m : w \div 2 ^ (m - j) \in Nat
         /\ w \div 2 ^ (m - m) = w
<1> DEFINE h == [j \in 0..m |-> w \div 2 ^ (m - j)]
           b == [j \in 1..m |-> Digit(w, m, j - 1)]
<1>1. w \in Nat /\ 2 ^ m \in Nat /\ 2 ^ m >= 1 /\ w \in 0..(2 ^ m - 1)
  BY PowersOfTwo DEF Words
<1>2. \A j \in 0..m : h[j] = w \div 2 ^ (m - j) /\ h[j] \in Nat
  <2> TAKE j \in 0..m
  <2>1. m - j \in Nat
    OBVIOUS
  <2>2. 2 ^ (m - j) \in Nat /\ 2 ^ (m - j) >= 1
    BY <2>1, PowersOfTwo
  <2>3. h[j] = w \div 2 ^ (m - j)
    OBVIOUS
  <2> HIDE DEF h
  <2>4. w \div 2 ^ (m - j) \in Nat
    BY <1>1, <2>2
  <2> QED
    BY <2>3, <2>4
<1>3. h[0] = 0
  <2>1. m - 0 = m /\ 0 \in 0..m
    OBVIOUS
  <2>2. h[0] = w \div 2 ^ m
    BY <1>2, <2>1
  <2> HIDE DEF h
  <2> QED
    BY <1>1, <2>2, DivideOut
<1>4. ASSUME NEW j \in 1..m
      PROVE  h[j] = 2 * h[j - 1] + b[j] /\ b[j] \in 0..1
  <2>1. /\ m - j \in Nat /\ m - (j - 1) = (m - j) + 1 /\ m - 1 - (j - 1) = m - j
        /\ j - 1 \in 0..m /\ j \in 0..m
    OBVIOUS
  <2>2. 2 ^ (m - j) \in Nat /\ 2 ^ (m - j) >= 1 /\ 2 ^ (m - (j - 1)) = 2 * 2 ^ (m - j)
    BY <2>1, PowersOfTwo
  <2>3. b[j] = (w \div 2 ^ (m - j)) % 2
    BY <2>1 DEF Digit
  <2>4. w \div (2 * 2 ^ (m - j)) = (w \div 2 ^ (m - j)) \div 2
    BY <1>1, <2>2, DivideTwice
  <2>5. h[j] = w \div 2 ^ (m - j) /\ h[j - 1] = w \div 2 ^ (m - (j - 1)) /\ h[j] \in Nat
    BY <1>2, <2>1
  <2> HIDE DEF h, b
  <2>6. h[j - 1] = h[j] \div 2 /\ b[j] = h[j] % 2
    BY <2>2, <2>3, <2>4, <2>5
  <2> QED
    BY <2>5, <2>6
<1>5. w \div 2 ^ (m - m) = w
  <2>1. m - m = 0
    OBVIOUS
  <2>2. 2 ^ (m - m) = 1
    BY <2>1, PowersOfTwo
  <2> QED
    BY <1>1, <2>2
<1>6. h \in [0..m -> Int]
  <2>1. \A j \in 0..m : w \div 2 ^ (m - j) \in Int
    BY <1>2
  <2> QED
    BY <2>1
<1>7. b \in [1..m -> 0..1]
  <2>1. b = [j \in 1..m |-> b[j]]
    OBVIOUS
  <2> HIDE DEF b
  <2> QED
    BY <1>4, <2>1
<1>8. \A j \in 0..m : w \div 2 ^ (m - j) \in Nat
  BY <1>2
<1>9. IsReading(h, b, m)
  BY <1>3, <1>4, <1>6, Zenon DEF IsReading
<1> QED
  BY <1>5, <1>7, <1>8, <1>9

\* Two words of m bits with the same digits are the same.
LEMMA DigitsDetermine ==
  ASSUME NEW m \in Nat, NEW v \in Words(m), NEW w \in Words(m),
         \A k \in 0..(m - 1) : Digit(v, m, k) = Digit(w, m, k)
  PROVE  v = w
<1> DEFINE b == [j \in 1..m |-> Digit(v, m, j - 1)]
           c == [j \in 1..m |-> Digit(w, m, j - 1)]
<1>1. IsValue(v, b, m) /\ b \in [1..m -> 0..1]
  <2> DEFINE h == [j \in 0..m |-> v \div 2 ^ (m - j)]
  <2>1. IsReading(h, b, m) /\ b \in [1..m -> 0..1] /\ v = v \div 2 ^ (m - m)
    BY WordReading
  <2>2. h[m] = v \div 2 ^ (m - m)
    OBVIOUS
  <2> HIDE DEF h, b
  <2> QED
    BY <2>1, <2>2 DEF IsValue
<1>2. IsValue(w, c, m) /\ c \in [1..m -> 0..1]
  <2> DEFINE h == [j \in 0..m |-> w \div 2 ^ (m - j)]
  <2>1. IsReading(h, c, m) /\ c \in [1..m -> 0..1] /\ w = w \div 2 ^ (m - m)
    BY WordReading
  <2>2. h[m] = w \div 2 ^ (m - m)
    OBVIOUS
  <2> HIDE DEF h, c
  <2> QED
    BY <2>1, <2>2 DEF IsValue
<1>3. \A j \in 1..m : b[j] = c[j]
  <2>1. \A j \in 1..m : j - 1 \in 0..(m - 1)
    OBVIOUS
  <2> QED
    BY <2>1
<1> HIDE DEF b, c
<1> QED
  BY <1>1, <1>2, <1>3, ValueDetermines

\* A word that agrees with itself s places further on is not aperiodic: its
\* first digits make w \div 2^s, its last ones w % 2^(m - s).
LEMMA OverlapIsPeriod ==
  ASSUME NEW m \in Nat, NEW w \in Words(m), NEW s \in 1..(m - 1),
         \A k \in 0..(m - 1 - s) : Digit(w, m, k + s) = Digit(w, m, k)
  PROVE  w \div 2 ^ s = w % 2 ^ (m - s)
<1> DEFINE q == m - s
           d == [j \in 1..m |-> Digit(w, m, j - 1)]
           h == [j \in 0..m |-> w \div 2 ^ (m - j)]
           first == [j \in 1..q |-> d[j]]
           last == [j \in 1..q |-> d[s + j]]
           g == [j \in 0..q |-> h[j]]
           f == [j \in 0..q |-> h[s + j] - 2 ^ j * h[s]]
<1>1. q \in Nat /\ q <= m /\ s \in Nat /\ m - q = s /\ s + q = m /\ m \in Nat
  OBVIOUS
<1>2. /\ IsReading(h, d, m) /\ d \in [1..m -> 0..1]
      /\ \A j \in 0..m : w \div 2 ^ (m - j) \in Nat
      /\ w \div 2 ^ (m - m) = w
  BY WordReading
<1>3. h[m] = w /\ h[s] = w \div 2 ^ q /\ h[q] = w \div 2 ^ s
  <2>1. m \in 0..m /\ s \in 0..m /\ q \in 0..m
    BY <1>1
  <2> QED
    BY <1>1, <1>2, <2>1
<1>4. \A j \in 1..q : d[j] = d[s + j]
  <2> TAKE j \in 1..q
  <2>1. /\ j - 1 \in 0..(m - 1 - s) /\ (j - 1) + s = (s + j) - 1
        /\ j \in 1..m /\ s + j \in 1..m
    BY <1>1
  <2>2. Digit(w, m, (j - 1) + s) = Digit(w, m, j - 1)
    BY <2>1
  <2> QED
    BY <2>1, <2>2
<1> HIDE DEF d, h, q
<1>5. /\ \A j \in 0..m : h[j] \in Int
      /\ h[0] = 0
      /\ \A j \in 1..m : h[j] = 2 * h[j - 1] + d[j]
  BY <1>2 DEF IsReading
<1>6. first \in [1..q -> 0..1] /\ last \in [1..q -> 0..1]
  <2>1. \A j \in 1..q : j \in 1..m /\ s + j \in 1..m
    BY <1>1
  <2> QED
    BY <1>2, <2>1
<1>7. IsReading(g, first, q)
  <2>1. \A j \in 0..q : j \in 0..m
    BY <1>1
  <2>2. g \in [0..q -> Int] /\ g[0] = 0
    BY <1>1, <1>5, <2>1
  <2>3. ASSUME NEW j \in 1..q PROVE g[j] = 2 * g[j - 1] + first[j]
    <3>1. j \in 1..m /\ j \in 0..q /\ j - 1 \in 0..q
      BY <1>1
    <3> QED
      BY <1>5, <3>1
  <2> HIDE DEF g, first
  <2> QED
    BY <2>2, <2>3 DEF IsReading
<1>8. IsReading(f, last, q)
  <2>1. \A j \in 0..q : 2 ^ j \in Int /\ s + j \in 0..m /\ s \in 0..m
    BY <1>1, PowersOfTwo
  <2>2. \A j \in 0..q : h[s + j] \in Int /\ h[s] \in Int
    BY <1>5, <2>1
  <2>3. f \in [0..q -> Int]
    <3>1. \A x, y, z \in Int : x - y * z \in Int
      OBVIOUS
    <3>2. \A j \in 0..q : h[s + j] - 2 ^ j * h[s] \in Int
      BY <2>1, <2>2, <3>1
    <3> QED
      BY <3>2
  <2>4. f[0] = 0
    <3>1. 0 \in 0..q /\ s + 0 = s /\ 2 ^ 0 = 1 /\ h[s] \in Int
      BY <1>1, <2>2, PowersOfTwo
    <3>2. f[0] = h[s] - 1 * h[s]
      BY <3>1
    <3> QED
      BY <3>1, <3>2
  <2>5. ASSUME NEW j \in 1..q PROVE f[j] = 2 * f[j - 1] + last[j]
    <3>1. /\ s + j \in 1..m /\ (s + j) - 1 = s + (j - 1) /\ j \in 0..q /\ j - 1 \in 0..q
          /\ j - 1 \in Nat /\ (j - 1) + 1 = j
      BY <1>1
    <3>2. h[s + j] = 2 * h[s + (j - 1)] + d[s + j]
      BY <1>5, <3>1
    <3>3. 2 ^ j = 2 * 2 ^ (j - 1) /\ 2 ^ (j - 1) \in Int
      BY <3>1, PowersOfTwo
    <3>4. f[j] = h[s + j] - 2 ^ j * h[s] /\ f[j - 1] = h[s + (j - 1)] - 2 ^ (j - 1) * h[s]
          /\ last[j] = d[s + j]
      BY <3>1
    <3>5. h[s] \in Int /\ h[s + (j - 1)] \in Int /\ d[s + j] \in Int
      BY <1>2, <2>2, <3>1
    <3> HIDE DEF f, last
    <3>6. \A p, t, x, y \in Int : (2 * x + y) - (2 * p) * t = 2 * (x - p * t) + y
      OBVIOUS
    <3> QED
      BY <3>2, <3>3, <3>4, <3>5, <3>6
  <2> HIDE DEF f, last
  <2> QED
    BY <2>3, <2>4, <2>5 DEF IsReading
<1>9. IsValue(w \div 2 ^ s, first, q)
  <2>1. g[q] = w \div 2 ^ s
    BY <1>1, <1>3
  <2> HIDE DEF g, first
  <2> QED
    BY <1>7, <2>1 DEF IsValue
<1>10. IsValue(w % 2 ^ q, last, q)
  <2>1. 2 ^ q \in Nat /\ 2 ^ q >= 1 /\ w \in Nat
    BY <1>1, PowersOfTwo DEF Words
  <2>2. f[q] = w - 2 ^ q * (w \div 2 ^ q)
    BY <1>1, <1>3
  <2> HIDE DEF f, last
  <2>3. f[q] = w % 2 ^ q
    BY <2>1, <2>2
  <2> QED
    BY <1>8, <2>3 DEF IsValue
<1>11. \A j \in 1..q : first[j] = last[j]
  BY <1>4
<1> HIDE DEF first, last
<1>12. w \div 2 ^ s = w % 2 ^ q
  BY <1>1, <1>6, <1>9, <1>10, <1>11, ValueDetermines
<1> QED
  BY <1>12 DEF q
-----------------------------------------------------------------------------
\* The constants, one by one.
LEMMA ConstantsFit ==
  /\ n \in Nat /\ n >= 1 /\ NumBytes \in Nat /\ NumBytes >= 1 /\ n = 8 * NumBytes
  /\ \A x \in {BlockSize, RunM, TemplateLen, NumBlocks, L, InitBlocks, ApEnM} :
        x \in Nat /\ x >= 1 /\ x <= n
  /\ OnesM \in Nat /\ OnesM >= TemplateLen /\ OnesM <= n
  /\ MostOnes \in Nat
<1>1. NumBytes \in Nat \ {0} /\ n = 8 * NumBytes
  BY PatternsAssumption DEF n
<1>2. {BlockSize, RunM, TemplateLen, NumBlocks, L, InitBlocks, ApEnM} \subseteq 1..n
  BY PatternsAssumption
<1>3. OnesM \in TemplateLen..n /\ MostOnes \in Nat
  BY PatternsAssumption
<1>4. n \in Nat /\ n >= 1 /\ NumBytes \in Nat /\ NumBytes >= 1
  BY <1>1
<1>5. \A x \in {BlockSize, RunM, TemplateLen, NumBlocks, L, InitBlocks, ApEnM} : x \in 1..n
  BY <1>2, Zenon
<1>6. \A x \in 1..n : x \in Nat /\ x >= 1 /\ x <= n
  BY <1>4
<1>7. \A x \in {BlockSize, RunM, TemplateLen, NumBlocks, L, InitBlocks, ApEnM} :
        x \in Nat /\ x >= 1 /\ x <= n
  BY <1>5, <1>6, Zenon
<1>8. TemplateLen \in Nat
  BY <1>7
<1>9. OnesM \in Nat /\ OnesM >= TemplateLen /\ OnesM <= n
  BY <1>3, <1>4, <1>8
<1> QED
  BY <1>1, <1>3, <1>4, <1>7, <1>9, Zenon

\* The bits, once they are expanded.
BitsTyped == bits \in [0..(n - 1) -> 0..1]

\* Where block k of the universal test lies.
LEMMA BlockInside ==
  ASSUME NEW k \in 1..(n \div L), NEW j \in 1..L
  PROVE  (k - 1) * L + j - 1 \in 0..(n - 1) /\ k * L - j \in 0..(n - 1)
<1>1. L \in Nat /\ L >= 1 /\ n \in Nat
  BY ConstantsFit
<1>2. n \div L \in Nat /\ L * (n \div L) <= n
  BY <1>1
<1>3. k \in Nat /\ k >= 1 /\ k <= n \div L
  BY <1>2
<1> DEFINE N == n \div L
<1>4. N \in Nat /\ L * N <= n
  BY <1>2
<1> HIDE DEF N
<1>5. k <= N
  BY <1>3 DEF N
<1>6. \A x, y \in Nat : x <= y => L * x <= L * y /\ L * x \in Nat
  BY <1>1
<1>7. L * k <= L * N /\ L * k \in Nat /\ L * N \in Nat /\ L * (k - 1) \in Nat
  BY <1>3, <1>4, <1>5, <1>6
<1>8. (k - 1) * L = L * k - L /\ k * L = L * k /\ L * (k - 1) = L * k - L
  BY <1>1, <1>3
<1> QED
  BY <1>1, <1>4, <1>7, <1>8

\* decRep reads the bits of its block.
LEMMA DecRepReads ==
  ASSUME BitsTyped, NEW k \in 1..(n \div L)
  PROVE  /\ IsValue(decRep(k), [j \in 1..L |-> bits[(k - 1) * L + j - 1]], L)
         /\ [j \in 1..L |-> bits[(k - 1) * L + j - 1]] \in [1..L -> 0..1]
<1> DEFINE b == [j \in 1..L |-> bits[(k - 1) * L + j - 1]]
           e(r) == [j \in 0..L |-> IF j = 0 THEN 0
                                   ELSE r[j - 1] * 2 + bits[(k - 1) * L + j - 1]]
           rep == CHOOSE r : r = e(r)
<1>1. L \in Nat
  BY ConstantsFit
<1>2. b \in [1..L -> 0..1]
  <2>1. \A j \in 1..L : bits[(k - 1) * L + j - 1] \in 0..1
    BY BlockInside DEF BitsTyped
  <2> QED
    BY <2>1
<1>3. \A j \in 1..L : b[j] = bits[(k - 1) * L + j - 1]
  OBVIOUS
<1> HIDE DEF b
<1>4. PICK h : /\ h \in [0..L -> Int] /\ h[0] = 0
               /\ \A j \in 1..L : h[j] = 2 * h[j - 1] + b[j]
  BY <1>1, <1>2, ReadingExists, 0 \in Int
<1>5. h = e(h)
  <2>1. \A j \in 0..L : j # 0 => j \in 1..L /\ j - 1 \in 0..L
    BY <1>1
  <2>2. \A j \in 0..L : h[j] = IF j = 0 THEN 0
                               ELSE h[j - 1] * 2 + bits[(k - 1) * L + j - 1]
    <3> TAKE j \in 0..L
    <3>1. CASE j = 0
      BY <1>4, <3>1
    <3>2. CASE j # 0
      <4>1. j \in 1..L /\ j - 1 \in 0..L
        BY <2>1, <3>2
      <4>2. h[j] = 2 * h[j - 1] + b[j] /\ h[j - 1] \in Int /\ b[j] \in Int
        BY <1>2, <1>4, <4>1
      <4> QED
        BY <1>3, <3>2, <4>1, <4>2
    <3> QED
      BY <3>1, <3>2
  <2>3. h = [j \in 0..L |-> h[j]]
    BY <1>4
  <2> QED
    BY <2>2, <2>3
<1>6. rep = e(rep)
  BY <1>5, Zenon
<1>7. decRep(k) = rep[L]
  BY DEF decRep
<1> HIDE DEF rep
<1>8. IsReading(rep, b, L)
  <2>1. /\ \A j \in 0..L : rep[j] = IF j = 0 THEN 0
                               ELSE rep[j - 1] * 2 + bits[(k - 1) * L + j - 1]
        /\ rep = [j \in 0..L |-> rep[j]]
    <3> DEFINE g == e(rep)
    <3>1. \A j \in 0..L : g[j] = IF j = 0 THEN 0
                               ELSE rep[j - 1] * 2 + bits[(k - 1) * L + j - 1]
      OBVIOUS
    <3>2. g = [j \in 0..L |-> g[j]]
      OBVIOUS
    <3>3. rep = g
      BY <1>6
    <3> HIDE DEF g
    <3> QED
      BY <3>1, <3>2, <3>3
  <2>2. rep[0] = 0
    <3>1. 0 \in 0..L
      BY <1>1
    <3>2. rep[0] = IF 0 = 0 THEN 0 ELSE rep[0 - 1] * 2 + bits[(k - 1) * L + 0 - 1]
      BY <2>1, <3>1, Zenon
    <3> QED
      BY <3>2
  <2>3. ASSUME NEW j \in 1..L PROVE rep[j] = rep[j - 1] * 2 + b[j]
    <3>1. j \in 0..L /\ j # 0
      BY <1>1
    <3> QED
      BY <1>3, <2>1, <3>1
  <2>4. \A j \in 0..L : rep[j] \in Int
    <3> DEFINE T == {j \in 0..L : rep[j] \in Int}
    <3>1. 0 \in T
      BY <1>1, <2>2
    <3>2. ASSUME NEW j \in 0..(L - 1), j \in T PROVE j + 1 \in T
      <4>1. j + 1 \in 1..L /\ (j + 1) - 1 = j /\ j + 1 \in 0..L
        BY <1>1
      <4>2. rep[j + 1] = rep[j] * 2 + b[j + 1] /\ b[j + 1] \in Int
        BY <1>2, <2>3, <4>1
      <4> QED
        BY <3>2, <4>1, <4>2
    <3> HIDE DEF T
    <3>3. 0..L \subseteq T
      BY <1>1, <3>1, <3>2, InductionUpTo
    <3> QED
      BY <3>3 DEF T
  <2>5. rep \in [0..L -> Int]
    BY <2>1, <2>4
  <2>6. \A j \in 1..L : rep[j] = 2 * rep[j - 1] + b[j]
    <3> TAKE j \in 1..L
    <3>1. j - 1 \in 0..L
      BY <1>1
    <3>2. rep[j - 1] \in Int /\ b[j] \in Int
      BY <1>2, <2>4, <3>1
    <3> QED
      BY <2>3, <3>2
  <2> QED
    BY <2>2, <2>5, <2>6 DEF IsReading
<1>9. IsValue(decRep(k), b, L)
  BY <1>7, <1>8 DEF IsValue
<1> QED
  BY <1>2, <1>9 DEF b

\* So it is a word of L bits, and the same for equal blocks only.
LEMMA DecRepFacts ==
  ASSUME BitsTyped
  PROVE  /\ \A k \in 1..(n \div L) : decRep(k) \in Words(L)
         /\ \A k, k2 \in 1..(n \div L) : decRep(k) = decRep(k2) <=> SameBlock(k, k2)
<1>1. L \in Nat
  BY ConstantsFit
<1>2. ASSUME NEW k \in 1..(n \div L) PROVE decRep(k) \in Words(L)
  BY <1>1, DecRepReads, ValueBounds
<1>3. ASSUME NEW k \in 1..(n \div L), NEW k2 \in 1..(n \div L)
      PROVE  decRep(k) = decRep(k2) <=> SameBlock(k, k2)
  <2> DEFINE b == [j \in 1..L |-> bits[(k - 1) * L + j - 1]]
             c == [j \in 1..L |-> bits[(k2 - 1) * L + j - 1]]
  <2>1. IsValue(decRep(k), b, L) /\ b \in [1..L -> 0..1]
    BY DecRepReads
  <2>2. IsValue(decRep(k2), c, L) /\ c \in [1..L -> 0..1]
    BY DecRepReads
  <2>3. \A j \in 1..L : b[j] = bits[k * L - (L + 1 - j)] /\ c[j] = bits[k2 * L - (L + 1 - j)]
    <3>1. k \in Int /\ k2 \in Int
      OBVIOUS
    <3>2. \A x \in Int : \A j \in 1..L : (x - 1) * L + j - 1 = x * L - (L + 1 - j)
      BY <1>1
    <3> QED
      BY <3>1, <3>2
  <2> HIDE DEF b, c
  <2>4. decRep(k) = decRep(k2) <=> \A j \in 1..L : b[j] = c[j]
    BY <1>1, <2>1, <2>2, ValueDetermines
  <2>5. ASSUME \A j \in 1..L : b[j] = c[j] PROVE SameBlock(k, k2)
    <3> SUFFICES ASSUME NEW j \in 1..L PROVE bits[k * L - j] = bits[k2 * L - j]
      BY DEF SameBlock
    <3>1. L + 1 - j \in 1..L /\ L + 1 - (L + 1 - j) = j
      BY <1>1
    <3> QED
      BY <2>3, <2>5, <3>1
  <2>6. ASSUME SameBlock(k, k2), NEW j \in 1..L PROVE b[j] = c[j]
    <3>1. L + 1 - j \in 1..L
      BY <1>1
    <3> QED
      BY <2>3, <2>6, <3>1 DEF SameBlock
  <2> QED
    BY <2>4, <2>5, <2>6
<1> QED
  BY <1>2, <1>3
-----------------------------------------------------------------------------
\* Two occurrences of an aperiodic word do not overlap.
LEMMA NoOverlap ==
  ASSUME NEW w \in Words(TemplateLen), Aperiodic(w, TemplateLen), NEW p \in Int,
         NEW s \in 1..(TemplateLen - 1), Occurs(w, p), Occurs(w, p + s)
  PROVE  FALSE
<1>1. TemplateLen \in Nat
  BY ConstantsFit
<1>2. ASSUME NEW k \in 0..(TemplateLen - 1 - s)
      PROVE  Digit(w, TemplateLen, k + s) = Digit(w, TemplateLen, k)
  <2>1. k \in 0..(TemplateLen - 1) /\ k + s \in 0..(TemplateLen - 1) /\ p + (k + s) = (p + s) + k
    BY <1>1
  <2>2. bits[p + (k + s)] = Digit(w, TemplateLen, k + s)
    BY <2>1 DEF Occurs
  <2>3. bits[(p + s) + k] = Digit(w, TemplateLen, k)
    BY <2>1 DEF Occurs
  <2> QED
    BY <2>1, <2>2, <2>3
<1>3. w \div 2 ^ s = w % 2 ^ (TemplateLen - s)
  BY <1>1, <1>2, OverlapIsPeriod
<1> QED
  BY <1>3 DEF Aperiodic

\* The block length of the non-overlapping test.
LEMMA BlockLengthIsNat ==
  /\ M \in Nat /\ TemplateLen \in Nat /\ TemplateLen >= 1
  /\ M - TemplateLen \in Int /\ M - TemplateLen + 1 \in Int
<1>1. /\ n \in Nat /\ NumBlocks \in Nat /\ NumBlocks >= 1
      /\ TemplateLen \in Nat /\ TemplateLen >= 1
  BY ConstantsFit
<1>2. M \in Nat
  BY <1>1 DEF M
<1> QED
  BY <1>1, <1>2

\* The occurrences of w in a block from offset j on.
MatchesFrom(w, base, j) == {k \in j..(M - TemplateLen) : Occurs(w, base + k)}

\* How the number of occurrences goes on: what the recursion of Scan says.
LEMMA MatchesStep ==
  ASSUME NEW w \in Words(TemplateLen), Aperiodic(w, TemplateLen), NEW base \in Int,
         NEW j \in Nat
  PROVE  /\ IsFiniteSet(MatchesFrom(w, base, j))
         /\ Cardinality(MatchesFrom(w, base, j)) \in Nat
         /\ j >= M - TemplateLen + 1 => Cardinality(MatchesFrom(w, base, j)) = 0
         /\ j < M - TemplateLen + 1 /\ Occurs(w, base + j) =>
              Cardinality(MatchesFrom(w, base, j))
                = 1 + Cardinality(MatchesFrom(w, base, AfterMatch(j)))
         /\ ~ Occurs(w, base + j) =>
              Cardinality(MatchesFrom(w, base, j)) = Cardinality(MatchesFrom(w, base, j + 1))
<1> DEFINE b == M - TemplateLen
           S(k) == MatchesFrom(w, base, k)
<1>1. TemplateLen \in Nat /\ TemplateLen >= 1 /\ b \in Int
  BY BlockLengthIsNat
<1> HIDE DEF b
<1>2. \A k : S(k) = {x \in k..b : Occurs(w, base + x)}
  BY Zenon DEF MatchesFrom, b
<1>3. \A k \in Nat : IsFiniteSet(S(k)) /\ Cardinality(S(k)) \in Nat
  <2> TAKE k \in Nat
  <2>1. IsFiniteSet(k..b)
    BY <1>1, FS_Interval
  <2>2. S(k) \subseteq k..b
    BY <1>2
  <2> HIDE DEF S
  <2> QED
    BY <2>1, <2>2, FS_Subset, FS_CardinalityType
<1> HIDE DEF S
<1>4. ASSUME j >= b + 1 PROVE Cardinality(S(j)) = 0
  <2>1. S(j) = {}
    BY <1>1, <1>2, <1>4
  <2> QED
    BY <2>1, FS_EmptySet
<1>5. ASSUME j < b + 1, Occurs(w, base + j)
      PROVE  Cardinality(S(j)) = 1 + Cardinality(S(AfterMatch(j)))
  <2> DEFINE a == j + TemplateLen
  <2>1. AfterMatch(j) = a /\ a \in Nat /\ a > j
    BY <1>1 DEF AfterMatch
  <2>2. ASSUME NEW x \in S(j), x # j PROVE x \in S(a)
    <3>1. x \in j..b /\ Occurs(w, base + x)
      BY <1>2
    <3>2. ~ x < a
      <4> SUFFICES ASSUME x < a PROVE FALSE
        OBVIOUS
      <4>1. x - j \in 1..(TemplateLen - 1) /\ base + x = (base + j) + (x - j)
            /\ base + j \in Int
        BY <1>1, <2>2, <3>1
      <4> QED
        BY <1>5, <3>1, <4>1, NoOverlap
    <3>3. x \in a..b
      BY <1>1, <3>1, <3>2
    <3> QED
      BY <1>2, <3>1, <3>3
  <2>3. S(a) \subseteq S(j) /\ j \in S(j) /\ j \notin S(a)
    <3>1. a..b \subseteq j..b /\ j \in j..b /\ j \notin a..b
      BY <1>1, <1>5, <2>1
    <3> HIDE DEF a
    <3> QED
      BY <1>2, <1>5, <3>1, Zenon
  <2> HIDE DEF a
  <2>4. S(j) = S(a) \cup {j}
    BY <2>2, <2>3
  <2>5. Cardinality(S(j)) = Cardinality(S(a)) + 1
    BY <1>3, <2>1, <2>3, <2>4, FS_AddElement
  <2> QED
    BY <1>3, <2>1, <2>5
<1>6. ASSUME ~ Occurs(w, base + j) PROVE Cardinality(S(j)) = Cardinality(S(j + 1))
  <2>1. ASSUME NEW x PROVE x \in S(j) <=> x \in S(j + 1)
    <3>1. x \in j..b <=> (x = j /\ j <= b) \/ x \in (j + 1)..b
      BY <1>1
    <3>2. x \in (j + 1)..b => x # j
      BY <1>1
    <3> QED
      BY <1>2, <1>6, <3>1, <3>2, Zenon
  <2>2. S(j) = S(j + 1)
    BY <2>1
  <2> QED
    BY <2>2
<1> QED
  BY <1>3, <1>4, <1>5, <1>6 DEF S, b

\* The scan counts every occurrence of the template in its block.
LEMMA ScanCounts ==
  ASSUME NEW w \in Words(TemplateLen), Aperiodic(w, TemplateLen), NEW base \in Int
  PROVE  /\ Scan(w, base) = Cardinality({j \in 0..(M - TemplateLen) : Occurs(w, base + j)})
         /\ Scan(w, base) \in 0..M
<1> DEFINE e(f) == [j \in Nat |->
                      IF j >= M - TemplateLen + 1 THEN 0
                      ELSE IF Occurs(w, base + j) THEN 1 + f[AfterMatch(j)]
                      ELSE f[j + 1]]
           found == CHOOSE f : f = e(f)
           g == [j \in Nat |-> Cardinality(MatchesFrom(w, base, j))]
           b == M - TemplateLen + 1
<1>1. TemplateLen \in Nat /\ TemplateLen >= 1 /\ b \in Int /\ M \in Nat
  BY BlockLengthIsNat
<1>2. \A j \in Nat : AfterMatch(j) \in Nat /\ AfterMatch(j) > j /\ j + 1 \in Nat
  BY <1>1 DEF AfterMatch
<1>3. \A j \in Nat : g[j] = Cardinality(MatchesFrom(w, base, j))
  OBVIOUS
<1>4. g = [j \in Nat |-> g[j]]
  OBVIOUS
<1> HIDE DEF g
<1>5. \A j \in Nat : g[j] = IF j >= M - TemplateLen + 1 THEN 0
                            ELSE IF Occurs(w, base + j) THEN 1 + g[AfterMatch(j)]
                            ELSE g[j + 1]
  <2> TAKE j \in Nat
  <2>1. CASE j >= b
    BY <1>3, <2>1, MatchesStep
  <2>2. CASE ~ j >= b /\ Occurs(w, base + j)
    <3>1. j < M - TemplateLen + 1
      BY <1>1, <2>2
    <3>2. g[j] = 1 + g[AfterMatch(j)]
      BY <1>2, <1>3, <2>2, <3>1, MatchesStep
    <3> QED
      BY <2>2, <3>2
  <2>3. CASE ~ j >= b /\ ~ Occurs(w, base + j)
    <3>1. g[j] = g[j + 1]
      BY <1>2, <1>3, <2>3, MatchesStep
    <3> QED
      BY <2>3, <3>1
  <2> QED
    BY <2>1, <2>2, <2>3
<1>6. g = e(g)
  BY <1>4, <1>5
<1>7. found = e(found)
  BY <1>6, Zenon
<1>8. Scan(w, base) = found[0]
  BY DEF Scan
<1> HIDE DEF found
<1>9. \A j \in Nat : found[j] = IF j >= M - TemplateLen + 1 THEN 0
                            ELSE IF Occurs(w, base + j) THEN 1 + found[AfterMatch(j)]
                            ELSE found[j + 1]
  <2> DEFINE h == e(found)
  <2>1. \A j \in Nat : h[j] = IF j >= M - TemplateLen + 1 THEN 0
                            ELSE IF Occurs(w, base + j) THEN 1 + found[AfterMatch(j)]
                            ELSE found[j + 1]
    OBVIOUS
  <2>2. found = h
    BY <1>7
  <2> HIDE DEF h
  <2> QED
    BY <2>1, <2>2
<1> HIDE DEF b
<1> DEFINE T == {k \in Nat : \A j \in Nat : j >= b - k => found[j] = g[j]}
<1>10. 0 \in T
  <2>1. ASSUME NEW j \in Nat, j >= b - 0 PROVE found[j] = g[j]
    <3>1. j >= M - TemplateLen + 1
      BY <1>1, <2>1 DEF b
    <3> QED
      BY <1>5, <1>9, <3>1
  <2> QED
    BY <2>1
<1>11. ASSUME NEW k \in Nat, k \in T PROVE k + 1 \in T
  <2>1. ASSUME NEW j \in Nat, j >= b - (k + 1) PROVE found[j] = g[j]
    <3>1. AfterMatch(j) >= b - k /\ j + 1 >= b - k
      BY <1>1, <1>2, <2>1
    <3>2. found[AfterMatch(j)] = g[AfterMatch(j)] /\ found[j + 1] = g[j + 1]
      BY <1>2, <1>11, <3>1
    <3> QED
      BY <1>5, <1>9, <3>2, Zenon
  <2> QED
    BY <2>1
<1> HIDE DEF T
<1>12. Nat \subseteq T
  BY <1>10, <1>11, InductionOnNat
<1>13. found[0] = g[0]
  <2>1. PICK k \in Nat : 0 >= b - k
    <3>1. CASE b >= 0
      BY <1>1, <3>1
    <3>2. CASE ~ b >= 0
      BY <1>1, <3>2, 0 \in Nat
    <3> QED
      BY <3>1, <3>2
  <2>2. k \in T
    BY <1>12
  <2> QED
    BY <2>1, <2>2 DEF T
<1>14. Scan(w, base) = Cardinality(MatchesFrom(w, base, 0))
  BY <1>3, <1>8, <1>13
<1>15. Cardinality(MatchesFrom(w, base, 0)) \in 0..M
  <2>2. MatchesFrom(w, base, 0) \subseteq 0..(M - 1)
    BY <1>1 DEF MatchesFrom
  <2>3. IsFiniteSet(0..(M - 1)) /\ Cardinality(0..(M - 1)) = M
    <3>1. 0 \in Int /\ M - 1 \in Int /\ (0 > M - 1 => M = 0) /\ (M - 1) - 0 + 1 = M
      BY <1>1
    <3> QED
      BY <3>1, FS_Interval
  <2>4. Cardinality(MatchesFrom(w, base, 0)) \in Nat /\ Cardinality(MatchesFrom(w, base, 0)) <= M
    BY <2>2, <2>3, FS_Subset, FS_CardinalityType
  <2> QED
    BY <1>1, <2>4
<1> QED
  BY <1>14, <1>15 DEF MatchesFrom
-----------------------------------------------------------------------------
\* The steps. A turn of a test's loop changes the test's own counts only; all
\* other steps change none.

Fields == {"ones", "sums", "runs", "nu", "hits", "nuOnes", "T", "distances",
           "apen", "serial"}

Shape == DOMAIN counts = Fields /\ counts = [f \in Fields |-> counts[f]]

Only(fs) == Shape' /\ \A f \in Fields \ fs : counts'[f] = counts[f]

Loop(test, fs) == /\ pc = test /\ pc' = test /\ i' = i + 1
                  /\ bits' = bits /\ bitstream' = bitstream /\ Only(fs)

\* One test follows the other.
Follows(test, next) == pc = test /\ pc' = next /\ i' = 0 /\ bits' = bits

Quiet == /\ counts' = counts /\ bitstream' = bitstream
         /\ \/ pc = "start" /\ pc' = "frequency" /\ i' = i
               /\ bits' = [idx \in 0..(n - 1) |-> bitAt(idx)]
            \/ Follows("frequency", "block_frequency")
            \/ Follows("block_frequency", "runs")
            \/ Follows("runs", "longest_run")
            \/ Follows("longest_run", "non_overlapping_template")
            \/ Follows("non_overlapping_template", "overlapping_template")
            \/ Follows("overlapping_template", "universal")
            \/ Follows("universal", "approximate_entropy")
            \/ Follows("approximate_entropy", "serial")
            \/ Follows("serial", "done")
            \/ pc' = pc /\ i' = i /\ bits' = bits

\* How often each loop turns.
LEMMA TurnsAre ==
  /\ Turns("frequency") = NumBytes
  /\ Turns("block_frequency") = n \div BlockSize
  /\ Turns("runs") = IF PiTooFar THEN 0 ELSE n
  /\ Turns("longest_run") = n \div RunM
  /\ Turns("non_overlapping_template") = Len(Templates) * NumBlocks
  /\ Turns("overlapping_template") = n \div OnesM
  /\ Turns("universal") = n \div L
  /\ Turns("approximate_entropy") = 2
  /\ Turns("serial") = 3
<1>1. Turns("frequency") = NumBytes
  BY DEF Turns
<1>2. Turns("block_frequency") = n \div BlockSize
  BY DEF Turns
<1>3. Turns("runs") = IF PiTooFar THEN 0 ELSE n
  BY DEF Turns
<1>4. Turns("longest_run") = n \div RunM
  BY DEF Turns
<1>5. Turns("non_overlapping_template") = Len(Templates) * NumBlocks
  BY DEF Turns
<1>6. Turns("overlapping_template") = n \div OnesM
  BY DEF Turns
<1>7. Turns("universal") = n \div L
  BY DEF Turns
<1>8. Turns("approximate_entropy") = 2
  BY DEF Turns
<1>9. Turns("serial") = 3
  BY DEF Turns
<1> QED
  BY <1>1, <1>2, <1>3, <1>4, <1>5, <1>6, <1>7, <1>8, <1>9

\* The order of the tests.
LEMMA NextTestFollows ==
  ASSUME NextTest PROVE Quiet
<1>1. PICK k \in 1..(Len(Order) - 1) :
         /\ pc = Order[k] /\ pc' = Order[k + 1] /\ i' = 0
         /\ UNCHANGED <<bitstream, bits, counts>>
  BY DEF NextTest
<1>2. Len(Order) = 10
  BY DEF Order
<1>3. k \in {1, 2, 3, 4, 5, 6, 7, 8, 9}
  BY <1>2
<1> QED
  BY <1>1, <1>3 DEF Order, Quiet, Follows

\* Each action, as what it does to the counts.
LEMMA TurnEffects ==
  ASSUME Shape
  PROVE  /\ FrequencyTest =>
              /\ Loop("frequency", {"ones"}) /\ i < NumBytes
              /\ counts'.ones = counts.ones + OnesCount8(bitstream[i + 1])
         /\ BlockFrequencyTest =>
              /\ Loop("block_frequency", {"sums"}) /\ i < n \div BlockSize
              /\ counts'.sums = Append(counts.sums, OnesIn(i * BlockSize, BlockSize))
         /\ RunsTest =>
              /\ Loop("runs", {"runs"}) /\ i < (IF PiTooFar THEN 0 ELSE n)
              /\ counts'.runs = IF i = 0 \/ bits[i] # bits[i - 1]
                                THEN counts.runs + 1 ELSE counts.runs
         /\ LongestRunOfOnesTest =>
              /\ Loop("longest_run", {"nu"}) /\ i < n \div RunM
              /\ counts'.nu = [r \in DOMAIN V |->
                    counts.nu[r] + (IF r \in Class(Longest(i * RunM)) THEN 1 ELSE 0)]
         /\ NonOverlappingTemplateTest =>
              /\ Loop("non_overlapping_template", {"hits"})
              /\ i < Len(Templates) * NumBlocks
              /\ counts'.hits = Append(counts.hits,
                    Scan(Templates[i \div NumBlocks + 1], (i % NumBlocks) * M))
         /\ OverlappingTemplateTest =>
              /\ Loop("overlapping_template", {"nuOnes"}) /\ i < n \div OnesM
              /\ counts'.nuOnes = [counts.nuOnes EXCEPT
                    ![Min({OnesMatches(i * OnesM), MostOnes})] = @ + 1]
         /\ UniversalStatisticalTest =>
              /\ Loop("universal", {"T", "distances"}) /\ i < n \div L
              /\ counts'.T = Remembered(counts.T, decRep(i + 1), i + 1)
              /\ counts'.distances =
                    IF i + 1 > InitBlocks
                    THEN Append(counts.distances, DistanceTo(counts.T[decRep(i + 1)], i + 1))
                    ELSE counts.distances
         /\ ApproximateEntropyTest =>
              /\ Loop("approximate_entropy", {"apen"}) /\ i < 2
              /\ counts'.apen = Append(counts.apen, [w |-> ApEnM + i, P |-> Counted(ApEnM + i)])
         /\ SerialTest =>
              /\ Loop("serial", {"serial"}) /\ i < 3
              /\ counts'.serial = Append(counts.serial,
                    [w |-> SerialM - i, P |-> Counted(SerialM - i),
                     psi |-> psi2(SerialM - i, Counted(SerialM - i))])
<1> USE DEF Turn, Shape, Fields, Loop, Only
<1>1. FrequencyTest =>
         /\ Loop("frequency", {"ones"}) /\ i < NumBytes
         /\ counts'.ones = counts.ones + OnesCount8(bitstream[i + 1])
  BY TurnsAre DEF FrequencyTest
<1>2. BlockFrequencyTest =>
         /\ Loop("block_frequency", {"sums"}) /\ i < n \div BlockSize
         /\ counts'.sums = Append(counts.sums, OnesIn(i * BlockSize, BlockSize))
  BY TurnsAre DEF BlockFrequencyTest
<1>3. RunsTest =>
         /\ Loop("runs", {"runs"}) /\ i < (IF PiTooFar THEN 0 ELSE n)
         /\ counts'.runs = IF i = 0 \/ bits[i] # bits[i - 1]
                           THEN counts.runs + 1 ELSE counts.runs
  BY TurnsAre DEF RunsTest
<1>4. LongestRunOfOnesTest =>
         /\ Loop("longest_run", {"nu"}) /\ i < n \div RunM
         /\ counts'.nu = [r \in DOMAIN V |->
               counts.nu[r] + (IF r \in Class(Longest(i * RunM)) THEN 1 ELSE 0)]
  BY TurnsAre DEF LongestRunOfOnesTest
<1>5. NonOverlappingTemplateTest =>
         /\ Loop("non_overlapping_template", {"hits"})
         /\ i < Len(Templates) * NumBlocks
         /\ counts'.hits = Append(counts.hits,
               Scan(Templates[i \div NumBlocks + 1], (i % NumBlocks) * M))
  BY TurnsAre DEF NonOverlappingTemplateTest
<1>6. OverlappingTemplateTest =>
         /\ Loop("overlapping_template", {"nuOnes"}) /\ i < n \div OnesM
         /\ counts'.nuOnes = [counts.nuOnes EXCEPT
               ![Min({OnesMatches(i * OnesM), MostOnes})] = @ + 1]
  BY TurnsAre DEF OverlappingTemplateTest
<1>7. UniversalStatisticalTest =>
         /\ Loop("universal", {"T", "distances"}) /\ i < n \div L
         /\ counts'.T = Remembered(counts.T, decRep(i + 1), i + 1)
         /\ counts'.distances =
               IF i + 1 > InitBlocks
               THEN Append(counts.distances, DistanceTo(counts.T[decRep(i + 1)], i + 1))
               ELSE counts.distances
  BY TurnsAre DEF UniversalStatisticalTest
<1>8. ApproximateEntropyTest =>
         /\ Loop("approximate_entropy", {"apen"}) /\ i < 2
         /\ counts'.apen = Append(counts.apen, [w |-> ApEnM + i, P |-> Counted(ApEnM + i)])
  BY TurnsAre DEF ApproximateEntropyTest
<1>9. SerialTest =>
         /\ Loop("serial", {"serial"}) /\ i < 3
         /\ counts'.serial = Append(counts.serial,
               [w |-> SerialM - i, P |-> Counted(SerialM - i),
                psi |-> psi2(SerialM - i, Counted(SerialM - i))])
  BY TurnsAre DEF SerialTest
<1> QED
  BY <1>1, <1>2, <1>3, <1>4, <1>5, <1>6, <1>7, <1>8, <1>9, Zenon

\* Every step is a turn of one loop or changes no count.
LEMMA Steps ==
  ASSUME Shape, [Next]_vars
  PROVE  \/ Quiet
         \/ FrequencyTest /\ Loop("frequency", {"ones"})
         \/ BlockFrequencyTest /\ Loop("block_frequency", {"sums"})
         \/ RunsTest /\ Loop("runs", {"runs"})
         \/ LongestRunOfOnesTest /\ Loop("longest_run", {"nu"})
         \/ NonOverlappingTemplateTest /\ Loop("non_overlapping_template", {"hits"})
         \/ OverlappingTemplateTest /\ Loop("overlapping_template", {"nuOnes"})
         \/ UniversalStatisticalTest /\ Loop("universal", {"T", "distances"})
         \/ ApproximateEntropyTest /\ Loop("approximate_entropy", {"apen"})
         \/ SerialTest /\ Loop("serial", {"serial"})
<1>1. CASE expandBits
  BY <1>1, Zenon DEF expandBits, Quiet
<1>2. CASE NextTest
  BY <1>2, NextTestFollows
<1>3. CASE Done \/ UNCHANGED vars
  BY <1>3, Zenon DEF Done, vars, Quiet
<1> QED
  BY <1>1, <1>2, <1>3, TurnEffects, Zenon DEF Next
-----------------------------------------------------------------------------
\* The invariants: where the program is, and for each test what it has counted
\* when its loop is at turn i.

ControlInv ==
    /\ pc \in {"start", "frequency", "block_frequency", "runs", "longest_run",
               "non_overlapping_template", "overlapping_template", "universal",
               "approximate_entropy", "serial", "done"}
    /\ i \in Nat
    /\ Shape
    /\ pc = "start" => i = 0 /\ counts = NothingCounted
    /\ pc # "start" => BitsTyped
    /\ bitstream \in [1..NumBytes -> 0..255]

OnesInv == /\ counts.ones \in 0..n
           /\ pc = "start" => counts.ones = 0
           /\ pc = "frequency" => counts.ones <= 8 * i

SumsInv == counts.sums \in Seq(0..BlockSize)

RunsInv == /\ counts.runs \in 0..n
           /\ pc \in {"start", "frequency", "block_frequency"} => counts.runs = 0
           /\ pc = "runs" => counts.runs <= i

NuInv == /\ counts.nu \in [DOMAIN V -> 0..n]
         /\ pc \in {"start", "frequency", "block_frequency", "runs"} =>
              \A r \in DOMAIN V : counts.nu[r] = 0
         /\ pc = "longest_run" => \A r \in DOMAIN V : counts.nu[r] <= i

NuOnesInv == /\ counts.nuOnes \in [0..MostOnes -> 0..n]
             /\ pc \in {"start", "frequency", "block_frequency", "runs", "longest_run",
                        "non_overlapping_template"} =>
                  \A r \in 0..MostOnes : counts.nuOnes[r] = 0
             /\ pc = "overlapping_template" =>
                  \A r \in 0..MostOnes : counts.nuOnes[r] <= i

\* A subset of an interval has at most as many elements.
LEMMA CountInside ==
  ASSUME NEW a \in Int, NEW k \in Nat, NEW S \in SUBSET (a..(a + k - 1))
  PROVE  IsFiniteSet(S) /\ Cardinality(S) \in 0..k
<1>1. a + k - 1 \in Int
  OBVIOUS
<1>2. /\ IsFiniteSet(a..(a + k - 1))
      /\ Cardinality(a..(a + k - 1))
            = IF a > a + k - 1 THEN 0 ELSE (a + k - 1) - a + 1
  BY <1>1, FS_Interval
<1>3. (IF a > a + k - 1 THEN 0 ELSE (a + k - 1) - a + 1) = k
  OBVIOUS
<1> DEFINE U == a..(a + k - 1)
<1>5. IsFiniteSet(U) /\ Cardinality(U) = k /\ S \subseteq U
  BY <1>2, <1>3
<1> HIDE DEF U
<1>4. IsFiniteSet(S) /\ Cardinality(S) <= k /\ Cardinality(S) \in Nat
  BY <1>5, FS_Subset, FS_CardinalityType
<1> QED
  BY <1>4

\* A bit is 0 or 1.
LEMMA BitAtType ==
  ASSUME bitstream \in [1..NumBytes -> 0..255], NEW idx \in 0..(n - 1)
  PROVE  bitAt(idx) \in 0..1
<1>1. NumBytes \in Nat /\ n = 8 * NumBytes
  BY ConstantsFit
<1>2. idx \div 8 + 1 \in 1..NumBytes /\ idx % 8 \in 0..7
  BY <1>1
<1>3. bitstream[idx \div 8 + 1] \in Nat
  <2>1. bitstream[idx \div 8 + 1] \in 0..255
    BY <1>2, Zenon
  <2>2. \A y \in 0..255 : y \in Nat
    OBVIOUS
  <2> QED
    BY <2>1, <2>2, Zenon
<1>4. 8 - 1 - (idx % 8) \in Nat
  BY <1>2
<1>5. 2 ^ (8 - 1 - (idx % 8)) \in Nat /\ 2 ^ (8 - 1 - (idx % 8)) >= 1
  BY <1>4, PowersOfTwo
<1> DEFINE x == bitstream[idx \div 8 + 1]
           d == 2 ^ (8 - 1 - (idx % 8))
<1>6. bitAt(idx) = (x \div d) % 2
  BY Zenon DEF bitAt, Digit
<1> HIDE DEF x, d
<1>7. (x \div d) % 2 \in 0..1
  BY <1>3, <1>5 DEF x, d
<1> QED
  BY <1>6, <1>7

\* The program counter, the turns and the bits.
LEMMA ControlKept ==
  ASSUME ControlInv, [Next]_vars PROVE ControlInv'
<1>1. Shape
  BY DEF ControlInv
<1>2. CASE Quiet
  <2>1. CASE pc = "start" /\ pc' = "frequency"
    <3>1. bits' = [idx \in 0..(n - 1) |-> bitAt(idx)] /\ i' = i /\ counts' = counts
          /\ bitstream' = bitstream
      BY <1>2, <2>1 DEF Quiet, Follows
    <3>2. BitsTyped'
      <4>1. \A idx \in 0..(n - 1) : bitAt(idx) \in 0..1
        BY BitAtType DEF ControlInv
      <4>2. bits' \in [0..(n - 1) -> 0..1]
        BY <3>1, <4>1
      <4> QED
        BY <4>2 DEF BitsTyped
    <3> QED
      BY <2>1, <3>1, <3>2 DEF ControlInv, Shape
  <2>2. CASE ~ (pc = "start" /\ pc' = "frequency")
    BY <1>2, <2>2 DEF Quiet, Follows, ControlInv, Shape, BitsTyped
  <2> QED
    BY <2>1, <2>2
<1>3. ASSUME NEW test \in {"frequency", "block_frequency", "runs", "longest_run",
               "non_overlapping_template", "overlapping_template", "universal",
               "approximate_entropy", "serial"},
             NEW fs, Loop(test, fs)
      PROVE  ControlInv'
  BY <1>3 DEF Loop, Only, ControlInv, BitsTyped
<1> QED
  BY <1>1, <1>2, <1>3, Steps

\* The bits are counted byte by byte: at most eight in each.
LEMMA OnesKept ==
  ASSUME ControlInv, OnesInv, [Next]_vars PROVE OnesInv'
<1>1. Shape /\ i \in Nat
  BY DEF ControlInv
<1>2. CASE FrequencyTest
  <2>1. /\ Loop("frequency", {"ones"}) /\ i < NumBytes
        /\ counts'.ones = counts.ones + OnesCount8(bitstream[i + 1])
    BY <1>1, <1>2, TurnEffects
  <2>2. OnesCount8(bitstream[i + 1]) \in 0..8
    <3>1. {k \in 0..7 : Digit(bitstream[i + 1], 8, k) = 1} \in SUBSET (0..(0 + 8 - 1))
      OBVIOUS
    <3> QED
      BY <3>1, CountInside, 0 \in Int, 8 \in Nat DEF OnesCount8
  <2>3. NumBytes \in Nat /\ n = 8 * NumBytes
    BY ConstantsFit
  <2>4. pc = "frequency" /\ pc' = "frequency" /\ i' = i + 1
    BY <2>1 DEF Loop
  <2>5. counts.ones \in Nat /\ counts.ones <= 8 * i
    BY <2>3, <2>4 DEF OnesInv
  <2>6. counts'.ones \in Nat /\ counts'.ones <= 8 * i + 8
    BY <1>1, <2>1, <2>2, <2>5
  <2>7. counts'.ones \in 0..n /\ counts'.ones <= 8 * i'
    BY <1>1, <2>1, <2>3, <2>4, <2>6
  <2> QED
    BY <2>4, <2>7 DEF OnesInv
<1>3. CASE ~ FrequencyTest
  <2>1. /\ counts'.ones = counts.ones
        /\ pc' = "start" => pc = "start"
        /\ pc' = "frequency" => pc \in {"start", "frequency"} /\ i' = i
    BY <1>1, <1>3, Steps DEF Quiet, Follows, Loop, Only, Fields
  <2>2. pc' = "frequency" => counts'.ones <= 8 * i'
    <3>1. CASE pc = "start"
      BY <1>1, <2>1, <3>1 DEF OnesInv
    <3>2. CASE pc = "frequency"
      BY <2>1, <3>2 DEF OnesInv
    <3> QED
      BY <2>1, <3>1, <3>2
  <2> QED
    BY <2>1, <2>2 DEF OnesInv
<1> QED
  BY <1>2, <1>3

\* A block's sum is at most its length.
LEMMA SumsKept ==
  ASSUME ControlInv, SumsInv, [Next]_vars PROVE SumsInv'
<1>1. Shape /\ i \in Nat
  BY DEF ControlInv
<1>2. CASE BlockFrequencyTest
  <2>1. counts'.sums = Append(counts.sums, OnesIn(i * BlockSize, BlockSize))
    BY <1>1, <1>2, TurnEffects
  <2>2. BlockSize \in Nat /\ i * BlockSize \in Int
    BY <1>1, ConstantsFit
  <2>3. OnesIn(i * BlockSize, BlockSize) \in 0..BlockSize
    <3> DEFINE a == i * BlockSize
    <3>1. {j \in a..(a + BlockSize - 1) : bits[j] = 1} \in SUBSET (a..(a + BlockSize - 1))
      OBVIOUS
    <3> HIDE DEF a
    <3>2. OnesIn(a, BlockSize) \in 0..BlockSize
      BY <2>2, <3>1, CountInside DEF OnesIn, a
    <3> QED
      BY <3>2 DEF a
  <2> QED
    BY <2>1, <2>3 DEF SumsInv
<1>3. CASE ~ BlockFrequencyTest
  <2>1. counts'.sums = counts.sums
    BY <1>1, <1>3, Steps DEF Quiet, Loop, Only, Fields
  <2> QED
    BY <2>1 DEF SumsInv
<1> QED
  BY <1>2, <1>3

\* There are at most as many runs as turns.
LEMMA RunsKept ==
  ASSUME ControlInv, RunsInv, [Next]_vars PROVE RunsInv'
<1>1. Shape /\ i \in Nat
  BY DEF ControlInv
<1>2. CASE RunsTest
  <2>1. /\ Loop("runs", {"runs"}) /\ i < (IF PiTooFar THEN 0 ELSE n)
        /\ counts'.runs = IF i = 0 \/ bits[i] # bits[i - 1]
                          THEN counts.runs + 1 ELSE counts.runs
    BY <1>1, <1>2, TurnEffects
  <2>2. i < n /\ n \in Nat
    BY <1>1, <2>1, ConstantsFit
  <2>3. counts'.runs = counts.runs + 1 \/ counts'.runs = counts.runs
    BY <2>1
  <2> QED
    BY <1>1, <2>1, <2>2, <2>3 DEF RunsInv, Loop
<1>3. CASE ~ RunsTest
  <2>1. /\ counts'.runs = counts.runs
        /\ pc' \in {"start", "frequency", "block_frequency"} =>
              pc \in {"start", "frequency", "block_frequency"}
        /\ pc' = "runs" => pc = "block_frequency" \/ (pc = "runs" /\ i' = i)
        /\ i' = i + 1 \/ i' = i \/ i' = 0
    BY <1>1, <1>3, Steps DEF Quiet, Follows, Loop, Only, Fields
  <2> QED
    BY <1>1, <2>1 DEF RunsInv
<1> QED
  BY <1>2, <1>3

\* A quotient is at most its dividend.
LEMMA QuotientBound ==
  ASSUME NEW x \in Nat, NEW d \in Nat, d >= 1
  PROVE  x \div d \in Nat /\ x \div d <= x /\ d * (x \div d) <= x
         /\ x < d * (x \div d) + d
<1> DEFINE q == x \div d
<1>1. q \in Nat /\ d * q <= x /\ x < d * q + d
  OBVIOUS
<1> HIDE DEF q
<1>2. d * q >= 1 * q
  BY <1>1
<1> QED
  BY <1>1, <1>2 DEF q

\* No class holds more blocks than were scanned.
LEMMA NuKept ==
  ASSUME ControlInv, NuInv, [Next]_vars PROVE NuInv'
<1>1. Shape /\ i \in Nat
  BY DEF ControlInv
<1>2. CASE LongestRunOfOnesTest
  <2>1. /\ Loop("longest_run", {"nu"}) /\ i < n \div RunM
        /\ counts'.nu = [r \in DOMAIN V |->
              counts.nu[r] + (IF r \in Class(Longest(i * RunM)) THEN 1 ELSE 0)]
    BY <1>1, <1>2, TurnEffects
  <2>2. i < n /\ n \in Nat
    <3>1. n \in Nat /\ RunM \in Nat /\ RunM >= 1
      BY ConstantsFit
    <3> QED
      BY <1>1, <2>1, <3>1, QuotientBound
  <2>3. \A r \in DOMAIN V : /\ counts.nu[r] \in 0..n /\ counts.nu[r] <= i
                            /\ counts'.nu[r] \in {counts.nu[r], counts.nu[r] + 1}
    BY <2>1 DEF NuInv, Loop
  <2>4. \A r \in DOMAIN V : counts'.nu[r] \in 0..n /\ counts'.nu[r] <= i + 1
    BY <1>1, <2>2, <2>3
  <2>5. counts'.nu = [r \in DOMAIN V |-> counts'.nu[r]]
    BY <2>1
  <2>6. counts'.nu \in [DOMAIN V -> 0..n]
    BY <2>4, <2>5
  <2>7. pc' = "longest_run" /\ i' = i + 1
    BY <2>1 DEF Loop
  <2> QED
    BY <2>4, <2>6, <2>7 DEF NuInv
<1>3. CASE ~ LongestRunOfOnesTest
  <2>1. /\ counts'.nu = counts.nu
        /\ pc' \in {"start", "frequency", "block_frequency", "runs"} =>
              pc \in {"start", "frequency", "block_frequency", "runs"}
        /\ pc' = "longest_run" => (pc = "runs" /\ i' = 0) \/ (pc = "longest_run" /\ i' = i)
    BY <1>1, <1>3, Steps DEF Quiet, Follows, Loop, Only, Fields
  <2>2. pc' = "longest_run" => \A r \in DOMAIN V : counts'.nu[r] <= i'
    <3>1. CASE pc = "runs" /\ i' = 0
      BY <2>1, <3>1, 0 <= 0 DEF NuInv
    <3>2. CASE pc = "longest_run" /\ i' = i
      BY <2>1, <3>2 DEF NuInv
    <3> QED
      BY <2>1, <3>1, <3>2
  <2> QED
    BY <2>1, <2>2 DEF NuInv
<1> QED
  BY <1>2, <1>3
\* The smaller of two numbers.
LEMMA MinOfTwo ==
  ASSUME NEW a \in Int, NEW b \in Int
  PROVE  Min({a, b}) = IF a <= b THEN a ELSE b
<1>1. \A x \in {a, b} : (\A y \in {a, b} : x =< y) <=> x = IF a <= b THEN a ELSE b
  OBVIOUS
<1>2. (IF a <= b THEN a ELSE b) \in {a, b}
  OBVIOUS
<1> DEFINE c == IF a <= b THEN a ELSE b
<1> HIDE DEF c
<1>3. \A x \in {a, b} : (\A y \in {a, b} : x =< y) <=> x = c
  BY <1>1 DEF c
<1>4. c \in {a, b}
  BY <1>2 DEF c
<1>5. (CHOOSE x \in {a, b} : \A y \in {a, b} : x =< y) = c
  BY <1>3, <1>4
<1> QED
  BY <1>5 DEF Min, c

\* The same for the classes of the overlapping test.
LEMMA NuOnesKept ==
  ASSUME ControlInv, NuOnesInv, [Next]_vars PROVE NuOnesInv'
<1>1. Shape /\ i \in Nat
  BY DEF ControlInv
<1>2. CASE OverlappingTemplateTest
  <2> DEFINE c == Min({OnesMatches(i * OnesM), MostOnes})
  <2>1. /\ Loop("overlapping_template", {"nuOnes"}) /\ i < n \div OnesM
        /\ counts'.nuOnes = [counts.nuOnes EXCEPT ![c] = @ + 1]
    BY <1>1, <1>2, TurnEffects
  <2>2. /\ OnesM \in Nat /\ OnesM >= 1 /\ TemplateLen \in Nat /\ n \in Nat
        /\ OnesM - TemplateLen + 1 \in Nat /\ MostOnes \in Nat
    <3>1. TemplateLen \in Nat /\ TemplateLen >= 1 /\ OnesM \in Nat /\ OnesM >= TemplateLen
          /\ MostOnes \in Nat /\ n \in Nat
      BY ConstantsFit
    <3> QED
      BY <3>1
  <2>3. i < n
    BY <1>1, <2>1, <2>2, QuotientBound
  <2>4. OnesMatches(i * OnesM) \in Nat
    <3> DEFINE S == {j \in 0..(OnesM - TemplateLen) :
                        OnesIn(i * OnesM + j, TemplateLen) = TemplateLen}
               k == OnesM - TemplateLen + 1
    <3>1. S \in SUBSET (0..(0 + k - 1))
      BY <2>2
    <3> HIDE DEF S, k
    <3>2. Cardinality(S) \in 0..k /\ k \in Nat
      BY <2>2, <3>1, CountInside, 0 \in Int DEF k
    <3>3. Cardinality(S) \in Nat
      BY <3>2
    <3> QED
      BY <3>3 DEF S, OnesMatches
  <2>5. c \in 0..MostOnes
    BY <2>2, <2>4, MinOfTwo
  <2> HIDE DEF c
  <2>6. \A r \in 0..MostOnes : /\ counts.nuOnes[r] \in 0..n /\ counts.nuOnes[r] <= i
                               /\ counts'.nuOnes[r] \in {counts.nuOnes[r], counts.nuOnes[r] + 1}
    BY <2>1, <2>5 DEF NuOnesInv, Loop
  <2>7. \A r \in 0..MostOnes : counts'.nuOnes[r] \in 0..n /\ counts'.nuOnes[r] <= i + 1
    BY <1>1, <2>2, <2>3, <2>6
  <2>8. counts'.nuOnes = [r \in 0..MostOnes |-> counts'.nuOnes[r]]
    BY <2>1 DEF NuOnesInv
  <2>9. counts'.nuOnes \in [0..MostOnes -> 0..n]
    BY <2>7, <2>8
  <2>10. pc' = "overlapping_template" /\ i' = i + 1
    BY <2>1 DEF Loop
  <2> QED
    BY <2>7, <2>9, <2>10 DEF NuOnesInv
<1>3. CASE ~ OverlappingTemplateTest
  <2>1. /\ counts'.nuOnes = counts.nuOnes
        /\ pc' \in {"start", "frequency", "block_frequency", "runs", "longest_run",
                    "non_overlapping_template"} =>
              pc \in {"start", "frequency", "block_frequency", "runs", "longest_run",
                      "non_overlapping_template"}
        /\ pc' = "overlapping_template" =>
              \/ pc = "non_overlapping_template" /\ i' = 0
              \/ pc = "overlapping_template" /\ i' = i
    BY <1>1, <1>3, Steps DEF Quiet, Follows, Loop, Only, Fields
  <2>2. pc' = "overlapping_template" => \A r \in 0..MostOnes : counts'.nuOnes[r] <= i'
    <3>1. CASE pc = "non_overlapping_template" /\ i' = 0
      BY <2>1, <3>1, 0 <= 0 DEF NuOnesInv
    <3>2. CASE pc = "overlapping_template" /\ i' = i
      BY <2>1, <3>2 DEF NuOnesInv
    <3> QED
      BY <2>1, <3>1, <3>2
  <2> QED
    BY <2>1, <2>2 DEF NuOnesInv
<1> QED
  BY <1>2, <1>3

-----------------------------------------------------------------------------
\* Hit h is the number of occurrences of its template in its block.
HitIsRight(h) ==
    counts.hits[h] = Cardinality(MatchesFrom(Templates[(h - 1) \div NumBlocks + 1],
                                             ((h - 1) % NumBlocks) * M, 0))

HitsInv == /\ counts.hits \in Seq(0..M)
           /\ pc \in {"start", "frequency", "block_frequency", "runs", "longest_run"} =>
                counts.hits = <<>>
           /\ pc = "non_overlapping_template" => Len(counts.hits) = i
           /\ \A h \in DOMAIN counts.hits : HitIsRight(h)

\* While the bits stay, so do the occurrences.
LEMMA MatchesStay ==
  ASSUME bits' = bits, NEW w, NEW base
  PROVE  MatchesFrom(w, base, 0)' = MatchesFrom(w, base, 0)
BY Zenon DEF MatchesFrom, Occurs

\* Every turn of the two loops over templates and blocks adds the right hit.
LEMMA HitsKept ==
  ASSUME ControlInv, HitsInv, [Next]_vars PROVE HitsInv'
<1>1. Shape /\ i \in Nat
  BY DEF ControlInv
<1>2. CASE NonOverlappingTemplateTest
  <2> DEFINE w == Templates[i \div NumBlocks + 1]
             base == (i % NumBlocks) * M
  <2>1. /\ Loop("non_overlapping_template", {"hits"})
        /\ i < Len(Templates) * NumBlocks
        /\ counts'.hits = Append(counts.hits, Scan(w, base))
    BY <1>1, <1>2, TurnEffects
  <2>2. pc = "non_overlapping_template" /\ pc' = pc /\ i' = i + 1 /\ bits' = bits
    BY <2>1 DEF Loop
  <2>3. w \in Words(TemplateLen) /\ Aperiodic(w, TemplateLen) /\ base \in Int
    <3> DEFINE t == i \div NumBlocks + 1
    <3>1. NumBlocks \in Nat /\ NumBlocks >= 1 /\ M \in Nat
      BY ConstantsFit, BlockLengthIsNat
    <3>2. Len(Templates) \in Nat /\ DOMAIN Templates = 1..Len(Templates)
          /\ \A x \in DOMAIN Templates : Templates[x] \in Words(TemplateLen)
      BY PatternsAssumption
    <3>3. t \in 1..Len(Templates)
      <4> DEFINE q == i \div NumBlocks
                 k == Len(Templates)
      <4>1. q \in Nat /\ NumBlocks * q <= i
        BY <1>1, <3>1, QuotientBound
      <4>2. k \in Nat /\ i < k * NumBlocks
        BY <2>1, <3>2
      <4> HIDE DEF q, k
      <4>3. q < k
        <5> SUFFICES ASSUME q >= k PROVE FALSE
          BY <4>1, <4>2
        <5>1. NumBlocks * q >= NumBlocks * k
          BY <3>1, <4>1, <4>2
        <5>2. NumBlocks * k = k * NumBlocks /\ NumBlocks * q \in Nat /\ NumBlocks * k \in Nat
          BY <3>1, <4>1, <4>2
        <5> QED
          BY <1>1, <4>1, <4>2, <5>1, <5>2
      <4>4. q + 1 \in 1..k
        BY <4>1, <4>2, <4>3
      <4> QED
        BY <4>4 DEF q, k
    <3>4. i % NumBlocks \in Int
      BY <1>1, <3>1
    <3>5. base \in Int
      BY <3>1, <3>4
    <3> HIDE DEF t, base
    <3>6. Templates[t] \in Words(TemplateLen) /\ Aperiodic(Templates[t], TemplateLen)
      BY <3>2, <3>3, PatternsAssumption
    <3> QED
      BY <3>5, <3>6 DEF t
  <2> HIDE DEF w, base
  <2>4. Scan(w, base) \in 0..M
        /\ Scan(w, base) = Cardinality({j \in 0..(M - TemplateLen) : Occurs(w, base + j)})
    BY <2>3, ScanCounts
  <2>5. Scan(w, base) = Cardinality(MatchesFrom(w, base, 0))
    BY <2>4, Zenon DEF MatchesFrom
  <2>6. counts'.hits \in Seq(0..M) /\ Len(counts.hits) = i /\ Len(counts'.hits) = i + 1
        /\ DOMAIN counts.hits = 1..i /\ DOMAIN counts'.hits = 1..(i + 1)
        /\ (\A h \in 1..i : counts'.hits[h] = counts.hits[h])
        /\ counts'.hits[i + 1] = Scan(w, base)
    BY <1>1, <2>1, <2>2, <2>4 DEF HitsInv
  <2>7. ASSUME NEW h \in 1..(i + 1) PROVE HitIsRight(h)'
    <3>1. CASE h \in 1..i
      <4>1. counts'.hits[h] = Cardinality(MatchesFrom(Templates[(h - 1) \div NumBlocks + 1],
                                             ((h - 1) % NumBlocks) * M, 0))
        BY <2>6, <3>1 DEF HitsInv, HitIsRight
      <4> QED
        BY <2>2, <4>1, MatchesStay, Zenon DEF HitIsRight
    <3>2. CASE h = i + 1
      <4>1. h - 1 = i
        BY <1>1, <3>2
      <4>2. counts'.hits[h] = Cardinality(MatchesFrom(Templates[(h - 1) \div NumBlocks + 1],
                                             ((h - 1) % NumBlocks) * M, 0))
        BY <2>5, <2>6, <3>2, <4>1 DEF w, base
      <4> QED
        BY <2>2, <4>2, MatchesStay, Zenon DEF HitIsRight
    <3> QED
      BY <1>1, <3>1, <3>2
  <2> QED
    BY <2>2, <2>6, <2>7 DEF HitsInv
<1>3. CASE ~ NonOverlappingTemplateTest
  <2>1. /\ counts'.hits = counts.hits
        /\ pc' \in {"start", "frequency", "block_frequency", "runs", "longest_run"} =>
              pc \in {"start", "frequency", "block_frequency", "runs", "longest_run"}
        /\ pc' = "non_overlapping_template" =>
              \/ pc = "longest_run" /\ i' = 0
              \/ pc = "non_overlapping_template" /\ i' = i
        /\ bits' = bits \/ pc = "start"
    BY <1>1, <1>3, Steps DEF Quiet, Follows, Loop, Only, Fields
  <2>2. pc' = "non_overlapping_template" => Len(counts'.hits) = i'
    <3>1. CASE pc = "longest_run" /\ i' = 0
      BY <2>1, <3>1 DEF HitsInv
    <3>2. CASE pc = "non_overlapping_template" /\ i' = i
      BY <2>1, <3>2 DEF HitsInv
    <3> QED
      BY <2>1, <3>1, <3>2
  <2>3. ASSUME NEW h \in DOMAIN counts'.hits PROVE HitIsRight(h)'
    <3>1. CASE bits' = bits
      BY <2>1, <2>3, <3>1, MatchesStay, Zenon DEF HitsInv, HitIsRight
    <3>2. CASE pc = "start"
      <4>1. counts'.hits = <<>>
        BY <2>1, <3>2 DEF HitsInv
      <4> QED
        BY <4>1
    <3> QED
      BY <2>1, <3>1, <3>2
  <2> QED
    BY <2>1, <2>2, <2>3 DEF HitsInv
<1> QED
  BY <1>2, <1>3
-----------------------------------------------------------------------------
\* The number a block makes, as a function of the bits.
RepOf(b, k) ==
    LET rep[j \in 0..L] == IF j = 0 THEN 0
                           ELSE rep[j - 1] * 2 + b[(k - 1) * L + j - 1]
    IN rep[L]

\* decRep reads the bits of the current state.
LEMMA DecRepIsRep ==
  ASSUME NEW k PROVE decRep(k) = RepOf(bits, k)
BY DEF decRep, RepOf

\* t is the last of the blocks 1..upto of b that is equal to d, or 0.
IsLast(b, t, upto, d) == /\ t \in 0..upto
                         /\ t > 0 => RepOf(b, t) = d
                         /\ \A k \in (t + 1)..upto : RepOf(b, k) # d

\* D[q] leads from block InitBlocks + q to the last equal one before it.
DistanceIsRight(b, D, q) ==
    LET k == InitBlocks + q
    IN k <= n \div L /\ IsLast(b, k - D[q], k - 1, RepOf(b, k))

UnivInv ==
    /\ counts.T \in [Words(L) -> 0..(n \div L)]
    /\ counts.distances \in Seq(1..(n \div L))
    /\ pc \in {"start", "frequency", "block_frequency", "runs", "longest_run",
               "non_overlapping_template", "overlapping_template"} =>
         counts.distances = <<>> /\ \A d \in Words(L) : counts.T[d] = 0
    /\ pc = "universal" =>
         /\ Len(counts.distances) = IF i > InitBlocks THEN i - InitBlocks ELSE 0
         /\ \A d \in Words(L) : IsLast(bits, counts.T[d], i, d)
    /\ \A q \in DOMAIN counts.distances : DistanceIsRight(bits, counts.distances, q)

\* A turn of the universal test keeps the table and adds the right distance.
LEMMA UniversalTurn ==
  ASSUME ControlInv, UnivInv, UniversalStatisticalTest PROVE UnivInv'
<1> DEFINE k == i + 1
           d == RepOf(bits, k)
           top == n \div L
<1>1. Shape /\ i \in Nat /\ BitsTyped
  BY DEF ControlInv, UniversalStatisticalTest, Turn
<1>2. /\ Loop("universal", {"T", "distances"}) /\ i < n \div L
      /\ counts'.T = Remembered(counts.T, d, k)
      /\ counts'.distances = IF k > InitBlocks
                             THEN Append(counts.distances, DistanceTo(counts.T[d], k))
                             ELSE counts.distances
  BY <1>1, TurnEffects, DecRepIsRep
<1>3. pc = "universal" /\ pc' = "universal" /\ i' = k /\ bits' = bits
  BY <1>2 DEF Loop
<1>4. InitBlocks \in Nat /\ L \in Nat /\ L >= 1 /\ n \in Nat
  BY ConstantsFit
<1>5. top \in Nat /\ k \in 1..top /\ k \in Nat /\ k - 1 = i
  <2>1. top \in Nat
    BY <1>4
  <2>2. i < top
    BY <1>2
  <2> HIDE DEF top
  <2> QED
    BY <1>1, <2>1, <2>2
<1>6. d \in Words(L)
  BY <1>1, <1>5, DecRepFacts, DecRepIsRep
<1>7. /\ counts.T \in [Words(L) -> 0..top] /\ counts.distances \in Seq(1..top)
      /\ Len(counts.distances) = IF i > InitBlocks THEN i - InitBlocks ELSE 0
      /\ \A e \in Words(L) : IsLast(bits, counts.T[e], i, e)
      /\ \A q \in DOMAIN counts.distances : DistanceIsRight(bits, counts.distances, q)
  BY <1>3 DEF UnivInv
<1>8. counts'.T = [counts.T EXCEPT ![d] = k]
  BY <1>2 DEF Remembered
<1>9. ASSUME NEW e \in Words(L) PROVE IsLast(bits, counts'.T[e], k, e)
  <2>1. CASE e = d
    <3>1. counts'.T[e] = k
      BY <1>6, <1>7, <1>8, <2>1
    <3>2. RepOf(bits, k) = e
      BY <2>1
    <3>3. (\A x \in (k + 1)..k : FALSE) /\ k \in 0..k
      BY <1>5
    <3> HIDE DEF k, d
    <3> QED
      BY <1>5, <3>1, <3>2, <3>3 DEF IsLast
  <2>2. CASE e # d
    <3>1. counts'.T[e] = counts.T[e]
      BY <1>7, <1>8, <2>2
    <3>2. IsLast(bits, counts.T[e], i, e)
      BY <1>7
    <3>3. \A x \in (counts.T[e] + 1)..k : x = k \/ x \in (counts.T[e] + 1)..i
      BY <1>1, <3>2 DEF IsLast
    <3>4. RepOf(bits, k) # e
      BY <2>2
    <3>5. counts.T[e] \in 0..k
      BY <1>1, <3>2 DEF IsLast
    <3> HIDE DEF k, d
    <3> QED
      BY <3>1, <3>2, <3>3, <3>4, <3>5 DEF IsLast
  <2> QED
    BY <2>1, <2>2
<1> HIDE DEF d
<1>10. counts'.T \in [Words(L) -> 0..top]
  <2>1. k \in 0..top
    BY <1>5
  <2> HIDE DEF k, top
  <2> QED
    BY <1>7, <1>8, <2>1
<1>11. CASE k > InitBlocks
  <2> DEFINE t == counts.T[d]
  <2>1. IsLast(bits, t, i, d) /\ t \in 0..i
    BY <1>6, <1>7 DEF IsLast
  <2>2. counts'.distances = Append(counts.distances, k - t)
    BY <1>2, <1>11 DEF DistanceTo
  <2> HIDE DEF t, top
  <2>3. k - t \in 1..top
    BY <1>1, <1>5, <2>1
  <2>4. Len(counts.distances) = i - InitBlocks
    <3>1. CASE i > InitBlocks
      BY <1>7, <3>1
    <3>2. CASE ~ i > InitBlocks
      BY <1>1, <1>4, <1>7, <1>11, <3>2
    <3> QED
      BY <3>1, <3>2
  <2>5. i - InitBlocks \in Nat /\ k - InitBlocks = (i - InitBlocks) + 1
    BY <1>1, <1>4, <1>11
  <2>6. /\ counts'.distances \in Seq(1..top)
        /\ Len(counts'.distances) = k - InitBlocks
        /\ DOMAIN counts'.distances = 1..(k - InitBlocks)
        /\ DOMAIN counts.distances = 1..(i - InitBlocks)
        /\ \A q \in 1..(i - InitBlocks) : counts'.distances[q] = counts.distances[q]
        /\ counts'.distances[k - InitBlocks] = k - t
    BY <1>7, <2>2, <2>3, <2>4, <2>5
  <2>7. ASSUME NEW q \in 1..(k - InitBlocks)
        PROVE  DistanceIsRight(bits, counts'.distances, q)
    <3>1. CASE q \in 1..(i - InitBlocks)
      <4>1. DistanceIsRight(bits, counts.distances, q)
        BY <1>7, <2>6, <3>1
      <4>2. counts'.distances[q] = counts.distances[q]
        BY <2>6, <3>1
      <4> QED
        BY <4>1, <4>2, Zenon DEF DistanceIsRight
    <3>2. CASE q = k - InitBlocks
      <4>1. InitBlocks + q = k /\ k - (k - t) = t /\ k <= top /\ k - 1 = i
        BY <1>1, <1>4, <1>5, <2>1, <3>2
      <4>2. counts'.distances[q] = k - t
        BY <2>6, <3>2
      <4>3. IsLast(bits, k - counts'.distances[q], k - 1, RepOf(bits, k))
        <5> HIDE DEF k
        <5> QED
          BY <2>1, <4>1, <4>2, Zenon DEF d
      <4> HIDE DEF k
      <4> QED
        BY <4>1, <4>3, Zenon DEF DistanceIsRight, top
    <3>3. q \in 1..(i - InitBlocks) \/ q = k - InitBlocks
      BY <2>5
    <3> QED
      BY <3>1, <3>2, <3>3
  <2>8. Len(counts'.distances) = IF i' > InitBlocks THEN i' - InitBlocks ELSE 0
    BY <1>3, <1>11, <2>6
  <2> QED
    BY <1>3, <1>9, <1>10, <2>6, <2>7, <2>8 DEF UnivInv, top
<1>12. CASE ~ k > InitBlocks
  <2>1. counts'.distances = counts.distances
    BY <1>2, <1>12
  <2>2. Len(counts.distances) = 0
    BY <1>1, <1>4, <1>7, <1>12
  <2>3. Len(counts'.distances) = IF i' > InitBlocks THEN i' - InitBlocks ELSE 0
    BY <1>3, <1>12, <2>1, <2>2
  <2> HIDE DEF k
  <2> QED
    BY <1>3, <1>7, <1>9, <1>10, <2>1, <2>3 DEF UnivInv
<1> QED
  BY <1>11, <1>12

\* No other step touches the table or the distances.
LEMMA UnivKept ==
  ASSUME ControlInv, UnivInv, [Next]_vars PROVE UnivInv'
<1>1. Shape /\ i \in Nat
  BY DEF ControlInv
<1>2. CASE UniversalStatisticalTest
  BY <1>2, UniversalTurn
<1>3. CASE ~ UniversalStatisticalTest
  <2>1. /\ counts'.distances = counts.distances /\ counts'.T = counts.T
        /\ pc' \in {"start", "frequency", "block_frequency", "runs", "longest_run",
               "non_overlapping_template", "overlapping_template"} =>
              pc \in {"start", "frequency", "block_frequency", "runs", "longest_run",
               "non_overlapping_template", "overlapping_template"}
        /\ pc' = "universal" =>
              \/ pc = "overlapping_template" /\ i' = 0
              \/ pc = "universal" /\ i' = i /\ bits' = bits
        /\ bits' = bits \/ pc = "start"
    BY <1>1, <1>3, Steps DEF Quiet, Follows, Loop, Only, Fields
  <2>2. ASSUME pc' = "universal"
        PROVE  /\ Len(counts'.distances) = IF i' > InitBlocks THEN i' - InitBlocks ELSE 0
               /\ \A d \in Words(L) : IsLast(bits', counts'.T[d], i', d)
    <3>1. CASE pc = "overlapping_template" /\ i' = 0
      <4>1. counts'.distances = <<>> /\ \A d \in Words(L) : counts'.T[d] = 0
        BY <2>1, <3>1 DEF UnivInv
      <4>2. ~ 0 > InitBlocks
        BY ConstantsFit
      <4>3. \A b, d : IsLast(b, 0, 0, d)
        BY DEF IsLast
      <4>4. Len(counts'.distances) = 0
        BY <4>1
      <4>5. Len(counts'.distances) = IF i' > InitBlocks THEN i' - InitBlocks ELSE 0
        BY <3>1, <4>2, <4>4
      <4>6. \A d \in Words(L) : IsLast(bits', counts'.T[d], i', d)
        BY <3>1, <4>1, <4>3, Zenon
      <4> QED
        BY <4>5, <4>6
    <3>2. CASE pc = "universal" /\ i' = i /\ bits' = bits
      BY <2>1, <3>2, Zenon DEF UnivInv
    <3> QED
      BY <2>1, <2>2, <3>1, <3>2
  <2>3. ASSUME NEW q \in DOMAIN counts'.distances
        PROVE  DistanceIsRight(bits', counts'.distances, q)
    <3>1. CASE bits' = bits
      BY <2>1, <3>1, Zenon DEF UnivInv
    <3>2. CASE pc = "start"
      <4>1. counts'.distances = <<>>
        BY <2>1, <3>2 DEF UnivInv
      <4> QED
        BY <4>1
    <3> QED
      BY <2>1, <3>1, <3>2
  <2>4. /\ counts'.T \in [Words(L) -> 0..(n \div L)]
        /\ counts'.distances \in Seq(1..(n \div L))
        /\ pc' \in {"start", "frequency", "block_frequency", "runs", "longest_run",
               "non_overlapping_template", "overlapping_template"} =>
             counts'.distances = <<>> /\ \A d \in Words(L) : counts'.T[d] = 0
    BY <2>1, Zenon DEF UnivInv
  <2> QED
    BY <2>2, <2>3, <2>4 DEF UnivInv
<1> QED
  BY <1>2, <1>3
-----------------------------------------------------------------------------
\* The inductive invariant of all loops.
IInv == /\ ControlInv /\ OnesInv /\ SumsInv /\ RunsInv /\ NuInv /\ NuOnesInv
        /\ HitsInv /\ UnivInv

\* Before the first test nothing is counted.
LEMMA InitCounts == Init => IInv
<1> SUFFICES ASSUME Init PROVE IInv
  OBVIOUS
<1>1. /\ pc = "start" /\ i = 0 /\ counts = NothingCounted
      /\ bitstream \in [1..NumBytes -> 0..255]
  BY PatternsAssumption DEF Init
<1>2. Shape
  BY <1>1 DEF Shape, Fields, NothingCounted
<1>3. /\ counts.ones = 0 /\ counts.sums = <<>> /\ counts.runs = 0
      /\ counts.nu = [r \in DOMAIN V |-> 0] /\ counts.hits = <<>>
      /\ counts.nuOnes = [r \in 0..MostOnes |-> 0]
      /\ counts.T = [d \in Words(L) |-> 0] /\ counts.distances = <<>>
  BY <1>1 DEF NothingCounted
<1>4. n \in Nat /\ 0 \in 0..n /\ 0 \in 0..(n \div L)
  <2>1. n \in Nat /\ L \in Nat /\ L >= 1
    BY ConstantsFit
  <2>2. n \div L \in Nat
    BY <2>1
  <2> QED
    BY <2>1, <2>2
<1>5. ControlInv
  BY <1>1, <1>2 DEF ControlInv
<1>6. OnesInv /\ SumsInv /\ RunsInv
  BY <1>1, <1>3, <1>4 DEF OnesInv, SumsInv, RunsInv
<1>7. NuInv /\ NuOnesInv
  BY <1>1, <1>3, <1>4 DEF NuInv, NuOnesInv
<1>8. HitsInv
  BY <1>1, <1>3 DEF HitsInv
<1>9. UnivInv
  BY <1>1, <1>3, <1>4 DEF UnivInv
<1> QED
  BY <1>5, <1>6, <1>7, <1>8, <1>9 DEF IInv

\* The invariant holds in every reachable state.
LEMMA InvariantHolds == Spec => []IInv
<1>1. IInv /\ [Next]_vars => IInv'
  BY ControlKept, OnesKept, SumsKept, RunsKept, NuKept, NuOnesKept, HitsKept, UnivKept
  DEF IInv
<1> QED
  BY <1>1, InitCounts, PTL DEF Spec

\* The counts of every test keep their types whatever the bits, the lengths of
\* the blocks and the templates: no class index and no table index leaves its
\* range, and no distance is 0, whose logarithm universal.go:69 would take.
THEOREM TypesKept == Spec => []TypeOK
<1>1. IInv => TypeOK
  <2> SUFFICES ASSUME IInv PROVE TypeOK
    OBVIOUS
  <2>1. pc \in {"start"} \cup {Order[k] : k \in DOMAIN Order}
    <3>1. DOMAIN Order = 1..10
      BY DEF Order
    <3>2. /\ Order[1] = "frequency" /\ Order[2] = "block_frequency" /\ Order[3] = "runs"
          /\ Order[4] = "longest_run" /\ Order[5] = "non_overlapping_template"
          /\ Order[6] = "overlapping_template" /\ Order[7] = "universal"
          /\ Order[8] = "approximate_entropy" /\ Order[9] = "serial" /\ Order[10] = "done"
      BY DEF Order
    <3>3. {1, 2, 3, 4, 5, 6, 7, 8, 9, 10} \subseteq DOMAIN Order
      BY <3>1
    <3> DEFINE tests == {Order[k] : k \in DOMAIN Order}
    <3>4. \A k \in DOMAIN Order : Order[k] \in tests
      OBVIOUS
    <3> HIDE DEF tests
    <3>5. \A k \in {1, 2, 3, 4, 5, 6, 7, 8, 9, 10} : Order[k] \in tests
      BY <3>3, <3>4, Zenon
    <3>6. /\ Order[1] \in tests /\ Order[2] \in tests /\ Order[3] \in tests
          /\ Order[4] \in tests /\ Order[5] \in tests /\ Order[6] \in tests
          /\ Order[7] \in tests /\ Order[8] \in tests /\ Order[9] \in tests
          /\ Order[10] \in tests
      BY <3>5
    <3>7. /\ "frequency" \in tests /\ "block_frequency" \in tests /\ "runs" \in tests
          /\ "longest_run" \in tests /\ "non_overlapping_template" \in tests
          /\ "overlapping_template" \in tests /\ "universal" \in tests
          /\ "approximate_entropy" \in tests /\ "serial" \in tests /\ "done" \in tests
      BY <3>2, <3>6
    <3>8. pc \in {"start"} \cup tests
      BY <3>7 DEF IInv, ControlInv
    <3> QED
      BY <3>8 DEF tests
  <2> QED
    BY <2>1 DEF IInv, ControlInv, BitsTyped, OnesInv, SumsInv, RunsInv, NuInv,
                NuOnesInv, HitsInv, UnivInv, TypeOK
<1> QED
  BY <1>1, InvariantHolds, PTL

\* What the greatest element of a set is.
LEMMA MaxIs ==
  ASSUME NEW S \in SUBSET Int, NEW x \in S, \A y \in S : y <= x
  PROVE  Max(S) = x
<1>1. \A z \in S : (\A y \in S : z >= y) <=> z = x
  OBVIOUS
<1>2. (CHOOSE z \in S : \A y \in S : z >= y) = x
  BY <1>1
<1> QED
  BY <1>2 DEF Max

\* Every distance the universal test takes the logarithm of is the one to the
\* nearest equal block before, for every sequence, block length and number of
\* initial blocks (universal.go:50-71).
THEOREM DistancesAreNearest == Spec => []DistancesToLast
<1>1. IInv => DistancesToLast
  <2> SUFFICES ASSUME IInv, pc = "done", NEW q \in DOMAIN counts.distances
               PROVE  LET k == InitBlocks + q
                      IN  counts.distances[q] =
                            k - Max({0} \cup {k2 \in 1..(k - 1) : SameBlock(k, k2)})
    BY Zenon DEF DistancesToLast
  <2> DEFINE k == InitBlocks + q
             top == n \div L
             t == k - counts.distances[q]
             S == {0} \cup {k2 \in 1..(k - 1) : SameBlock(k, k2)}
  <2>1. BitsTyped /\ DistanceIsRight(bits, counts.distances, q)
    BY DEF IInv, ControlInv, UnivInv
  <2>2. counts.distances \in Seq(1..top) /\ top \in Int
    <3>1. n \in Nat /\ L \in Nat /\ L >= 1
      BY ConstantsFit
    <3> QED
      BY <3>1 DEF IInv, UnivInv
  <2>3. q \in Nat /\ q >= 1 /\ counts.distances[q] \in 1..top
    BY <2>2
  <2>4. InitBlocks \in Nat /\ InitBlocks >= 1
    BY ConstantsFit
  <2>5. k <= top /\ IsLast(bits, t, k - 1, RepOf(bits, k))
    BY <2>1 DEF DistanceIsRight
  <2> HIDE DEF top
  <2>6. k \in Nat /\ k \in 1..top /\ counts.distances[q] \in Int /\ k - t = counts.distances[q]
    <3>1. k \in Int /\ k >= 1 /\ k <= top /\ top \in Int
      BY <2>2, <2>3, <2>4, <2>5
    <3>2. counts.distances[q] \in Int
      <4> HIDE DEF k, t
      <4>1. \A x \in 1..top : x \in Int
        OBVIOUS
      <4> QED
        BY <4>1, <2>3, Zenon
    <3>3. \A x, y \in Int : y - (y - x) = x
      OBVIOUS
    <3>4. k - t = counts.distances[q]
      <4> HIDE DEF k
      <4> QED
        BY <3>1, <3>2, <3>3, Zenon DEF t
    <3> HIDE DEF k, t
    <3>5. k \in Nat /\ k \in 1..top
      BY <3>1
    <3> QED
      BY <3>2, <3>4, <3>5
  <2>7. \A x \in 1..top : RepOf(bits, x) = RepOf(bits, k) <=> SameBlock(k, x)
    <3>1. \A x \in 1..top : decRep(k) = decRep(x) <=> SameBlock(k, x)
      BY <2>1, <2>6, DecRepFacts DEF top
    <3>2. \A x : decRep(x) = RepOf(bits, x)
      BY DecRepIsRep
    <3> HIDE DEF k
    <3> QED
      BY <3>1, <3>2, Zenon
  <2> HIDE DEF k, t
  <2>8. t \in S /\ \A y \in S : y \in Int /\ y <= t
    <3>1. t \in 0..(k - 1)
      BY <2>5 DEF IsLast
    <3>2. t \in S
      <4>1. CASE t = 0
        BY <4>1
      <4>2. CASE t # 0
        <5>1. t > 0 /\ t \in 1..(k - 1) /\ t \in 1..top
          BY <2>2, <2>6, <3>1, <4>2
        <5>2. RepOf(bits, t) = RepOf(bits, k)
          BY <2>5, <5>1 DEF IsLast
        <5> QED
          BY <2>7, <5>1, <5>2
      <4> QED
        BY <4>1, <4>2
    <3>3. ASSUME NEW y \in S PROVE y \in Int /\ y <= t
      <4>1. CASE y = 0
        BY <2>6, <3>1, <4>1
      <4>2. CASE y # 0
        <5>1. y \in 1..(k - 1) /\ SameBlock(k, y)
          BY <4>2
        <5>2. y \in 1..top
          BY <2>2, <2>6, <5>1
        <5>3. RepOf(bits, y) = RepOf(bits, k)
          BY <2>7, <5>1, <5>2
        <5>4. y \notin (t + 1)..(k - 1)
          BY <2>5, <5>3 DEF IsLast
        <5> QED
          BY <2>6, <3>1, <5>1, <5>4
      <4> QED
        BY <4>1, <4>2
    <3> QED
      BY <3>2, <3>3
  <2> HIDE DEF S
  <2>9. S \in SUBSET Int
    BY <2>8
  <2>10. Max(S) = t
    BY <2>8, <2>9, MaxIs
  <2> QED
    BY <2>6, <2>10 DEF S, k
<1> QED
  BY <1>1, InvariantHolds, PTL

\* The table is in increasing order and holds words without a period.
LEMMA TableRows ==
  /\ Len(template9) = 148 /\ DOMAIN template9 = 1..148
  /\ template9 = [t \in 1..148 |-> template9[t]]
  /\ \A t \in 1..148 : template9[t] \in 0..511
  /\ \A t \in 1..147 : template9[t] < template9[t + 1]
  /\ \A t \in 1..148 : Aperiodic(template9[t], 9)
BY DEF template9, Aperiodic

\* Every word of nine bits without a period is in the table.
LEMMA NoRowMissing ==
  \A w \in 0..511 : Aperiodic(w, 9) => \E t \in 1..148 : template9[t] = w
BY DEF template9, Aperiodic

\* The table of the non-overlapping test is complete: it holds every word of
\* nine bits without a period once and no other.
LEMMA TableIsComplete == TemplatesComplete
<1> DEFINE S == {w \in Words(9) : Aperiodic(w, 9)}
<1>1. Words(9) = 0..511
  BY DEF Words
<1>2. DOMAIN template9 = 1..148 /\ Len(template9) = 148
  BY TableRows
<1>3. \A t \in 1..148 : template9[t] \in S
  <2>1. \A w : w \in 0..511 /\ Aperiodic(w, 9) => w \in S
    BY <1>1
  <2>2. \A t \in 1..148 : template9[t] \in 0..511 /\ Aperiodic(template9[t], 9)
    BY TableRows
  <2> HIDE DEF S
  <2> QED
    BY <2>1, <2>2, Zenon
<1>4. \A w \in S : \E t \in 1..148 : template9[t] = w
  BY <1>1, NoRowMissing
<1>5. \A t, u \in 1..148 : template9[t] = template9[u] => t = u
  BY DEF template9
<1> HIDE DEF S
<1>6. template9 \in [1..148 -> S]
  BY <1>3, TableRows
<1>7. template9 \in Bijection(1..148, S)
  BY <1>4, <1>5, <1>6, Zenon DEF Bijection, Injection, Surjection, IsInjective
<1>8. Cardinality(S) = 148
  <2>1. IsFiniteSet(1..148) /\ Cardinality(1..148) = 148
    <3>1. 1 \in Int /\ 148 \in Int /\ 148 - 1 + 1 = 148 /\ ~ (1 > 148)
      OBVIOUS
    <3> QED
      BY <3>1, FS_Interval
  <2> QED
    BY <1>7, <2>1, FS_Bijection DEF ExistsBijection
<1>9. {template9[t] : t \in DOMAIN template9} = S
  BY <1>2, <1>3, <1>4
<1> QED
  BY <1>2, <1>8, <1>9 DEF S, TemplatesComplete

\* Jumping over a match loses no other one, for every sequence, every list of
\* templates without a period and every number of blocks: the table of the code
\* is such a list and holds all of them (non_overlapping_template.go:49-67).
THEOREM NoMatchIsLost == Spec => []ScanLosesNothing
<1>1. IInv => ScanLosesNothing
  <2> SUFFICES ASSUME IInv, pc = "done", NEW h \in DOMAIN counts.hits
               PROVE  counts.hits[h] =
                        Cardinality({j \in 0..(M - TemplateLen) :
                           Occurs(Templates[(h - 1) \div NumBlocks + 1],
                                  ((h - 1) % NumBlocks) * M + j)})
    BY TableIsComplete, Zenon DEF ScanLosesNothing
  <2>1. HitIsRight(h)
    BY DEF IInv, HitsInv
  <2> QED
    BY <2>1, Zenon DEF HitIsRight, MatchesFrom
<1> QED
  BY <1>1, InvariantHolds, PTL
-----------------------------------------------------------------------------
\* Windows of the circular sequence b. The node a window leads to and the table
\* of all of them, as functions of the bits.
NodeOf(b, p, w) == LET k[j \in 0..w] == IF j = 0 THEN 1
                                        ELSE 2 * k[j - 1] + b[(p + j - 1) % n]
                   IN k[w]

TableOf(b, w) == LET nodes == [p \in 0..(n - 1) |-> NodeOf(b, p, w)]
                 IN [k \in 0..(2 ^ (w + 1) - 2) |->
                       Cardinality({p \in 0..(n - 1) : nodes[p] - 1 = k})]

\* Counted makes the table of the bits of the current state.
LEMMA CountedIsTable ==
  ASSUME NEW w PROVE Counted(w) = TableOf(bits, w)
BY DEF Counted, TableOf, Node, NodeOf, CircularBit

\* h follows the branches from the root along the w bits from position p on.
Branches(h, b, p, w) == /\ h \in [0..w -> Int] /\ h[0] = 1
                        /\ \A j \in 1..w : h[j] = 2 * h[j - 1] + b[(p + j - 1) % n]

\* Any such function ends at the node.
LEMMA NodeIs ==
  ASSUME NEW b, NEW p, NEW w \in Nat, NEW h, Branches(h, b, p, w)
  PROVE  NodeOf(b, p, w) = h[w]
<1> DEFINE e(r) == [j \in 0..w |-> IF j = 0 THEN 1
                                   ELSE 2 * r[j - 1] + b[(p + j - 1) % n]]
           k == CHOOSE r : r = e(r)
<1>0. /\ h \in [0..w -> Int] /\ h[0] = 1
      /\ \A j \in 1..w : h[j] = 2 * h[j - 1] + b[(p + j - 1) % n]
  BY DEF Branches
<1>1. h = e(h)
  <2>1. \A j \in 0..w : j # 0 => j \in 1..w
    OBVIOUS
  <2>2. \A j \in 0..w : h[j] = IF j = 0 THEN 1 ELSE 2 * h[j - 1] + b[(p + j - 1) % n]
    BY <1>0, <2>1
  <2>3. h = [j \in 0..w |-> h[j]]
    BY <1>0
  <2> QED
    BY <2>2, <2>3
<1>2. k = e(k)
  BY <1>1, Zenon
<1>3. NodeOf(b, p, w) = k[w]
  BY DEF NodeOf
<1> HIDE DEF k
<1>4. \A j \in 0..w : k[j] = IF j = 0 THEN 1 ELSE 2 * k[j - 1] + b[(p + j - 1) % n]
  <2> DEFINE g == e(k)
  <2>1. \A j \in 0..w : g[j] = IF j = 0 THEN 1 ELSE 2 * k[j - 1] + b[(p + j - 1) % n]
    OBVIOUS
  <2>2. k = g
    BY <1>2
  <2> HIDE DEF g
  <2> QED
    BY <2>1, <2>2
<1> DEFINE T == {j \in 0..w : k[j] = h[j]}
<1>5. 0 \in T
  BY <1>0, <1>4
<1>6. ASSUME NEW j \in 0..(w - 1), j \in T PROVE j + 1 \in T
  <2>1. j + 1 \in 1..w /\ j + 1 \in 0..w /\ (j + 1) - 1 = j /\ j + 1 # 0
    OBVIOUS
  <2>2. k[j + 1] = 2 * k[j] + b[(p + (j + 1) - 1) % n]
    BY <1>4, <2>1
  <2>3. h[j + 1] = 2 * h[j] + b[(p + (j + 1) - 1) % n]
    BY <1>0, <2>1
  <2>4. k[j] = h[j]
    BY <1>6
  <2> QED
    BY <2>1, <2>2, <2>3, <2>4
<1> HIDE DEF T
<1>7. 0..w \subseteq T
  BY <1>5, <1>6, InductionUpTo
<1>8. w \in T
  BY <1>7
<1> QED
  BY <1>3, <1>8 DEF T

\* A circular sequence of bits.
IsSequence(b) == b \in [0..(n - 1) -> 0..1]

\* Every position has its bit.
LEMMA CircularBits ==
  ASSUME NEW b, IsSequence(b), NEW p \in Nat PROVE p % n \in 0..(n - 1) /\ b[p % n] \in 0..1
<1>1. n \in Nat /\ n >= 1
  BY ConstantsFit
<1>2. p % n \in 0..(n - 1)
  BY <1>1
<1> QED
  BY <1>2 DEF IsSequence

\* A window that is one bit longer leads one branch further.
LEMMA NodeFurther ==
  ASSUME NEW b, IsSequence(b), NEW p \in Nat, NEW w \in Nat
  PROVE  /\ NodeOf(b, p, 0) = 1
         /\ NodeOf(b, p, w) \in Int
         /\ NodeOf(b, p, w + 1) = 2 * NodeOf(b, p, w) + b[(p + w) % n]
<1> DEFINE c == [j \in 1..(w + 1) |-> b[(p + j - 1) % n]]
<1>1. c \in [1..(w + 1) -> 0..1]
  <2>1. \A j \in 1..(w + 1) : p + j - 1 \in Nat
    OBVIOUS
  <2>2. \A j \in 1..(w + 1) : b[(p + j - 1) % n] \in 0..1
    BY <2>1, CircularBits
  <2> QED
    BY <2>2
<1>2. \A j \in 1..(w + 1) : c[j] = b[(p + j - 1) % n]
  OBVIOUS
<1> HIDE DEF c
<1>3. PICK h : /\ h \in [0..(w + 1) -> Int] /\ h[0] = 1
               /\ \A j \in 1..(w + 1) : h[j] = 2 * h[j - 1] + c[j]
  BY <1>1, ReadingExists, 1 \in Int, w + 1 \in Nat
<1>4. \A j \in 1..(w + 1) : h[j] = 2 * h[j - 1] + b[(p + j - 1) % n]
  BY <1>2, <1>3
<1>5. NodeOf(b, p, w + 1) = h[w + 1]
  <2>1. Branches(h, b, p, w + 1)
    BY <1>3, <1>4 DEF Branches
  <2>2. w + 1 \in Nat
    OBVIOUS
  <2> QED
    BY <2>1, <2>2, NodeIs
<1>6. NodeOf(b, p, w) = h[w]
  <2> DEFINE g == [j \in 0..w |-> h[j]]
  <2>1. g \in [0..w -> Int] /\ g[0] = 1 /\ g[w] = h[w]
    BY <1>3
  <2>2. \A j \in 1..w : g[j] = 2 * g[j - 1] + b[(p + j - 1) % n]
    <3>1. \A j \in 1..w : j \in 1..(w + 1) /\ j \in 0..w /\ j - 1 \in 0..w
      OBVIOUS
    <3> QED
      BY <1>4, <3>1
  <2>3. Branches(g, b, p, w)
    BY <2>1, <2>2, Zenon DEF Branches
  <2> HIDE DEF g
  <2> QED
    BY <2>1, <2>3, NodeIs
<1>7. NodeOf(b, p, 0) = 1
  <2> DEFINE g == [j \in 0..0 |-> 1]
  <2>1. g \in [0..0 -> Int] /\ g[0] = 1
    OBVIOUS
  <2>2. \A j \in 1..0 : g[j] = 2 * g[j - 1] + b[(p + j - 1) % n]
    OBVIOUS
  <2>3. Branches(g, b, p, 0) /\ g[0] = 1
    BY <2>1, <2>2, Zenon DEF Branches
  <2> HIDE DEF g
  <2> QED
    BY <2>3, NodeIs, 0 \in Nat
<1>8. h[w + 1] = 2 * h[w] + b[(p + w) % n]
  <2>1. w + 1 \in 1..(w + 1) /\ (w + 1) - 1 = w /\ p + (w + 1) - 1 = p + w
    OBVIOUS
  <2> QED
    BY <1>4, <2>1
<1> QED
  BY <1>3, <1>5, <1>6, <1>7, <1>8

\* The word of w bits that starts at position p.
Window(b, p, w) == NodeOf(b, p, w) - 2 ^ w

\* A window is a word of as many bits, and is the start of a longer one.
LEMMA WindowFurther ==
  ASSUME NEW b, IsSequence(b), NEW p \in Nat, NEW w \in Nat
  PROVE  /\ Window(b, p, w) \in Words(w)
         /\ Window(b, p, w + 1) = 2 * Window(b, p, w) + b[(p + w) % n]
         /\ b[(p + w) % n] \in 0..1
<1> DEFINE T == {u \in Nat : Window(b, p, u) \in Words(u)}
<1>1. \A u \in Nat : /\ NodeOf(b, p, u) \in Int /\ 2 ^ u \in Nat
                     /\ 2 ^ (u + 1) = 2 * 2 ^ u
                     /\ NodeOf(b, p, u + 1) = 2 * NodeOf(b, p, u) + b[(p + u) % n]
                     /\ b[(p + u) % n] \in 0..1
  <2> TAKE u \in Nat
  <2>1. p + u \in Nat
    OBVIOUS
  <2>2. /\ NodeOf(b, p, u) \in Int
        /\ NodeOf(b, p, u + 1) = 2 * NodeOf(b, p, u) + b[(p + u) % n]
    BY NodeFurther
  <2>3. b[(p + u) % n] \in 0..1
    BY <2>1, CircularBits
  <2>4. 2 ^ u \in Nat /\ 2 ^ (u + 1) = 2 * 2 ^ u
    BY PowersOfTwo
  <2> QED
    BY <2>2, <2>3, <2>4
<1>2. \A u \in Nat : Window(b, p, u + 1) = 2 * Window(b, p, u) + b[(p + u) % n]
  <2> TAKE u \in Nat
  <2> DEFINE node == NodeOf(b, p, u)
             next == NodeOf(b, p, u + 1)
             bit == b[(p + u) % n]
  <2>1. /\ node \in Int /\ 2 ^ u \in Int /\ 2 ^ (u + 1) = 2 * 2 ^ u
        /\ next = 2 * node + bit /\ bit \in 0..1
    BY <1>1
  <2>2. Window(b, p, u + 1) = next - 2 ^ (u + 1) /\ Window(b, p, u) = node - 2 ^ u
    BY DEF Window
  <2> HIDE DEF node, next, bit
  <2>3. Window(b, p, u + 1) = 2 * Window(b, p, u) + bit
    BY <2>1, <2>2
  <2> QED
    BY <2>3 DEF bit
<1>3. 0 \in T
  BY NodeFurther, PowersOfTwo DEF Window, Words
<1>4. ASSUME NEW u \in Nat, u \in T PROVE u + 1 \in T
  <2>1. Window(b, p, u) \in 0..(2 ^ u - 1)
    BY <1>4 DEF Words
  <2>2. Window(b, p, u + 1) \in 0..(2 ^ (u + 1) - 1)
    BY <1>1, <1>2, <2>1
  <2> QED
    BY <2>2 DEF Words
<1> HIDE DEF T
<1>5. Nat \subseteq T
  BY <1>3, <1>4, InductionOnNat
<1> QED
  BY <1>1, <1>2, <1>5 DEF T

\* The only word without bits is 0.
LEMMA EmptyWindow ==
  ASSUME NEW b, IsSequence(b), NEW p \in Nat PROVE Window(b, p, 0) = 0
<1>1. NodeOf(b, p, 0) = 1
  BY NodeFurther, 0 \in Nat
<1> QED
  BY <1>1, PowersOfTwo DEF Window

\* A window is also the end of the one that starts a bit earlier.
LEMMA WindowEarlier ==
  ASSUME NEW b, IsSequence(b), NEW p \in Nat, NEW w \in Nat
  PROVE  Window(b, p, w + 1)
           = Window(b, p + 1, w) + (IF b[p % n] = 1 THEN 2 ^ w ELSE 0)
<1> DEFINE Add(u) == IF b[p % n] = 1 THEN 2 ^ u ELSE 0
           T == {u \in Nat : Window(b, p, u + 1) = Window(b, p + 1, u) + Add(u)}
<1>1. b[p % n] \in 0..1 /\ p + 1 \in Nat
  BY CircularBits
<1>2. 0 \in T
  <2>1. Window(b, p, 0) = 0 /\ Window(b, p + 1, 0) = 0
    BY <1>1, EmptyWindow
  <2>2. Window(b, p, 0 + 1) = 2 * Window(b, p, 0) + b[(p + 0) % n] /\ p + 0 = p
    BY WindowFurther, 0 \in Nat
  <2>3. Window(b, p, 0 + 1) = b[p % n] /\ Window(b, p + 1, 0) = 0
    BY <1>1, <2>1, <2>2
  <2>4. Add(0) = b[p % n]
    BY <1>1, PowersOfTwo
  <2> HIDE DEF Add
  <2> QED
    BY <1>1, <2>3, <2>4
<1>3. ASSUME NEW u \in Nat, u \in T PROVE u + 1 \in T
  <2> DEFINE bit == b[(p + (u + 1)) % n]
             long == Window(b, p, u + 1)
             short == Window(b, p + 1, u)
  <2>1. Window(b, p, (u + 1) + 1) = 2 * long + bit /\ bit \in 0..1
    BY <1>1, WindowFurther, u + 1 \in Nat
  <2>2. /\ Window(b, p + 1, u + 1) = 2 * short + b[((p + 1) + u) % n]
        /\ short \in Words(u)
    BY <1>1, WindowFurther
  <2>9. (p + 1) + u = p + (u + 1)
    OBVIOUS
  <2>3. short \in Int
    BY <2>2 DEF Words
  <2>4. Add(u + 1) = 2 * Add(u) /\ Add(u) \in Int
    BY PowersOfTwo
  <2>5. long = short + Add(u)
    BY <1>3
  <2>6. Window(b, p + 1, u + 1) = 2 * short + bit
    BY <2>2, <2>9
  <2> HIDE DEF bit, long, short, Add
  <2>7. Window(b, p, (u + 1) + 1) = Window(b, p + 1, u + 1) + Add(u + 1)
    BY <2>1, <2>3, <2>4, <2>5, <2>6
  <2> QED
    BY <2>7
<1> HIDE DEF T
<1>4. Nat \subseteq T
  BY <1>2, <1>3, InductionOnNat
<1> QED
  BY <1>4 DEF T

\* The position after p, on the circle.
After(p) == IF p + 1 = n THEN 0 ELSE p + 1

\* Positions that are a whole turn apart are the same.
LEMMA WholeTurn == \A p \in Nat : (p + n) % n = p % n
<1> SUFFICES ASSUME NEW p \in Nat PROVE (p + n) % n = p % n
  OBVIOUS
<1>1. n \in Nat /\ n >= 1
  BY ConstantsFit
<1> DEFINE d == n
           q == p \div d
           r == p % d
<1>2. d \in Nat /\ d >= 1
  BY <1>1
<1> HIDE DEF d
<1>3. q \in Nat /\ r \in 0..(d - 1) /\ p = d * q + r
  BY <1>2
<1> HIDE DEF q, r
<1>4. d * (q + 1) = d * q + d /\ d * q \in Int
  BY <1>2, <1>3
<1>5. p + d = d * (q + 1) + r
  BY <1>2, <1>3, <1>4
<1>6. (p + d) % d = r
  BY <1>2, <1>3, <1>5
<1> QED
  BY <1>6 DEF d, r

\* A window that starts a whole turn later is the same.
LEMMA WindowTurn ==
  ASSUME NEW b, IsSequence(b), NEW w \in Nat
  PROVE  \A p \in 0..(n - 1) : Window(b, p + 1, w) = Window(b, After(p), w)
<1>0. n \in Nat /\ n >= 1
  BY ConstantsFit
<1> DEFINE T == {u \in Nat : Window(b, n, u) = Window(b, 0, u)}
<1>1. 0 \in T
  <2>1. Window(b, n, 0) = 0 /\ Window(b, 0, 0) = 0
    BY <1>0, EmptyWindow, 0 \in Nat
  <2> QED
    BY <2>1
<1>2. ASSUME NEW u \in Nat, u \in T PROVE u + 1 \in T
  <2>1. Window(b, n, u + 1) = 2 * Window(b, n, u) + b[(n + u) % n]
    BY <1>0, WindowFurther
  <2>2. Window(b, 0, u + 1) = 2 * Window(b, 0, u) + b[(0 + u) % n]
    BY WindowFurther, 0 \in Nat
  <2>8. (u + n) % n = u % n
    BY WholeTurn
  <2>3. (u + n) % n = u % n /\ u + n = n + u /\ 0 + u = u
    BY <1>0, <2>8
  <2>4. Window(b, n, u) = Window(b, 0, u)
    BY <1>2
  <2>5. (n + u) % n = (0 + u) % n
    BY <2>3
  <2>6. Window(b, n, u + 1) = Window(b, 0, u + 1)
    BY <2>1, <2>2, <2>4, <2>5, Zenon
  <2> QED
    BY <2>6
<1> HIDE DEF T
<1>3. Nat \subseteq T
  BY <1>1, <1>2, InductionOnNat
<1>4. Window(b, n, w) = Window(b, 0, w)
  BY <1>3 DEF T
<1> QED
  BY <1>4, Zenon DEF After

\* After goes once round the circle.
LEMMA AfterIsBijection ==
  [p \in 0..(n - 1) |-> After(p)] \in Bijection(0..(n - 1), 0..(n - 1))
<1> DEFINE P == 0..(n - 1)
           f == [p \in P |-> After(p)]
<1>1. n \in Nat /\ n >= 1
  BY ConstantsFit
<1>2. \A p \in P : After(p) \in P
  BY <1>1 DEF After
<1>3. \A p, q \in P : After(p) = After(q) => p = q
  BY <1>1 DEF After
<1>4. \A q \in P : \E p \in P : After(p) = q
  <2> TAKE q \in P
  <2>1. CASE q = 0
    <3>1. n - 1 \in P /\ After(n - 1) = 0
      BY <1>1 DEF After
    <3> QED
      BY <2>1, <3>1
  <2>2. CASE q # 0
    <3>1. q - 1 \in P /\ After(q - 1) = q
      BY <1>1, <2>2 DEF After
    <3> QED
      BY <3>1
  <2> QED
    BY <2>1, <2>2
<1>5. f \in [P -> P] /\ \A p \in P : f[p] = After(p)
  BY <1>2
<1> HIDE DEF P, f
<1>6. f \in Injection(P, P)
  BY <1>3, <1>5 DEF Injection, IsInjective
<1>7. f \in Surjection(P, P)
  BY <1>4, <1>5 DEF Surjection
<1>8. f \in Bijection(P, P)
  BY <1>6, <1>7 DEF Bijection
<1> QED
  BY <1>8 DEF f, P

\* How many positions are in T does not change when all move on by one.
LEMMA Rotated ==
  ASSUME NEW S \in SUBSET (0..(n - 1)), NEW T \in SUBSET (0..(n - 1)),
         \A p \in 0..(n - 1) : p \in S <=> After(p) \in T
  PROVE  Cardinality(S) = Cardinality(T)
<1> DEFINE P == 0..(n - 1)
           f == [p \in P |-> After(p)]
           g == [p \in S |-> f[p]]
<1>0. n \in Nat
  BY ConstantsFit
<1>1. IsFiniteSet(P)
  BY <1>0, FS_Interval, 0 \in Int, n - 1 \in Int
<1>2. IsFiniteSet(S)
  BY <1>1, FS_Subset
<1>3. f \in Bijection(P, P) /\ \A p \in P : f[p] = After(p)
  BY AfterIsBijection
<1> HIDE DEF P, f
<1>4. /\ f \in [P -> P]
      /\ \A p, q \in P : f[p] = f[q] => p = q
      /\ \A q \in P : \E p \in P : f[p] = q
  BY <1>3 DEF Bijection, Injection, IsInjective, Surjection
<1>5. S \subseteq P /\ T \subseteq P /\ \A p \in P : p \in S <=> f[p] \in T
  BY <1>3 DEF P
<1>6. \A p \in S : g[p] = f[p]
  OBVIOUS
<1>7. g \in [S -> T]
  BY <1>5
<1> HIDE DEF g
<1>8. g \in Injection(S, T)
  BY <1>4, <1>5, <1>6, <1>7 DEF Injection, IsInjective
<1>9. g \in Surjection(S, T)
  <2>1. \A q \in T : \E p \in S : g[p] = q
    BY <1>4, <1>5, <1>6
  <2> QED
    BY <1>7, <2>1 DEF Surjection
<1>10. g \in Bijection(S, T)
  BY <1>8, <1>9 DEF Bijection
<1> QED
  BY <1>2, <1>10, FS_Bijection DEF ExistsBijection
-----------------------------------------------------------------------------
\* How many windows of w bits read x.
Freq(b, w, x) == Cardinality({p \in 0..(n - 1) : Window(b, p, w) = x})

\* Positions that fall into two classes are counted class by class.
LEMMA InTwoClasses ==
  ASSUME NEW S \in SUBSET (0..(n - 1)), NEW T \in SUBSET (0..(n - 1)), S \cap T = {}
  PROVE  /\ Cardinality(S) \in 0..n
         /\ Cardinality(S \cup T) = Cardinality(S) + Cardinality(T)
<1>0. n \in Nat
  BY ConstantsFit
<1>1. /\ IsFiniteSet(S) /\ Cardinality(S) \in 0..n
      /\ IsFiniteSet(T) /\ Cardinality(T) \in 0..n
  <2>1. \A U \in SUBSET (0..(n - 1)) : IsFiniteSet(U) /\ Cardinality(U) \in 0..n
    <3> TAKE U \in SUBSET (0..(n - 1))
    <3>1. U \in SUBSET (0..(0 + n - 1))
      BY <1>0
    <3> QED
      BY <1>0, <3>1, CountInside, 0 \in Int
  <2> QED
    BY <2>1
<1>2. Cardinality(S \cap T) = 0
  BY FS_EmptySet
<1>3. Cardinality(S \cup T) = Cardinality(S) + Cardinality(T) - Cardinality(S \cap T)
  BY <1>1, FS_Union
<1>4. \A x, y \in 0..n : x + y - 0 = x + y
  OBVIOUS
<1> QED
  BY <1>1, <1>2, <1>3, <1>4

\* A count is a number of positions.
LEMMA FreqType == \A b, w, x : Freq(b, w, x) \in 0..n
<1> SUFFICES ASSUME NEW b, NEW w, NEW x PROVE Freq(b, w, x) \in 0..n
  OBVIOUS
<1>1. {p \in 0..(n - 1) : Window(b, p, w) = x} \in SUBSET (0..(n - 1))
  OBVIOUS
<1>2. {} \in SUBSET (0..(n - 1)) /\ {p \in 0..(n - 1) : Window(b, p, w) = x} \cap {} = {}
  OBVIOUS
<1> QED
  BY <1>1, <1>2, InTwoClasses, Zenon DEF Freq

\* The leaves of the table hold these counts.
LEMMA TableHolds ==
  ASSUME NEW b, IsSequence(b), NEW w \in Nat, NEW x \in Words(w)
  PROVE  /\ 2 ^ w - 1 + x \in Leaves(w)
         /\ TableOf(b, w)[2 ^ w - 1 + x] = Freq(b, w, x)
<1> DEFINE N == 2 ^ w
           N2 == 2 ^ (w + 1)
           P == 0..(n - 1)
<1>1. N \in Nat /\ N >= 1 /\ N2 = 2 * N
  BY PowersOfTwo
<1>2. x \in Nat /\ x \in 0..(N - 1)
  BY <1>1 DEF Words
<1>3. N - 1 + x \in 0..(N2 - 2) /\ N - 1 + x \in (N - 1)..(N2 - 2)
  <2> HIDE DEF N, N2
  <2> QED
    BY <1>1, <1>2
<1>4. \A p \in P : NodeOf(b, p, w) \in Int
  <2>1. n \in Nat
    BY ConstantsFit
  <2>2. \A p \in P : p \in Nat
    BY <2>1
  <2> QED
    BY <2>2, NodeFurther
<1>5. \A p \in P : NodeOf(b, p, w) - 1 = N - 1 + x <=> Window(b, p, w) = x
  <2>1. \A k \in Int : k - 1 = N - 1 + x <=> k - N = x
    <3> HIDE DEF N
    <3> QED
      BY <1>1, <1>2
  <2> QED
    BY <1>4, <2>1 DEF Window
<1>6. {p \in P : [q \in P |-> NodeOf(b, q, w)][p] - 1 = N - 1 + x}
        = {p \in P : Window(b, p, w) = x}
  BY <1>5
<1>7. TableOf(b, w)[N - 1 + x]
        = Cardinality({p \in P : [q \in P |-> NodeOf(b, q, w)][p] - 1 = N - 1 + x})
  BY <1>3, Zenon DEF TableOf
<1>8. Cardinality({p \in P : [q \in P |-> NodeOf(b, q, w)][p] - 1 = N - 1 + x})
        = Freq(b, w, x)
  BY <1>6, Zenon DEF Freq
<1> QED
  BY <1>3, <1>7, <1>8, Zenon DEF Leaves

\* The words of one bit more, by their last or their first bit.
LEMMA LongerWords ==
  ASSUME NEW w \in Nat, NEW x \in Words(w)
  PROVE  /\ x \in Int /\ 2 ^ w \in Int
         /\ 2 * x \in Words(w + 1) /\ 2 * x + 1 \in Words(w + 1)
         /\ x \in Words(w + 1) /\ x + 2 ^ w \in Words(w + 1)
<1>1. 2 ^ w \in Nat /\ 2 ^ (w + 1) = 2 * 2 ^ w
  BY PowersOfTwo
<1>2. x \in 0..(2 ^ w - 1)
  BY DEF Words
<1> QED
  BY <1>1, <1>2 DEF Words

\* Every window goes on with a 0 or a 1.
LEMMA FreqByLastBit ==
  ASSUME NEW b, IsSequence(b), NEW w \in Nat, NEW x \in Words(w)
  PROVE  Freq(b, w, x) = Freq(b, w + 1, 2 * x) + Freq(b, w + 1, 2 * x + 1)
<1> DEFINE P == 0..(n - 1)
           U == {p \in P : Window(b, p, w) = x}
           S == {p \in P : Window(b, p, w + 1) = 2 * x}
           T == {p \in P : Window(b, p, w + 1) = 2 * x + 1}
<1>1. ASSUME NEW p \in P
      PROVE  /\ Window(b, p, w) = x <=> Window(b, p, w + 1) \in {2 * x, 2 * x + 1}
             /\ 2 * x # 2 * x + 1
  <2>1. p \in Nat
    BY ConstantsFit
  <2>2. /\ Window(b, p, w) \in Words(w)
        /\ Window(b, p, w + 1) = 2 * Window(b, p, w) + b[(p + w) % n]
        /\ b[(p + w) % n] \in 0..1
    BY <2>1, WindowFurther
  <2>3. Window(b, p, w) \in Int /\ x \in Int
    BY <2>2, LongerWords
  <2>4. \A y, z \in Int : \A bit \in 0..1 : /\ y = z <=> 2 * y + bit \in {2 * z, 2 * z + 1}
                                           /\ 2 * z # 2 * z + 1
    OBVIOUS
  <2> QED
    BY <2>2, <2>3, <2>4
<1>2. S \in SUBSET P /\ T \in SUBSET P /\ S \cap T = {} /\ S \cup T = U
  BY <1>1
<1>3. Cardinality(U) = Cardinality(S) + Cardinality(T)
  <2> HIDE DEF S, T, U
  <2> QED
    BY <1>2, InTwoClasses
<1> QED
  BY <1>3, Zenon DEF Freq

\* Every window has a 0 or a 1 before it.
LEMMA FreqByFirstBit ==
  ASSUME NEW b, IsSequence(b), NEW w \in Nat, NEW x \in Words(w)
  PROVE  Freq(b, w, x) = Freq(b, w + 1, x) + Freq(b, w + 1, x + 2 ^ w)
<1> DEFINE P == 0..(n - 1)
           N == 2 ^ w
           U == {p \in P : Window(b, p, w) = x}
           S == {p \in P : Window(b, p, w + 1) = x}
           T == {p \in P : Window(b, p, w + 1) = x + N}
<1>0. x \in 0..(N - 1) /\ N \in Nat /\ N >= 1
  BY PowersOfTwo DEF Words
<1>1. ASSUME NEW p \in P
      PROVE  /\ After(p) \in U <=> Window(b, p, w + 1) \in {x, x + N}
             /\ x # x + N
  <2>0. n \in Nat
    BY ConstantsFit
  <2>1. p \in Nat /\ p + 1 \in Nat /\ After(p) \in P
    BY <2>0 DEF After
  <2>2. Window(b, p, w + 1) = Window(b, p + 1, w) + (IF b[p % n] = 1 THEN N ELSE 0)
    BY <2>1, WindowEarlier
  <2>3. Window(b, p + 1, w) \in Words(w)
    BY <2>1, WindowFurther
  <2>4. Window(b, p + 1, w) \in 0..(N - 1)
    BY <2>3 DEF Words
  <2>5. Window(b, p + 1, w) = Window(b, After(p), w)
    BY WindowTurn
  <2> HIDE DEF N
  <2>6. \A y, z \in 0..(N - 1) : /\ y + N \in {z, z + N} <=> y = z
                                 /\ y + 0 \in {z, z + N} <=> y = z
                                 /\ z # z + N
    BY <1>0
  <2>7. /\ Window(b, p + 1, w) + N \in {x, x + N} <=> Window(b, p + 1, w) = x
        /\ Window(b, p + 1, w) + 0 \in {x, x + N} <=> Window(b, p + 1, w) = x
        /\ x # x + N
    BY <1>0, <2>4, <2>6
  <2>8. Window(b, p, w + 1) \in {x, x + N} <=> Window(b, p + 1, w) = x
    BY <2>2, <2>7
  <2> QED
    BY <2>1, <2>5, <2>7, <2>8
<1>2. /\ S \in SUBSET P /\ T \in SUBSET P /\ U \in SUBSET P /\ S \cap T = {}
      /\ \A p \in P : p \in S \cup T <=> After(p) \in U
  BY <1>1
<1>3. Cardinality(S \cup T) = Cardinality(U)
  <2> HIDE DEF S, T, U
  <2>1. S \cup T \in SUBSET P
    BY <1>2
  <2> QED
    BY <1>2, <2>1, Rotated, Zenon
<1>4. Cardinality(S \cup T) = Cardinality(S) + Cardinality(T)
  <2> HIDE DEF S, T, U
  <2> QED
    BY <1>2, InTwoClasses
<1> QED
  BY <1>3, <1>4, Zenon DEF Freq

\* The windows of any length are as many as the positions.
LEMMA FreqSum ==
  ASSUME NEW b, IsSequence(b), NEW w \in Nat
  PROVE  SumFunctionOnSet([x \in Words(w) |-> Freq(b, w, x)], Words(w)) = n
<1> DEFINE P == 0..(n - 1)
           W == Words(w)
           g == [p \in P |-> Window(b, p, w)]
<1>1. n \in Nat /\ 2 ^ w \in Nat
  BY ConstantsFit, PowersOfTwo
<1>2. IsFiniteSet(P) /\ Cardinality(P) = n
  <2>1. 0 \in Int /\ n - 1 \in Int /\ (0 > n - 1 => n = 0) /\ (n - 1) - 0 + 1 = n
    BY <1>1
  <2> QED
    BY <2>1, FS_Interval
<1>3. IsFiniteSet(W)
  BY <1>1, FS_Interval, 0 \in Int, 2 ^ w - 1 \in Int DEF Words
<1>4. g \in [P -> W]
  <2>1. \A p \in P : Window(b, p, w) \in W
    <3>1. \A p \in P : p \in Nat
      BY <1>1
    <3> QED
      BY <3>1, WindowFurther
  <2> QED
    BY <2>1
<1>5. \A x : {p \in P : g[p] = x} = {p \in P : Window(b, p, w) = x}
  OBVIOUS
<1>6. [x \in W |-> Cardinality({p \in P : g[p] = x})] = [x \in W |-> Freq(b, w, x)]
  <2>1. \A x : Cardinality({p \in P : g[p] = x}) = Freq(b, w, x)
    BY <1>5, Zenon DEF Freq
  <2> HIDE DEF g
  <2> QED
    BY <2>1
<1> HIDE DEF g, P, W
<1>7. SumFunctionOnSet([x \in W |-> Cardinality({p \in P : g[p] = x})], W) = Cardinality(P)
  BY <1>2, <1>3, <1>4, CountsAddUp
<1>8. SumFunctionOnSet([x \in W |-> Freq(b, w, x)], W) = n
  BY <1>2, <1>6, <1>7, Zenon
<1> QED
  BY <1>8 DEF W

\* The number of ones of the sequence.
OnesOf(b) == Cardinality({p \in 0..(n - 1) : b[p] = 1})

\* The next position is the one after, on the circle.
LEMMA AfterIsNext ==
  ASSUME NEW p \in 0..(n - 1), NEW s \in Nat
  PROVE  (After(p) + s) % n = (p + (s + 1)) % n /\ After(p) \in 0..(n - 1)
<1>1. n \in Nat /\ n >= 1
  BY ConstantsFit
<1>2. CASE p + 1 = n
  <2>1. (s + n) % n = s % n
    BY WholeTurn
  <2>2. After(p) = 0 /\ After(p) + s = s /\ p + (s + 1) = s + n /\ 0 \in 0..(n - 1)
    BY <1>1, <1>2 DEF After
  <2> QED
    BY <2>1, <2>2, Zenon
<1>3. CASE p + 1 # n
  <2>1. After(p) = p + 1 /\ (p + 1) + s = p + (s + 1) /\ p + 1 \in 0..(n - 1)
    BY <1>1, <1>3 DEF After
  <2> QED
    BY <2>1, Zenon
<1> QED
  BY <1>2, <1>3

\* A whole turn of the sequence keeps its ones, whatever the start.
LEMMA OnesTurned ==
  ASSUME NEW b, IsSequence(b), NEW s \in Nat
  PROVE  Cardinality({p \in 0..(n - 1) : b[(p + s) % n] = 1}) = OnesOf(b)
<1> DEFINE P == 0..(n - 1)
           R(u) == {p \in P : b[(p + u) % n] = 1}
           T == {u \in Nat : Cardinality(R(u)) = OnesOf(b)}
<1>0. n \in Nat /\ n >= 1
  BY ConstantsFit
<1>1. 0 \in T
  <2>1. \A p \in P : (p + 0) % n = p
    BY <1>0
  <2>2. R(0) = {p \in P : b[p] = 1}
    BY <2>1
  <2> QED
    BY <2>2, Zenon DEF OnesOf
<1>2. ASSUME NEW u \in Nat, u \in T PROVE u + 1 \in T
  <2>1. \A p \in P : p \in R(u + 1) <=> After(p) \in R(u)
    <3>1. \A p \in P : (After(p) + u) % n = (p + (u + 1)) % n /\ After(p) \in P
      BY AfterIsNext
    <3> QED
      BY <3>1, Zenon
  <2>2. R(u + 1) \in SUBSET P /\ R(u) \in SUBSET P
    OBVIOUS
  <2>3. Cardinality(R(u + 1)) = Cardinality(R(u))
    <3> HIDE DEF R
    <3> QED
      BY <2>1, <2>2, Rotated
  <2>4. Cardinality(R(u)) = OnesOf(b)
    BY <1>2
  <2> HIDE DEF R
  <2> QED
    BY <2>3, <2>4
<1> HIDE DEF T
<1>3. Nat \subseteq T
  BY <1>1, <1>2, InductionOnNat
<1>4. Cardinality(R(s)) = OnesOf(b)
  BY <1>3 DEF T
<1> QED
  BY <1>4

\* The windows that end in 1 are as many as the ones.
LEMMA FreqOfOnes ==
  ASSUME NEW b, IsSequence(b), NEW w \in Nat
  PROVE  SumFunctionOnSet([x \in Words(w) |-> Freq(b, w + 1, 2 * x + 1)], Words(w))
           = OnesOf(b)
<1> DEFINE P == 0..(n - 1)
           S == {p \in P : b[(p + w) % n] = 1}
           W == Words(w)
           g == [p \in S |-> Window(b, p, w)]
<1>1. n \in Nat /\ 2 ^ w \in Nat
  BY ConstantsFit, PowersOfTwo
<1>2. IsFiniteSet(P) /\ S \subseteq P
  BY <1>1, FS_Interval, 0 \in Int, n - 1 \in Int
<1>3. IsFiniteSet(W) /\ IsFiniteSet(S)
  <2>1. IsFiniteSet(W)
    BY <1>1, FS_Interval, 0 \in Int, 2 ^ w - 1 \in Int DEF Words
  <2> HIDE DEF P, S
  <2> QED
    BY <1>2, <2>1, FS_Subset
<1>4. \A p \in P : /\ Window(b, p, w) \in W
                   /\ Window(b, p, w + 1) = 2 * Window(b, p, w) + b[(p + w) % n]
                   /\ b[(p + w) % n] \in 0..1
  <2>1. \A p \in P : p \in Nat
    BY <1>1
  <2> QED
    BY <2>1, WindowFurther
<1>5. g \in [S -> W]
  BY <1>4
<1>6. ASSUME NEW x \in W
      PROVE  {p \in S : g[p] = x} = {p \in P : Window(b, p, w + 1) = 2 * x + 1}
  <2>1. x \in Int
    BY LongerWords
  <2>2. \A y, z \in Int : \A bit \in 0..1 : 2 * y + bit = 2 * z + 1 <=> y = z /\ bit = 1
    OBVIOUS
  <2>3. \A p \in P : Window(b, p, w) \in Int
    BY <1>4, LongerWords
  <2>4. \A p \in P : Window(b, p, w + 1) = 2 * x + 1
                       <=> Window(b, p, w) = x /\ b[(p + w) % n] = 1
    BY <1>4, <2>1, <2>2, <2>3
  <2>5. \A p \in S : g[p] = Window(b, p, w)
    OBVIOUS
  <2> HIDE DEF g
  <2> QED
    BY <2>4, <2>5
<1>7. [x \in W |-> Cardinality({p \in S : g[p] = x})]
        = [x \in W |-> Freq(b, w + 1, 2 * x + 1)]
  <2>1. \A x \in W : Cardinality({p \in S : g[p] = x}) = Freq(b, w + 1, 2 * x + 1)
    BY <1>6, Zenon DEF Freq
  <2> HIDE DEF g, S, W
  <2> QED
    BY <2>1
<1>8. Cardinality(S) = OnesOf(b)
  BY OnesTurned
<1> HIDE DEF g, S, W
<1>9. SumFunctionOnSet([x \in W |-> Cardinality({p \in S : g[p] = x})], W) = Cardinality(S)
  BY <1>3, <1>5, CountsAddUp
<1>10. SumFunctionOnSet([x \in W |-> Freq(b, w + 1, 2 * x + 1)], W) = OnesOf(b)
  BY <1>7, <1>8, <1>9, Zenon
<1> QED
  BY <1>10 DEF W

\* The changes from one bit to the next, without the one from the end to the
\* start.
ChangesOf(b, upto) == Cardinality({p \in 1..(upto - 1) : b[p] # b[p - 1]})

\* Two bits that differ are read as 1 or 2.
LEMMA FreqOfChanges ==
  ASSUME NEW b, IsSequence(b)
  PROVE  Freq(b, 2, 1) + Freq(b, 2, 2)
           = ChangesOf(b, n) + (IF b[0] = b[n - 1] THEN 0 ELSE 1)
<1> DEFINE P == 0..(n - 1)
           S1 == {p \in P : Window(b, p, 2) = 1}
           S2 == {p \in P : Window(b, p, 2) = 2}
           T == {p \in P : IF p = 0 THEN b[n - 1] # b[0] ELSE b[p - 1] # b[p]}
           I == {p \in 1..(n - 1) : b[p] # b[p - 1]}
           Z == IF b[0] = b[n - 1] THEN {} ELSE {0}
<1>1. n \in Nat /\ n >= 1
  BY ConstantsFit
<1>2. ASSUME NEW p \in P PROVE Window(b, p, 2) \in {1, 2} <=> b[p] # b[After(p)]
  <2>1. p \in Nat /\ p % n = p
    BY <1>1
  <2>2. Window(b, p, 0) = 0
    BY <2>1, EmptyWindow
  <2>3. Window(b, p, 0 + 1) = 2 * Window(b, p, 0) + b[(p + 0) % n] /\ b[(p + 0) % n] \in 0..1
    BY <2>1, WindowFurther, 0 \in Nat
  <2>4. Window(b, p, 1 + 1) = 2 * Window(b, p, 1) + b[(p + 1) % n] /\ b[(p + 1) % n] \in 0..1
    BY <2>1, WindowFurther, 1 \in Nat
  <2>5. (After(p) + 0) % n = (p + (0 + 1)) % n /\ After(p) \in P
    BY AfterIsNext, 0 \in Nat
  <2>6. p + 0 = p /\ (p + 1) % n = After(p)
    <3>1. \A q \in P : (q + 0) % n = q
      BY <1>1
    <3>2. (After(p) + 0) % n = After(p)
      BY <2>5, <3>1, Zenon
    <3>3. p + (0 + 1) = p + 1
      BY <2>1
    <3> QED
      BY <2>1, <2>5, <3>2, <3>3
  <2>7. Window(b, p, 2) = 2 * b[p] + b[After(p)] /\ b[p] \in 0..1 /\ b[After(p)] \in 0..1
    BY <2>1, <2>2, <2>3, <2>4, <2>6
  <2> QED
    BY <2>7
<1>3. S1 \in SUBSET P /\ S2 \in SUBSET P /\ T \in SUBSET P /\ S1 \cap S2 = {}
  OBVIOUS
<1>4. \A p \in P : p \in S1 \cup S2 <=> After(p) \in T
  <2> TAKE p \in P
  <2>1. p \in S1 \cup S2 <=> b[p] # b[After(p)]
    BY <1>2
  <2>2. After(p) \in P
    BY AfterIsNext, 0 \in Nat
  <2>3. CASE p + 1 = n
    <3>1. After(p) = 0 /\ p = n - 1
      BY <1>1, <2>3 DEF After
    <3> QED
      BY <2>1, <2>2, <3>1
  <2>4. CASE p + 1 # n
    <3>1. After(p) = p + 1 /\ p + 1 # 0 /\ (p + 1) - 1 = p
      BY <1>1, <2>4 DEF After
    <3> QED
      BY <2>1, <2>2, <3>1
  <2> QED
    BY <2>3, <2>4
<1>5. Cardinality(S1 \cup S2) = Cardinality(T)
  <2> HIDE DEF S1, S2, T
  <2>1. S1 \cup S2 \in SUBSET P
    BY <1>3
  <2> QED
    BY <1>3, <1>4, <2>1, Rotated
<1>6. Cardinality(S1 \cup S2) = Cardinality(S1) + Cardinality(S2)
  <2> HIDE DEF S1, S2
  <2> QED
    BY <1>3, InTwoClasses
<1>7. I \in SUBSET P /\ Z \in SUBSET P /\ I \cap Z = {} /\ T = I \cup Z
  <2>1. I \in SUBSET P /\ Z \in SUBSET P /\ I \cap Z = {}
    BY <1>1
  <2>2. \A p : p \in T <=> p \in I \cup Z
    BY <1>1
  <2> HIDE DEF T, I, Z
  <2> QED
    BY <2>1, <2>2
<1>8. Cardinality(T) = Cardinality(I) + Cardinality(Z)
  <2> HIDE DEF T, I, Z
  <2> QED
    BY <1>7, InTwoClasses
<1>9. Cardinality(Z) = IF b[0] = b[n - 1] THEN 0 ELSE 1
  BY FS_EmptySet, FS_Singleton
<1>10. Freq(b, 2, 1) = Cardinality(S1) /\ Freq(b, 2, 2) = Cardinality(S2)
       /\ ChangesOf(b, n) = Cardinality(I)
  BY Zenon DEF Freq, ChangesOf
<1> HIDE DEF S1, S2, T, I, Z
<1> QED
  BY <1>5, <1>6, <1>8, <1>9, <1>10, Zenon
-----------------------------------------------------------------------------
\* Sums of squares: the psi values and their differences.

\* The square of a sum is at most twice the sum of the squares.
LEMMA SquareOfSums ==
  ASSUME NEW T, IsFiniteSet(T),
         NEW g, \A x \in T : g[x] \in Int, NEW h, \A x \in T : h[x] \in Int
  PROVE  SumFunctionOnSet([x \in T |-> (g[x] + h[x]) * (g[x] + h[x])], T)
           <= 2 * SumFunctionOnSet([x \in T |-> g[x] * g[x] + h[x] * h[x]], T)
<1> DEFINE A == [x \in T |-> (g[x] + h[x]) * (g[x] + h[x])]
           B == [x \in T |-> g[x] * g[x] + h[x] * h[x]]
           D == [x \in T |-> 2 * B[x] + (-1) * A[x]]
           SA == SumFunctionOnSet(A, T)
           SB == SumFunctionOnSet(B, T)
           SD == SumFunctionOnSet(D, T)
<1>1. \A u, v \in Int : /\ (u + v) * (u + v) \in Int /\ u * u + v * v \in Int
                        /\ 2 * (u * u + v * v) + (-1) * ((u + v) * (u + v)) = (u - v) * (u - v)
                        /\ u - v \in Int
  OBVIOUS
<1>2. \A u \in Int : u * u >= 0 /\ u * u \in Int
  OBVIOUS
<1>3. \A x \in T : A[x] \in Int /\ B[x] \in Int
  BY <1>1
<1>4. \A x \in T : D[x] \in Int /\ D[x] >= 0
  <2> TAKE x \in T
  <2>1. D[x] = 2 * (g[x] * g[x] + h[x] * h[x]) + (-1) * ((g[x] + h[x]) * (g[x] + h[x]))
    OBVIOUS
  <2>2. D[x] = (g[x] - h[x]) * (g[x] - h[x]) /\ g[x] - h[x] \in Int
    BY <1>1, <2>1
  <2> HIDE DEF D
  <2>3. (g[x] - h[x]) * (g[x] - h[x]) >= 0 /\ (g[x] - h[x]) * (g[x] - h[x]) \in Int
    BY <1>2, <2>2
  <2> QED
    BY <2>2, <2>3
<1>5. \A x \in T : D[x] = 2 * B[x] + (-1) * A[x]
  OBVIOUS
<1> HIDE DEF A, B, D
<1>6. SD = 2 * SB + (-1) * SA
  BY <1>3, <1>5, SumLinear, 2 \in Int, -1 \in Int
<1>7. SD >= 0 /\ SA \in Int /\ SB \in Int
  BY <1>3, <1>4, SumNatural, SumType
<1>8. SA <= 2 * SB
  <2> HIDE DEF SA, SB, SD
  <2> QED
    BY <1>6, <1>7
<1> QED
  BY <1>8 DEF A, B

Squares(b, w) == SumFunctionOnSet([x \in Words(w) |-> Freq(b, w, x) * Freq(b, w, x)],
                                  Words(w))

\* By how much more often x is followed by 0 than by 1.
Excess(b, w, x) == Freq(b, w + 1, 2 * x) - Freq(b, w + 1, 2 * x + 1)

SquaredExcess(b, w) ==
    SumFunctionOnSet([x \in Words(w) |-> Excess(b, w, x) * Excess(b, w, x)], Words(w))

\* All of these are integers.
LEMMA SumsAreIntegers ==
  ASSUME NEW b, NEW w \in Nat
  PROVE  /\ IsFiniteSet(Words(w)) /\ Words(w) = 0..(2 ^ w - 1) /\ 2 ^ w \in Nat
         /\ \A x : Freq(b, w, x) \in Int /\ Excess(b, w, x) \in Int
         /\ \A x : /\ Freq(b, w, x) * Freq(b, w, x) \in Int
                   /\ Excess(b, w, x) * Excess(b, w, x) \in Int
         /\ Squares(b, w) \in Int /\ SquaredExcess(b, w) \in Int /\ SquaredExcess(b, w) >= 0
<1> DEFINE W == Words(w)
           f == [x \in W |-> Freq(b, w, x) * Freq(b, w, x)]
           g == [x \in W |-> Excess(b, w, x) * Excess(b, w, x)]
<1>1. W = 0..(2 ^ w - 1) /\ 2 ^ w \in Nat
  BY PowersOfTwo DEF Words
<1>2. IsFiniteSet(W)
  BY <1>1, FS_Interval, 0 \in Int, 2 ^ w - 1 \in Int
<1>3. \A v, x : Freq(b, v, x) \in Int
  <2>1. n \in Nat /\ \A y \in 0..n : y \in Int
    BY ConstantsFit
  <2> QED
    BY <2>1, FreqType, Zenon
<1>4. \A x : Excess(b, w, x) \in Int
  <2>1. \A y, z \in Int : y - z \in Int
    OBVIOUS
  <2> QED
    BY <1>3, <2>1, Zenon DEF Excess
<1>5. \A u \in Int : u * u \in Int /\ u * u >= 0
  OBVIOUS
<1>6. \A x : /\ Freq(b, w, x) * Freq(b, w, x) \in Int
             /\ Excess(b, w, x) * Excess(b, w, x) \in Int
             /\ Excess(b, w, x) * Excess(b, w, x) >= 0
  BY <1>3, <1>4, <1>5, Zenon
<1>7. \A x \in W : f[x] \in Int /\ g[x] \in Int /\ g[x] >= 0
  BY <1>6
<1> HIDE DEF f, g, W
<1>8. SumFunctionOnSet(f, W) \in Int
  BY <1>2, <1>7, SumType
<1>9. SumFunctionOnSet(g, W) \in Int /\ SumFunctionOnSet(g, W) >= 0
  BY <1>2, <1>7, SumNatural
<1>10. Squares(b, w) \in Int
  BY <1>8, Zenon DEF Squares, f, W
<1>11. SquaredExcess(b, w) \in Int /\ SquaredExcess(b, w) >= 0
  BY <1>9, Zenon DEF SquaredExcess, g, W
<1> QED
  BY <1>1, <1>2, <1>3, <1>4, <1>6, <1>10, <1>11, Zenon DEF W

\* Twice the squares of the longer words are those of the shorter ones and the
\* squares of the differences.
LEMMA SquaresOfLonger ==
  ASSUME NEW b, IsSequence(b), NEW w \in Nat
  PROVE  2 * Squares(b, w + 1) = Squares(b, w) + SquaredExcess(b, w)
<1> DEFINE W == Words(w)
           N == 2 ^ w
           f == [x \in Words(w + 1) |-> Freq(b, w + 1, x) * Freq(b, w + 1, x)]
           pairs == [x \in 0..(N - 1) |-> f[2 * x] + f[2 * x + 1]]
           one == [x \in W |-> Freq(b, w, x) * Freq(b, w, x)]
           two == [x \in W |-> Excess(b, w, x) * Excess(b, w, x)]
           both == [x \in W |-> 2 * pairs[x] + 0 * pairs[x]]
<1>1. /\ IsFiniteSet(W) /\ W = 0..(N - 1) /\ N \in Nat
      /\ Words(w + 1) = 0..(2 ^ (w + 1) - 1) /\ 2 ^ (w + 1) = 2 * N
  BY SumsAreIntegers, PowersOfTwo, w + 1 \in Nat
<1>2. Words(w + 1) = 0..(2 * N - 1)
  BY <1>1
<1>3. \A x \in 0..(2 * N - 1) : f[x] \in Int
  <2>1. \A x : Freq(b, w + 1, x) * Freq(b, w + 1, x) \in Int
    BY SumsAreIntegers, w + 1 \in Nat
  <2> HIDE DEF N
  <2> QED
    BY <1>2, <2>1
<1>4. ASSUME NEW x \in W
      PROVE  /\ pairs[x] = Freq(b, w + 1, 2 * x) * Freq(b, w + 1, 2 * x)
                             + Freq(b, w + 1, 2 * x + 1) * Freq(b, w + 1, 2 * x + 1)
             /\ pairs[x] \in Int
             /\ one[x] \in Int /\ two[x] \in Int
             /\ 2 * pairs[x] = one[x] + two[x]
  <2>1. 2 * x \in Words(w + 1) /\ 2 * x + 1 \in Words(w + 1)
    BY LongerWords
  <2>2. pairs[x] = f[2 * x] + f[2 * x + 1]
    BY <1>1
  <2>3. /\ f[2 * x] = Freq(b, w + 1, 2 * x) * Freq(b, w + 1, 2 * x)
        /\ f[2 * x + 1] = Freq(b, w + 1, 2 * x + 1) * Freq(b, w + 1, 2 * x + 1)
    BY <2>1
  <2> DEFINE u == Freq(b, w + 1, 2 * x)
             v == Freq(b, w + 1, 2 * x + 1)
             y == Freq(b, w, x)
             z == Excess(b, w, x)
  <2>4. u \in Int /\ v \in Int
    BY SumsAreIntegers, w + 1 \in Nat
  <2>5. y = u + v /\ z = u - v
    BY FreqByLastBit DEF Excess
  <2>6. one[x] = y * y /\ two[x] = z * z
    OBVIOUS
  <2>7. pairs[x] = u * u + v * v
    BY <2>2, <2>3
  <2> HIDE DEF u, v, y, z, one, two, pairs, f
  <2>8. \A s, t \in Int : /\ s * s + t * t \in Int
                          /\ (s + t) * (s + t) \in Int /\ (s - t) * (s - t) \in Int
                          /\ 2 * (s * s + t * t) = (s + t) * (s + t) + (s - t) * (s - t)
    OBVIOUS
  <2>9. /\ u * u + v * v \in Int /\ y * y \in Int /\ z * z \in Int
        /\ 2 * (u * u + v * v) = y * y + z * z
    BY <2>4, <2>5, <2>8, Zenon
  <2>10. /\ pairs[x] \in Int /\ one[x] \in Int /\ two[x] \in Int
         /\ 2 * pairs[x] = one[x] + two[x]
    BY <2>6, <2>7, <2>9, Zenon
  <2> QED
    BY <2>7, <2>10, Zenon DEF u, v
<1>5. Squares(b, w + 1) = SumFunctionOnSet(pairs, 0..(N - 1))
  <2>1. SumFunctionOnSet(f, 0..(2 * N - 1)) = SumFunctionOnSet(pairs, 0..(N - 1))
    <3> HIDE DEF N, f
    <3> QED
      BY <1>1, <1>3, SumByPairs
  <2> QED
    BY <1>2, <2>1, Zenon DEF Squares
<1>6. Squares(b, w) = SumFunctionOnSet(one, W) /\ SquaredExcess(b, w) = SumFunctionOnSet(two, W)
  BY Zenon DEF Squares, SquaredExcess
<1> HIDE DEF W, N, f, pairs, one, two
<1>11. \A x \in W : pairs[x] \in Int
  BY <1>4
<1>12. \A x \in W : one[x] \in Int
  BY <1>4
<1>13. \A x \in W : two[x] \in Int
  BY <1>4
<1>14. \A x \in W : both[x] = 2 * pairs[x] + 0 * pairs[x]
  OBVIOUS
<1>7. \A x \in W : both[x] = 1 * one[x] + 1 * two[x]
  <2> TAKE x \in W
  <2>1. both[x] = 2 * pairs[x] + 0 * pairs[x]
    BY <1>14
  <2>2. 2 * pairs[x] = one[x] + two[x]
    BY <1>4
  <2> HIDE DEF both
  <2>3. pairs[x] \in Int /\ one[x] \in Int /\ two[x] \in Int
    BY <1>11, <1>12, <1>13
  <2>4. \A p, y, z \in Int : 2 * p = y + z => 2 * p + 0 * p = 1 * y + 1 * z
    OBVIOUS
  <2> QED
    BY <2>1, <2>2, <2>3, <2>4, Zenon
<1> HIDE DEF both
<1>8. SumFunctionOnSet(both, W) = 1 * SumFunctionOnSet(one, W) + 1 * SumFunctionOnSet(two, W)
  BY <1>1, <1>7, <1>12, <1>13, SumLinear, 1 \in Int
<1>9. SumFunctionOnSet(both, W) = 2 * SumFunctionOnSet(pairs, W) + 0 * SumFunctionOnSet(pairs, W)
  BY <1>1, <1>11, <1>14, SumLinear, 2 \in Int, 0 \in Int
<1>10. /\ SumFunctionOnSet(one, W) \in Int /\ SumFunctionOnSet(two, W) \in Int
       /\ SumFunctionOnSet(pairs, W) \in Int
  BY <1>1, <1>11, <1>12, <1>13, SumType
<1> QED
  BY <1>1, <1>5, <1>6, <1>8, <1>9, <1>10

\* The excess of a word is that of the two words it ends.
LEMMA ExcessOfLonger ==
  ASSUME NEW b, IsSequence(b), NEW w \in Nat, NEW x \in Words(w)
  PROVE  Excess(b, w, x) = Excess(b, w + 1, x) + Excess(b, w + 1, x + 2 ^ w)
<1> DEFINE F(v) == Freq(b, (w + 1) + 1, v)
<1>1. /\ x \in Int /\ 2 ^ w \in Int /\ 2 ^ (w + 1) = 2 * 2 ^ w
      /\ 2 * x \in Words(w + 1) /\ 2 * x + 1 \in Words(w + 1)
  BY LongerWords, PowersOfTwo
<1>2. /\ Freq(b, w + 1, 2 * x) = F(2 * x) + F(2 * x + 2 ^ (w + 1))
      /\ Freq(b, w + 1, 2 * x + 1) = F(2 * x + 1) + F((2 * x + 1) + 2 ^ (w + 1))
  BY <1>1, FreqByFirstBit, w + 1 \in Nat
<1>3. /\ Excess(b, w + 1, x) = F(2 * x) - F(2 * x + 1)
      /\ Excess(b, w + 1, x + 2 ^ w) = F(2 * (x + 2 ^ w)) - F(2 * (x + 2 ^ w) + 1)
  BY Zenon DEF Excess
<1>4. 2 * (x + 2 ^ w) = 2 * x + 2 ^ (w + 1) /\ 2 * (x + 2 ^ w) + 1 = (2 * x + 1) + 2 ^ (w + 1)
  BY <1>1
<1>5. \A v : F(v) \in Int
  BY SumsAreIntegers, (w + 1) + 1 \in Nat
<1> HIDE DEF F
<1>6. Excess(b, w + 1, x + 2 ^ w) = F(2 * x + 2 ^ (w + 1)) - F((2 * x + 1) + 2 ^ (w + 1))
  BY <1>3, <1>4, Zenon
<1>7. \A p, q, r, s \in Int : (p + q) - (r + s) = (p - r) + (q - s)
  OBVIOUS
<1>8. Excess(b, w, x) = Freq(b, w + 1, 2 * x) - Freq(b, w + 1, 2 * x + 1)
  BY DEF Excess
<1> QED
  <2> DEFINE p == F(2 * x)
             q == F(2 * x + 2 ^ (w + 1))
             r == F(2 * x + 1)
             s == F((2 * x + 1) + 2 ^ (w + 1))
  <2>1. p \in Int /\ q \in Int /\ r \in Int /\ s \in Int
    BY <1>5
  <2>2. /\ Excess(b, w, x) = (p + q) - (r + s)
        /\ Excess(b, w + 1, x) = p - r /\ Excess(b, w + 1, x + 2 ^ w) = q - s
    BY <1>2, <1>3, <1>6, <1>8, Zenon
  <2> HIDE DEF p, q, r, s
  <2> QED
    BY <2>1, <2>2

\* With a bit more the squares of the excesses lose at most half.
LEMMA ExcessGrows ==
  ASSUME NEW b, IsSequence(b), NEW w \in Nat
  PROVE  SquaredExcess(b, w) <= 2 * SquaredExcess(b, w + 1)
<1> DEFINE W == Words(w)
           N == 2 ^ w
           f == [x \in Words(w + 1) |-> Excess(b, w + 1, x) * Excess(b, w + 1, x)]
           g == [x \in W |-> Excess(b, w + 1, x)]
           h == [x \in W |-> Excess(b, w + 1, x + N)]
           A == [x \in W |-> (g[x] + h[x]) * (g[x] + h[x])]
           B == [x \in W |-> g[x] * g[x] + h[x] * h[x]]
           halves == [y \in 0..(N - 1) |-> f[y] + f[N + y]]
<1>1. /\ IsFiniteSet(W) /\ W = 0..(N - 1) /\ N \in Nat
      /\ Words(w + 1) = 0..(2 ^ (w + 1) - 1) /\ 2 ^ (w + 1) = 2 * N
  BY SumsAreIntegers, PowersOfTwo, w + 1 \in Nat
<1>2. Words(w + 1) = 0..(2 * N - 1)
  BY <1>1
<1>3. \A x : Excess(b, w + 1, x) \in Int /\ Excess(b, w + 1, x) * Excess(b, w + 1, x) \in Int
  BY SumsAreIntegers, w + 1 \in Nat
<1>4. \A x \in 0..(2 * N - 1) : f[x] \in Int
  <2> HIDE DEF N
  <2> QED
    BY <1>2, <1>3
<1>5. A = [x \in W |-> Excess(b, w, x) * Excess(b, w, x)]
  <2>1. \A x \in W : g[x] + h[x] = Excess(b, w, x)
    BY ExcessOfLonger
  <2> HIDE DEF g, h, W
  <2> QED
    BY <2>1
<1>6. halves = B
  <2>1. ASSUME NEW x \in W PROVE f[x] + f[N + x] = g[x] * g[x] + h[x] * h[x]
    <3>1. x \in Words(w + 1) /\ x + N \in Words(w + 1) /\ N + x = x + N
      BY <1>1, LongerWords
    <3>2. f[x] = g[x] * g[x] /\ f[x + N] = h[x] * h[x]
      BY <3>1
    <3> HIDE DEF f, g, h, N
    <3> QED
      BY <3>1, <3>2
  <2> HIDE DEF f, g, h, N, W
  <2> QED
    BY <1>1, <2>1
<1>7. SquaredExcess(b, w + 1) = SumFunctionOnSet(halves, 0..(N - 1))
  <2>1. SumFunctionOnSet(f, 0..(2 * N - 1)) = SumFunctionOnSet(halves, 0..(N - 1))
    <3> HIDE DEF N, f
    <3> QED
      BY <1>1, <1>4, SumByHalves
  <2> QED
    BY <1>2, <2>1, Zenon DEF SquaredExcess
<1>8. SquaredExcess(b, w) = SumFunctionOnSet(A, W)
  BY <1>5, Zenon DEF SquaredExcess
<1>9. \A x \in W : g[x] \in Int
  BY <1>3
<1>10. \A x \in W : h[x] \in Int
  BY <1>3
<1>11. SumFunctionOnSet(A, W) <= 2 * SumFunctionOnSet(B, W)
  <2> HIDE DEF g, h, W
  <2> QED
    BY <1>1, <1>9, <1>10, SquareOfSums
<1> HIDE DEF A, B, halves, W, N
<1> QED
  BY <1>1, <1>6, <1>7, <1>8, <1>11, Zenon

\* What psi2 computes of the table, for words without bits too.
LEMMA PsiIs ==
  ASSUME NEW b, IsSequence(b), NEW w \in Nat
  PROVE  psi2(w, TableOf(b, w)) = 2 ^ w * Squares(b, w) - n * n
<1> DEFINE W == Words(w)
           N == 2 ^ w
           P == TableOf(b, w)
           F == [k \in Leaves(w) |-> P[k] * P[k]]
           f == [x \in W |-> Freq(b, w, x) * Freq(b, w, x)]
           s == [x \in 0..(N - 1) |-> F[(N - 1) + x]]
<1>0. n \in Nat /\ n * n \in Int
  BY ConstantsFit
<1>1. IsFiniteSet(W) /\ W = 0..(N - 1) /\ N \in Nat /\ N >= 1 /\ 2 ^ (w + 1) = 2 * N
  BY SumsAreIntegers, PowersOfTwo
<1>2. CASE w = 0
  <2>1. W = {0} /\ N = 1
    BY <1>1, <1>2, PowersOfTwo
  <2>2. SumFunctionOnSet([x \in W |-> Freq(b, w, x)], W) = n
    BY FreqSum
  <2>3. \A g : g[0] \in Int => SumFunctionOnSet(g, {0}) = g[0]
    <3> TAKE g
    <3> HAVE g[0] \in Int
    <3>1. IsFiniteSet({0}) /\ {0} \ {0} = {}
      BY FS_Singleton
    <3>2. SumFunctionOnSet(g, {0}) = g[0] + SumFunctionOnSet(g, {0} \ {0})
      BY <3>1, SumWithout
    <3>3. SumFunctionOnSet(g, {0} \ {0}) = 0
      BY <3>1, SumEmpty
    <3> QED
      BY <3>2, <3>3
  <2>4. Freq(b, w, 0) \in Int
    BY SumsAreIntegers
  <2>5. Freq(b, w, 0) = n
    BY <2>1, <2>2, <2>3, <2>4
  <2>6. f[0] = n * n /\ f[0] \in Int
    <3>1. f[0] = Freq(b, w, 0) * Freq(b, w, 0)
      BY <2>1
    <3> QED
      BY <1>0, <2>5, <3>1, Zenon
  <2>7. Squares(b, w) = f[0]
    <3>1. SumFunctionOnSet(f, {0}) = f[0]
      BY <2>3, <2>6
    <3> QED
      BY <2>1, <3>1, Zenon DEF Squares
  <2>8. psi2(w, P) = 0
    BY <1>2 DEF psi2
  <2>9. \A y \in Int : 1 * y - y = 0
    OBVIOUS
  <2> QED
    BY <1>0, <2>1, <2>6, <2>7, <2>8, <2>9, Zenon
<1>3. CASE w # 0
  <2>1. psi2(w, P) = N * SumFunctionOnSet(F, DOMAIN F) - n * n
    <3>1. ~ w <= 0
      BY <1>3
    <3> QED
      BY <3>1, Zenon DEF psi2, SumFunction
  <2>2. DOMAIN F = Leaves(w) /\ Leaves(w) = (N - 1)..((N - 1) + N - 1)
    <3>1. 2 * N - 2 = (N - 1) + N - 1
      <4> HIDE DEF N
      <4> QED
        BY <1>1
    <3>2. Leaves(w) = (N - 1)..(2 * N - 2)
      BY <1>1 DEF Leaves
    <3> HIDE DEF N
    <3>3. Leaves(w) = (N - 1)..((N - 1) + N - 1)
      BY <3>1, <3>2, Zenon
    <3> QED
      BY <3>3
  <2>3. ASSUME NEW x \in W PROVE F[(N - 1) + x] = f[x]
    <3>1. N - 1 + x \in Leaves(w) /\ P[N - 1 + x] = Freq(b, w, x)
      BY TableHolds
    <3>2. F[N - 1 + x] = Freq(b, w, x) * Freq(b, w, x)
      <4> HIDE DEF P, N
      <4> QED
        BY <3>1
    <3> QED
      BY <3>2
  <2>4. \A x \in W : f[x] \in Int
    BY SumsAreIntegers
  <2>5. s = f
    <3> HIDE DEF F, N, W
    <3>1. \A x \in W : F[(N - 1) + x] = Freq(b, w, x) * Freq(b, w, x)
      BY <2>3
    <3> QED
      BY <1>1, <3>1
  <2>6. \A k \in (N - 1)..((N - 1) + N - 1) : F[k] \in Int
    <3> HIDE DEF F, N, f
    <3>1. \A k \in (N - 1)..((N - 1) + N - 1) : k - (N - 1) \in 0..(N - 1)
                                               /\ (N - 1) + (k - (N - 1)) = k
      BY <1>1
    <3> QED
      BY <1>1, <2>3, <2>4, <3>1
  <2>7. SumFunctionOnSet(F, (N - 1)..((N - 1) + N - 1)) = SumFunctionOnSet(s, 0..(N - 1))
    <3>1. N - 1 \in Int
      BY <1>1
    <3> HIDE DEF F, N
    <3> QED
      BY <1>1, <2>6, <3>1, SumShift
  <2>8. SumFunctionOnSet(F, DOMAIN F) = Squares(b, w)
    <3>1. SumFunctionOnSet(F, DOMAIN F) = SumFunctionOnSet(s, 0..(N - 1))
      <4> HIDE DEF F, s, N
      <4> QED
        BY <2>2, <2>7, Zenon
    <3> QED
      BY <1>1, <2>5, <3>1, Zenon DEF Squares
  <2> HIDE DEF F
  <2> QED
    BY <2>1, <2>8, Zenon
<1> QED
  BY <1>2, <1>3

\* The two arguments of the serial test are sums of squares.
LEMMA PsiDifferences ==
  ASSUME NEW b, IsSequence(b), NEW w \in Nat
  PROVE  LET psi(u) == psi2(u, TableOf(b, u))
         IN  /\ psi(w) \in Int /\ psi(w + 1) \in Int /\ psi(w + 2) \in Int
             /\ psi(w + 1) - psi(w) >= 0
             /\ psi(w + 2) - 2 * psi(w + 1) + psi(w) >= 0
<1> DEFINE p == 2 ^ w
           psi(u) == psi2(u, TableOf(b, u))
           S(u) == Squares(b, u)
           E(u) == SquaredExcess(b, u)
           nn == n * n
<1>1. p \in Nat /\ 2 ^ (w + 1) = 2 * p /\ 2 ^ (w + 2) = 4 * p
  <2>1. 2 ^ w \in Nat /\ 2 ^ (w + 1) = 2 * 2 ^ w
    BY PowersOfTwo
  <2>2. 2 ^ ((w + 1) + 1) = 2 * 2 ^ (w + 1)
    BY PowersOfTwo, w + 1 \in Nat
  <2>3. (w + 1) + 1 = w + 2
    OBVIOUS
  <2> QED
    BY <2>1, <2>2, <2>3
<1>2. nn \in Int
  BY ConstantsFit
<1>3. /\ S(w) \in Int /\ S(w + 1) \in Int /\ S(w + 2) \in Int
      /\ E(w) \in Int /\ E(w + 1) \in Int /\ E(w) >= 0
  BY SumsAreIntegers, w + 1 \in Nat, w + 2 \in Nat
<1>4. /\ psi(w) = 2 ^ w * S(w) - nn /\ psi(w + 1) = 2 ^ (w + 1) * S(w + 1) - nn
      /\ psi(w + 2) = 2 ^ (w + 2) * S(w + 2) - nn
  BY PsiIs, w + 1 \in Nat, w + 2 \in Nat
<1>5. 2 * S(w + 1) = S(w) + E(w)
  BY SquaresOfLonger
<1>6. 2 * S(w + 2) = S(w + 1) + E(w + 1)
  <2>1. 2 * S((w + 1) + 1) = S(w + 1) + E(w + 1)
    BY SquaresOfLonger, w + 1 \in Nat
  <2>2. (w + 1) + 1 = w + 2
    OBVIOUS
  <2> QED
    BY <2>1, <2>2
<1>7. E(w) <= 2 * E(w + 1)
  BY ExcessGrows
<1>8. /\ psi(w) = p * S(w) - nn /\ psi(w + 1) = 2 * p * S(w + 1) - nn
      /\ psi(w + 2) = 4 * p * S(w + 2) - nn
  BY <1>1, <1>4
<1> HIDE DEF p, psi, S, E, nn
<1> DEFINE Fit(q, s0, s1, s2, e0, e1, m) ==
          /\ q * s0 - m \in Int /\ 2 * q * s1 - m \in Int /\ 4 * q * s2 - m \in Int
          /\ (2 * q * s1 - m) - (q * s0 - m) = q * e0
          /\ (4 * q * s2 - m) - 2 * (2 * q * s1 - m) + (q * s0 - m) = q * (2 * e1 - e0)
<1>9. \A q \in Nat : \A s0, s1, s2, e0, e1, m \in Int :
        2 * s1 = s0 + e0 /\ 2 * s2 = s1 + e1 => Fit(q, s0, s1, s2, e0, e1, m)
  <2> TAKE q \in Nat
  <2> TAKE s0, s1, s2, e0, e1, m \in Int
  <2> HAVE 2 * s1 = s0 + e0 /\ 2 * s2 = s1 + e1
  <2>1. 2 * q * s1 = q * s0 + q * e0
    <3>1. q * (2 * s1) = q * (s0 + e0)
      OBVIOUS
    <3>2. q * (2 * s1) = 2 * q * s1 /\ q * (s0 + e0) = q * s0 + q * e0
      OBVIOUS
    <3> QED
      BY <3>1, <3>2, Zenon
  <2>2. 2 * q * s2 = q * s1 + q * e1
    <3>1. q * (2 * s2) = q * (s1 + e1)
      OBVIOUS
    <3>2. q * (2 * s2) = 2 * q * s2 /\ q * (s1 + e1) = q * s1 + q * e1
      OBVIOUS
    <3> QED
      BY <3>1, <3>2, Zenon
  <2>3. /\ 4 * q * s2 = 2 * (2 * q * s2) /\ 2 * q * s1 = 2 * (q * s1)
        /\ q * (2 * e1 - e0) = 2 * (q * e1) - q * e0
    OBVIOUS
  <2>4. q * s0 \in Int /\ q * s1 \in Int /\ q * s2 \in Int /\ q * e0 \in Int /\ q * e1 \in Int
    OBVIOUS
  <2>5. 2 * q * s1 \in Int /\ 2 * q * s2 \in Int /\ 4 * q * s2 \in Int
    OBVIOUS
  <2> DEFINE a0 == q * s0
             a1 == q * s1
             b0 == q * e0
             b1 == q * e1
             c1 == 2 * q * s1
             c2 == 2 * q * s2
             d2 == 4 * q * s2
             z == q * (2 * e1 - e0)
  <2>6. /\ a0 \in Int /\ a1 \in Int /\ b0 \in Int /\ b1 \in Int /\ c1 \in Int /\ c2 \in Int
        /\ d2 \in Int /\ c1 = a0 + b0 /\ c2 = a1 + b1 /\ d2 = 2 * c2 /\ c1 = 2 * a1
        /\ z = 2 * b1 - b0
    BY <2>1, <2>2, <2>3, <2>4, <2>5, Zenon
  <2> HIDE DEF a0, a1, b0, b1, c1, c2, d2, z
  <2>7. /\ a0 - m \in Int /\ c1 - m \in Int /\ d2 - m \in Int
        /\ (c1 - m) - (a0 - m) = b0
        /\ (d2 - m) - 2 * (c1 - m) + (a0 - m) = z
    BY <2>6
  <2> QED
    BY <2>7, Zenon DEF a0, b0, c1, d2, z
<1>10. \A q \in Nat : \A e \in Int : e >= 0 => q * e >= 0
  OBVIOUS
<1>11. p * E(w) >= 0 /\ p * (2 * E(w + 1) - E(w)) >= 0
  <2>1. 2 * E(w + 1) - E(w) \in Int /\ 2 * E(w + 1) - E(w) >= 0
    BY <1>3, <1>7
  <2> QED
    BY <1>1, <1>3, <1>10, <2>1, Zenon
<1>12. /\ psi(w) \in Int /\ psi(w + 1) \in Int /\ psi(w + 2) \in Int
       /\ psi(w + 1) - psi(w) = p * E(w)
       /\ psi(w + 2) - 2 * psi(w + 1) + psi(w) = p * (2 * E(w + 1) - E(w))
  <2> DEFINE A == p * S(w) - nn
             B == 2 * p * S(w + 1) - nn
             D == 4 * p * S(w + 2) - nn
  <2>1. /\ A \in Int /\ B \in Int /\ D \in Int
        /\ B - A = p * E(w) /\ D - 2 * B + A = p * (2 * E(w + 1) - E(w))
    <3> DEFINE s0 == S(w)
               s1 == S(w + 1)
               s2 == S(w + 2)
               e0 == E(w)
               e1 == E(w + 1)
    <3>1. /\ s0 \in Int /\ s1 \in Int /\ s2 \in Int /\ e0 \in Int /\ e1 \in Int
          /\ 2 * s1 = s0 + e0 /\ 2 * s2 = s1 + e1
      BY <1>3, <1>5, <1>6, Zenon
    <3> HIDE DEF s0, s1, s2, e0, e1
    <3>2. /\ p * s0 - nn \in Int /\ 2 * p * s1 - nn \in Int /\ 4 * p * s2 - nn \in Int
          /\ (2 * p * s1 - nn) - (p * s0 - nn) = p * e0
          /\ (4 * p * s2 - nn) - 2 * (2 * p * s1 - nn) + (p * s0 - nn) = p * (2 * e1 - e0)
      <4> HIDE DEF Fit
      <4>1. Fit(p, s0, s1, s2, e0, e1, nn)
        BY <1>1, <1>2, <1>9, <3>1
      <4> QED
        BY <4>1, Zenon DEF Fit
    <3> QED
      BY <3>2, Zenon DEF s0, s1, s2, e0, e1
  <2>2. psi(w) = A /\ psi(w + 1) = B /\ psi(w + 2) = D
    BY <1>8, Zenon
  <2> HIDE DEF A, B, D
  <2> QED
    BY <2>1, <2>2, Zenon
<1>13. /\ psi(w) \in Int /\ psi(w + 1) \in Int /\ psi(w + 2) \in Int
       /\ psi(w + 1) - psi(w) >= 0
       /\ psi(w + 2) - 2 * psi(w + 1) + psi(w) >= 0
  BY <1>11, <1>12, Zenon
<1> QED
  BY <1>13 DEF psi
-----------------------------------------------------------------------------
\* The invariants of the counts that the windows are compared with, and of the
\* tables.

\* A test is left when its loop has ended.
LEMMA LeftAtEnd ==
  ASSUME Shape, [Next]_vars, pc' # pc, pc # "start"
  PROVE  i >= Turns(pc)
<1>1. CASE NextTest
  BY <1>1 DEF NextTest
<1>2. CASE ~ NextTest
  <2>1. ~ expandBits
    BY DEF expandBits
  <2> QED
    BY <1>2, <2>1, TurnEffects DEF Next, Done, vars, Loop
<1> QED
  BY <1>1, <1>2

\* The bits are those of the bytes.
BytesInv == pc # "start" => bits = [idx \in 0..(n - 1) |-> bitAt(idx)]

\* bits is written once, and the bytes never.
LEMMA BytesKept ==
  ASSUME ControlInv, BytesInv, [Next]_vars PROVE BytesInv'
<1>1. Shape
  BY DEF ControlInv
<1>2. bitstream' = bitstream
  BY <1>1, Steps DEF Quiet, Loop
<1>3. \A idx : bitAt(idx)' = bitAt(idx)
  BY <1>2 DEF bitAt
<1>4. CASE pc = "start"
  <2>1. pc' # "start" => bits' = [idx \in 0..(n - 1) |-> bitAt(idx)]
    BY <1>1, <1>4, Steps DEF Quiet, Follows, Loop
  <2> QED
    BY <1>2, <2>1 DEF BytesInv, bitAt
<1>5. CASE pc # "start"
  <2>1. bits' = bits
    BY <1>1, <1>5, Steps DEF Quiet, Follows, Loop
  <2> QED
    BY <1>2, <1>5, <2>1 DEF BytesInv, bitAt
<1> QED
  BY <1>4, <1>5

\* A set of numbers has as many elements when all are moved by the same.
LEMMA MovedCount ==
  ASSUME NEW S \in SUBSET Int, IsFiniteSet(S), NEW a \in Int, NEW T,
         \A x \in Int : x \in S <=> a + x \in T, T \in SUBSET Int
  PROVE  Cardinality(T) = Cardinality(S)
<1> DEFINE f == [x \in S |-> a + x]
<1>1. f \in [S -> T]
  OBVIOUS
<1>2. f \in Injection(S, T)
  BY <1>1 DEF Injection, IsInjective
<1>3. f \in Surjection(S, T)
  <2>1. ASSUME NEW y \in T PROVE \E x \in S : f[x] = y
    <3>1. y - a \in Int /\ a + (y - a) = y
      OBVIOUS
    <3>2. y - a \in S
      BY <3>1
    <3> QED
      BY <3>1, <3>2
  <2> QED
    BY <1>1, <2>1 DEF Surjection
<1>4. f \in Bijection(S, T)
  BY <1>2, <1>3 DEF Bijection
<1> QED
  BY <1>4, FS_Bijection DEF ExistsBijection

\* The ones among the first positions.
OnesUpTo(b, k) == Cardinality({p \in 0..(k - 1) : b[p] = 1})

\* frequency.go counts the ones of the bits, though it reads bytes.
OnesRightInv ==
    /\ pc = "frequency" => i <= NumBytes /\ counts.ones = OnesUpTo(bits, 8 * i)
    /\ pc \notin {"start", "frequency"} => counts.ones = OnesOf(bits)

\* A byte holds the ones of its eight bits.
LEMMA OnesOfByte ==
  ASSUME ControlInv, BytesInv, pc # "start", i < NumBytes
  PROVE  OnesUpTo(bits, 8 * i + 8) = OnesUpTo(bits, 8 * i) + OnesCount8(bitstream[i + 1])
<1> DEFINE B == bitstream[i + 1]
           R == {k \in 0..7 : Digit(B, 8, k) = 1}
           S == {p \in 0..(8 * i - 1) : bits[p] = 1}
           T == {p \in (8 * i)..(8 * i + 7) : bits[p] = 1}
           m == 8 * i + 8
           U == {p \in 0..(m - 1) : bits[p] = 1}
<1>1. i \in Nat /\ NumBytes \in Nat /\ n = 8 * NumBytes
  BY ConstantsFit DEF ControlInv
<1>2. \A k \in 0..7 : bits[8 * i + k] = Digit(B, 8, k)
  <2> TAKE k \in 0..7
  <2>1. 8 * i + k \in 0..(n - 1) /\ (8 * i + k) \div 8 = i /\ (8 * i + k) % 8 = k
    BY <1>1
  <2>2. bits[8 * i + k] = bitAt(8 * i + k)
    BY <2>1 DEF BytesInv
  <2> QED
    BY <2>1, <2>2, Zenon DEF bitAt
<1>3. IsFiniteSet(R) /\ R \in SUBSET Int
  <2>1. IsFiniteSet(0..7) /\ R \subseteq 0..7
    BY FS_Interval, 0 \in Int, 7 \in Int
  <2>2. IsFiniteSet(R)
    <3> HIDE DEF R
    <3> QED
      BY <2>1, FS_Subset
  <2> QED
    BY <2>2
<1>4. T \in SUBSET Int /\ \A k \in Int : k \in R <=> 8 * i + k \in T
  <2>1. T \in SUBSET Int
    BY <1>1
  <2>2. ASSUME NEW k \in Int PROVE k \in R <=> 8 * i + k \in T
    <3>1. 8 * i + k \in (8 * i)..(8 * i + 7) <=> k \in 0..7
      BY <1>1
    <3> HIDE DEF B
    <3> QED
      BY <1>2, <3>1
  <2> QED
    BY <2>1, <2>2
<1>5. Cardinality(T) = Cardinality(R)
  <2> HIDE DEF R, T
  <2>1. 8 * i \in Int
    BY <1>1
  <2> QED
    BY <1>3, <1>4, <2>1, MovedCount
<1>6. S \in SUBSET (0..(n - 1)) /\ T \in SUBSET (0..(n - 1)) /\ S \cap T = {} /\ S \cup T = U
  <2>1. \A p : /\ p \in 0..(8 * i - 1) => p \in 0..(n - 1) /\ p \notin (8 * i)..(8 * i + 7)
               /\ p \in (8 * i)..(8 * i + 7) => p \in 0..(n - 1)
               /\ p \in 0..(m - 1) <=> p \in 0..(8 * i - 1) \/ p \in (8 * i)..(8 * i + 7)
    BY <1>1
  <2> QED
    BY <2>1, Zenon
<1>7. Cardinality(U) = Cardinality(S) + Cardinality(T)
  <2> HIDE DEF S, T, U
  <2> QED
    BY <1>6, InTwoClasses
<1> QED
  <2>1. /\ OnesUpTo(bits, 8 * i + 8) = Cardinality(U)
        /\ OnesUpTo(bits, 8 * i) = Cardinality(S)
    <3>1. OnesUpTo(bits, m) = Cardinality(U)
      <4> HIDE DEF m
      <4> QED
        BY DEF OnesUpTo
    <3>2. OnesUpTo(bits, 8 * i) = Cardinality(S)
      BY DEF OnesUpTo
    <3> QED
      BY <3>1, <3>2, Zenon
  <2>2. OnesCount8(bitstream[i + 1]) = Cardinality(R)
    BY DEF OnesCount8
  <2> HIDE DEF R, S, T, U
  <2> QED
    BY <1>5, <1>7, <2>1, <2>2, Zenon

\* Every turn of frequency.go counts the ones of one byte.
LEMMA OnesRightKept ==
  ASSUME ControlInv, BytesInv, OnesInv, OnesRightInv, [Next]_vars PROVE OnesRightInv'
<1>1. Shape /\ i \in Nat /\ NumBytes \in Nat /\ n = 8 * NumBytes
  BY ConstantsFit DEF ControlInv
<1>2. CASE FrequencyTest
  <2>1. /\ Loop("frequency", {"ones"}) /\ i < NumBytes
        /\ counts'.ones = counts.ones + OnesCount8(bitstream[i + 1])
    BY <1>1, <1>2, TurnEffects
  <2>2. pc = "frequency" /\ pc' = "frequency" /\ i' = i + 1 /\ bits' = bits
    BY <2>1 DEF Loop
  <2>3. counts'.ones = OnesUpTo(bits, 8 * i + 8)
    BY <2>1, <2>2, OnesOfByte DEF OnesRightInv
  <2>4. 8 * i' = 8 * i + 8 /\ i' <= NumBytes
    BY <1>1, <2>1, <2>2
  <2> QED
    BY <2>2, <2>3, <2>4 DEF OnesRightInv
<1>3. CASE ~ FrequencyTest
  <2>1. /\ counts'.ones = counts.ones
        /\ pc' = "start" => pc = "start"
        /\ pc' = "frequency" => \/ pc = "start" /\ i' = i
                                \/ pc = "frequency" /\ i' = i
        /\ pc # "start" => bits' = bits
        /\ pc = "start" => pc' \in {"start", "frequency"}
    BY <1>1, <1>3, Steps DEF Quiet, Follows, Loop, Only, Fields
  <2>2. CASE pc' = "frequency" /\ pc = "start"
    <3>1. i' = 0 /\ counts'.ones = 0
      BY <2>1, <2>2 DEF ControlInv, OnesInv
    <3>2. OnesUpTo(bits', 8 * 0) = 0
      <4>1. {p \in 0..(8 * 0 - 1) : bits'[p] = 1} = {}
        OBVIOUS
      <4> QED
        BY <4>1, FS_EmptySet DEF OnesUpTo
    <3> QED
      BY <1>1, <2>2, <3>1, <3>2 DEF OnesRightInv
  <2>3. CASE pc' = "frequency" /\ pc = "frequency"
    BY <2>1, <2>3 DEF OnesRightInv
  <2>4. CASE pc' \notin {"start", "frequency"} /\ pc = "frequency"
    <3>1. i >= Turns("frequency")
      BY <1>1, <2>4, LeftAtEnd
    <3>2. i = NumBytes
      BY <1>1, <2>4, <3>1, TurnsAre DEF OnesRightInv
    <3>3. OnesUpTo(bits, 8 * i) = OnesOf(bits)
      BY <1>1, <3>2 DEF OnesUpTo, OnesOf
    <3> QED
      BY <2>1, <2>4, <3>3 DEF OnesRightInv
  <2>5. CASE pc' \notin {"start", "frequency"} /\ pc \notin {"start", "frequency"}
    BY <2>1, <2>5 DEF OnesRightInv
  <2>6. CASE pc' = "start"
    BY <2>6 DEF OnesRightInv
  <2> QED
    BY <2>1, <2>2, <2>3, <2>4, <2>5, <2>6
<1> QED
  BY <1>2, <1>3

\* runs.go counts a run for the start and for each change, or gives up before
\* its loop.
RunsRightInv ==
    /\ pc = "runs" => \/ i = 0 /\ counts.runs = 0
                      \/ /\ ~ PiTooFar /\ i \in 1..n
                         /\ counts.runs = 1 + ChangesOf(bits, i)
    /\ pc \notin {"start", "frequency", "block_frequency", "runs"} =>
         counts.runs = 0 \/ counts.runs = 1 + ChangesOf(bits, n)

\* One bit more is one change more or none.
LEMMA ChangesStep ==
  ASSUME NEW b, NEW k \in 1..(n - 1)
  PROVE  /\ ChangesOf(b, 1) = 0
         /\ ChangesOf(b, k) \in Int
         /\ ChangesOf(b, k + 1) = ChangesOf(b, k) + (IF b[k] # b[k - 1] THEN 1 ELSE 0)
<1> DEFINE S == {p \in 1..(k - 1) : b[p] # b[p - 1]}
           T == IF b[k] # b[k - 1] THEN {k} ELSE {}
           U == {p \in 1..(k + 1 - 1) : b[p] # b[p - 1]}
<1>1. n \in Nat /\ k \in Nat /\ k >= 1 /\ k <= n - 1
  BY ConstantsFit
<1>2. S \in SUBSET (0..(n - 1)) /\ T \in SUBSET (0..(n - 1)) /\ S \cap T = {} /\ S \cup T = U
  <2>1. \A p : /\ p \in 1..(k - 1) => p \in 0..(n - 1) /\ p # k
               /\ p \in 1..(k + 1 - 1) <=> p \in 1..(k - 1) \/ p = k
    BY <1>1
  <2>2. k \in 0..(n - 1)
    BY <1>1
  <2> QED
    BY <2>1, <2>2, Zenon
<1>3. Cardinality(S) \in 0..n /\ Cardinality(U) = Cardinality(S) + Cardinality(T)
  <2> HIDE DEF S, T, U
  <2> QED
    BY <1>2, InTwoClasses
<1>4. Cardinality(T) = IF b[k] # b[k - 1] THEN 1 ELSE 0
  BY FS_EmptySet, FS_Singleton
<1>5. ChangesOf(b, 1) = 0
  <2>1. {p \in 1..(1 - 1) : b[p] # b[p - 1]} = {}
    OBVIOUS
  <2> QED
    BY <2>1, FS_EmptySet DEF ChangesOf
<1>6. ChangesOf(b, k) = Cardinality(S) /\ ChangesOf(b, k + 1) = Cardinality(U)
  BY DEF ChangesOf
<1> HIDE DEF S, T, U
<1>7. Cardinality(S) \in Int
  BY <1>1, <1>3
<1> QED
  BY <1>3, <1>4, <1>5, <1>6, <1>7, Zenon

\* Every turn of runs.go counts a change where there is one.
LEMMA RunsRightKept ==
  ASSUME ControlInv, RunsInv, RunsRightInv, [Next]_vars PROVE RunsRightInv'
<1>1. Shape /\ i \in Nat /\ n \in Nat /\ n >= 1
  BY ConstantsFit DEF ControlInv
<1>2. CASE RunsTest
  <2>1. /\ Loop("runs", {"runs"}) /\ i < (IF PiTooFar THEN 0 ELSE n)
        /\ counts'.runs = IF i = 0 \/ bits[i] # bits[i - 1]
                          THEN counts.runs + 1 ELSE counts.runs
    BY <1>1, <1>2, TurnEffects
  <2>2. /\ pc = "runs" /\ pc' = "runs" /\ i' = i + 1 /\ bits' = bits
        /\ counts'.ones = counts.ones
    BY <2>1 DEF Loop, Only, Fields
  <2>3. ~ PiTooFar /\ i < n
    BY <1>1, <2>1
  <2>4. ~ PiTooFar'
    BY <2>2, <2>3 DEF PiTooFar
  <2>5. i' \in 1..n
    BY <1>1, <2>2, <2>3
  <2>6. counts'.runs = 1 + ChangesOf(bits, i + 1)
    <3>1. CASE i = 0
      <4>1. counts.runs = 0
        BY <2>2, <3>1 DEF RunsRightInv
      <4>2. ChangesOf(bits, 0 + 1) = 0
        <5>1. {p \in 1..((0 + 1) - 1) : bits[p] # bits[p - 1]} = {}
          OBVIOUS
        <5> QED
          BY <5>1, FS_EmptySet DEF ChangesOf
      <4> QED
        BY <2>1, <3>1, <4>1, <4>2
    <3>2. CASE i # 0
      <4>1. i \in 1..(n - 1) /\ counts.runs = 1 + ChangesOf(bits, i)
        BY <1>1, <2>2, <2>3, <3>2 DEF RunsRightInv
      <4>2. /\ ChangesOf(bits, i) \in Int
            /\ ChangesOf(bits, i + 1)
                 = ChangesOf(bits, i) + (IF bits[i] # bits[i - 1] THEN 1 ELSE 0)
        BY <4>1, ChangesStep
      <4> QED
        BY <2>1, <3>2, <4>1, <4>2
    <3> QED
      BY <3>1, <3>2
  <2> QED
    BY <2>2, <2>4, <2>5, <2>6 DEF RunsRightInv
<1>3. CASE ~ RunsTest
  <2>1. /\ counts'.runs = counts.runs
        /\ pc' = "runs" => \/ pc = "block_frequency" /\ i' = 0
                           \/ pc = "runs" /\ i' = i /\ bits' = bits /\ counts'.ones = counts.ones
        /\ pc # "start" => bits' = bits
        /\ pc \in {"start", "frequency", "block_frequency"} =>
             pc' \in {"start", "frequency", "block_frequency", "runs"}
    BY <1>1, <1>3, Steps DEF Quiet, Follows, Loop, Only, Fields
  <2>2. CASE pc' = "runs" /\ pc = "block_frequency"
    <3>1. counts'.runs = 0 /\ i' = 0
      BY <2>1, <2>2 DEF RunsInv
    <3> QED
      BY <2>2, <3>1 DEF RunsRightInv
  <2>3. CASE pc' = "runs" /\ pc = "runs"
    <3>1. i' = i /\ bits' = bits /\ counts'.ones = counts.ones
      BY <2>1, <2>3
    <3>2. PiTooFar' = PiTooFar
      BY <3>1 DEF PiTooFar
    <3> QED
      BY <2>1, <2>3, <3>1, <3>2 DEF RunsRightInv
  <2>4. CASE pc' \notin {"start", "frequency", "block_frequency", "runs"} /\ pc = "runs"
    <3>1. i >= Turns("runs")
      BY <1>1, <2>4, LeftAtEnd
    <3>2. counts.runs = 0 \/ counts.runs = 1 + ChangesOf(bits, n)
      <4>1. CASE ~ PiTooFar /\ i \in 1..n /\ counts.runs = 1 + ChangesOf(bits, i)
        <5>1. i >= n
          BY <3>1, <4>1, TurnsAre
        <5>2. i = n
          BY <1>1, <4>1, <5>1
        <5> QED
          BY <4>1, <5>2
      <4> QED
        BY <2>4, <4>1 DEF RunsRightInv
    <3> QED
      BY <2>1, <2>4, <3>2 DEF RunsRightInv
  <2>5. CASE /\ pc' \notin {"start", "frequency", "block_frequency", "runs"}
             /\ pc \notin {"start", "frequency", "block_frequency", "runs"}
    BY <2>1, <2>5 DEF RunsRightInv
  <2>6. CASE pc' \in {"start", "frequency", "block_frequency"}
    BY <2>6 DEF RunsRightInv
  <2> QED
    BY <2>1, <2>2, <2>3, <2>4, <2>5, <2>6
<1> QED
  BY <1>2, <1>3

\* The entry that a turn of approximate_entropy.go and of serial.go adds for
\* words of w bits.
EntropyEntry(w) == [w |-> w, P |-> TableOf(bits, w)]
SerialEntry(w) == [w |-> w, P |-> TableOf(bits, w), psi |-> psi2(w, TableOf(bits, w))]

\* approximate_entropy.go makes the tables of ApEnM and of ApEnM + 1 bits, in
\* this order.
EntropyInv ==
    /\ pc = "approximate_entropy" =>
         \/ i = 0 /\ counts.apen = <<>>
         \/ i = 1 /\ counts.apen = <<EntropyEntry(ApEnM)>>
         \/ i = 2 /\ counts.apen = <<EntropyEntry(ApEnM), EntropyEntry(ApEnM + 1)>>
    /\ pc \in {"serial", "done"} =>
         counts.apen = <<EntropyEntry(ApEnM), EntropyEntry(ApEnM + 1)>>
    /\ pc \notin {"approximate_entropy", "serial", "done"} => counts.apen = <<>>

AllSerialEntries ==
    <<SerialEntry(SerialM), SerialEntry(SerialM - 1), SerialEntry(SerialM - 2)>>

\* serial.go makes those of SerialM bits, of one less and of two less.
SerialInv ==
    /\ pc = "serial" =>
         \/ i = 0 /\ counts.serial = <<>>
         \/ i = 1 /\ counts.serial = <<SerialEntry(SerialM)>>
         \/ i = 2 /\ counts.serial = <<SerialEntry(SerialM), SerialEntry(SerialM - 1)>>
         \/ i = 3 /\ counts.serial = AllSerialEntries
    /\ pc = "done" => counts.serial = AllSerialEntries
    /\ pc \notin {"serial", "done"} => counts.serial = <<>>

\* Short sequences, one entry longer.
LEMMA Appended ==
  \A a, b, c : /\ Append(<<>>, a) = <<a>> /\ Append(<<a>>, b) = <<a, b>>
               /\ Append(<<a, b>>, c) = <<a, b, c>>
<1> TAKE a, b, c
<1> DEFINE S == {a, b, c}
<1>1. Append(<<>>, a) = <<a>>
  OBVIOUS
<1>2. Append(<<a>>, b) = <<a, b>>
  <2>1. <<a>> \in Seq(S) /\ b \in S /\ <<a, b>> \in Seq(S) /\ Len(<<a>>) = 1 /\ Len(<<a, b>>) = 2
    OBVIOUS
  <2>2. /\ Append(<<a>>, b) \in Seq(S) /\ Len(Append(<<a>>, b)) = 2
        /\ Append(<<a>>, b)[1] = a /\ Append(<<a>>, b)[2] = b
    BY <2>1, AppendProperties
  <2>3. \A k \in 1..2 : Append(<<a>>, b)[k] = <<a, b>>[k]
    BY <2>2
  <2> QED
    BY <2>1, <2>2, <2>3, SeqEqual
<1>3. Append(<<a, b>>, c) = <<a, b, c>>
  <2>1. /\ <<a, b>> \in Seq(S) /\ c \in S /\ <<a, b, c>> \in Seq(S)
        /\ Len(<<a, b>>) = 2 /\ Len(<<a, b, c>>) = 3
    OBVIOUS
  <2>2. /\ Append(<<a, b>>, c) \in Seq(S) /\ Len(Append(<<a, b>>, c)) = 3
        /\ Append(<<a, b>>, c)[1] = a /\ Append(<<a, b>>, c)[2] = b
        /\ Append(<<a, b>>, c)[3] = c
    BY <2>1, AppendProperties
  <2>3. \A k \in 1..3 : Append(<<a, b>>, c)[k] = <<a, b, c>>[k]
    BY <2>2
  <2> QED
    BY <2>1, <2>2, <2>3, SeqEqual
<1> QED
  BY <1>1, <1>2, <1>3

\* The word lengths are numbers.
LEMMA WordLengths ==
  /\ ApEnM \in Nat /\ ApEnM >= 1 /\ ApEnM + 0 = ApEnM /\ ApEnM + 1 \in Nat
  /\ SerialM \in Nat /\ SerialM - 0 = SerialM /\ SerialM - 1 \in Nat /\ SerialM - 2 \in Nat
  /\ (SerialM - 2) + 1 = SerialM - 1 /\ (SerialM - 2) + 2 = SerialM
<1>1. ApEnM \in Nat /\ ApEnM >= 1 /\ n \in Nat
  BY ConstantsFit
<1>2. SerialM \in 2..n
  BY PatternsAssumption
<1> QED
  BY <1>1, <1>2

\* Every turn of the test adds the next table.
LEMMA EntropyKept ==
  ASSUME ControlInv, EntropyInv, [Next]_vars PROVE EntropyInv'
<1>1. Shape /\ i \in Nat
  BY DEF ControlInv
<1>2. CASE ApproximateEntropyTest
  <2>1. /\ Loop("approximate_entropy", {"apen"}) /\ i < 2
        /\ counts'.apen = Append(counts.apen, [w |-> ApEnM + i, P |-> Counted(ApEnM + i)])
    BY <1>1, <1>2, TurnEffects
  <2>2. /\ pc = "approximate_entropy" /\ pc' = "approximate_entropy"
        /\ i' = i + 1 /\ bits' = bits
    BY <2>1 DEF Loop
  <2>3. \A w : EntropyEntry(w)' = EntropyEntry(w)
    BY <2>2 DEF EntropyEntry
  <2>4. counts'.apen = Append(counts.apen, EntropyEntry(ApEnM + i))
    BY <2>1, CountedIsTable, Zenon DEF EntropyEntry
  <2>5. CASE i = 0
    <3>1. counts.apen = <<>>
      BY <2>2, <2>5 DEF EntropyInv
    <3>2. counts'.apen = <<EntropyEntry(ApEnM)>>
      BY <2>4, <2>5, <3>1, Appended, WordLengths
    <3> QED
      BY <2>2, <2>3, <2>5, <3>2 DEF EntropyInv
  <2>6. CASE i = 1
    <3>1. counts.apen = <<EntropyEntry(ApEnM)>>
      BY <2>2, <2>6 DEF EntropyInv
    <3>2. counts'.apen = <<EntropyEntry(ApEnM), EntropyEntry(ApEnM + 1)>>
      BY <2>4, <2>6, <3>1, Appended
    <3> QED
      BY <2>2, <2>3, <2>6, <3>2 DEF EntropyInv
  <2> QED
    BY <1>1, <2>1, <2>5, <2>6
<1>3. CASE ~ ApproximateEntropyTest
  <2>1. /\ counts'.apen = counts.apen
        /\ pc' = "approximate_entropy" =>
             \/ pc = "universal" /\ i' = 0
             \/ pc = "approximate_entropy" /\ i' = i
        /\ pc # "start" => bits' = bits
        /\ pc' \in {"serial", "done"} => pc \in {"approximate_entropy", "serial", "done"}
        /\ pc' \notin {"approximate_entropy", "serial", "done"} =>
             pc \notin {"approximate_entropy", "serial", "done"}
    BY <1>1, <1>3, Steps DEF Quiet, Follows, Loop, Only, Fields
  <2>2. pc # "start" => \A w : EntropyEntry(w)' = EntropyEntry(w)
    BY <2>1 DEF EntropyEntry
  <2>3. CASE pc' = "approximate_entropy" /\ pc = "universal"
    BY <2>1, <2>3 DEF EntropyInv
  <2>4. CASE pc' = "approximate_entropy" /\ pc = "approximate_entropy"
    <3>1. i' = i
      BY <2>1, <2>4
    <3> QED
      BY <2>1, <2>2, <2>4, <3>1 DEF EntropyInv
  <2>5. CASE pc' \in {"serial", "done"} /\ pc = "approximate_entropy"
    <3>1. i >= Turns("approximate_entropy")
      BY <1>1, <2>5, LeftAtEnd
    <3>2. i >= 2
      BY <3>1, TurnsAre
    <3>3. counts.apen = <<EntropyEntry(ApEnM), EntropyEntry(ApEnM + 1)>>
      BY <2>5, <3>2 DEF EntropyInv
    <3> QED
      BY <2>1, <2>2, <2>5, <3>3 DEF EntropyInv
  <2>6. CASE pc' \in {"serial", "done"} /\ pc \in {"serial", "done"}
    BY <2>1, <2>2, <2>6 DEF EntropyInv
  <2>7. CASE pc' \notin {"approximate_entropy", "serial", "done"}
    BY <2>1, <2>7 DEF EntropyInv
  <2> QED
    BY <2>1, <2>3, <2>4, <2>5, <2>6, <2>7
<1> QED
  BY <1>2, <1>3

\* Every turn of the test adds the next table and its psi2.
LEMMA SerialKept ==
  ASSUME ControlInv, SerialInv, [Next]_vars PROVE SerialInv'
<1>1. Shape /\ i \in Nat
  BY DEF ControlInv
<1>2. CASE SerialTest
  <2>1. /\ Loop("serial", {"serial"}) /\ i < 3
        /\ counts'.serial = Append(counts.serial,
              [w |-> SerialM - i, P |-> Counted(SerialM - i),
               psi |-> psi2(SerialM - i, Counted(SerialM - i))])
    BY <1>1, <1>2, TurnEffects
  <2>2. pc = "serial" /\ pc' = "serial" /\ i' = i + 1 /\ bits' = bits
    BY <2>1 DEF Loop
  <2>3. \A w : SerialEntry(w)' = SerialEntry(w)
    <3>1. \A w : TableOf(bits, w)' = TableOf(bits, w)
      BY <2>2
    <3>2. \A w : SerialEntry(w)'
                   = [w |-> w, P |-> TableOf(bits, w)', psi |-> psi2(w, TableOf(bits, w)')]
      BY DEF SerialEntry, psi2
    <3> QED
      BY <3>1, <3>2, Zenon DEF SerialEntry
  <2>4. AllSerialEntries' = AllSerialEntries
    BY <2>3, Zenon DEF AllSerialEntries
  <2>5. counts'.serial = Append(counts.serial, SerialEntry(SerialM - i))
    BY <2>1, CountedIsTable, Zenon DEF SerialEntry
  <2>6. CASE i = 0
    <3>1. counts.serial = <<>>
      BY <2>2, <2>6 DEF SerialInv
    <3>2. counts'.serial = <<SerialEntry(SerialM)>>
      BY <2>5, <2>6, <3>1, Appended, WordLengths
    <3> QED
      BY <2>2, <2>3, <2>6, <3>2 DEF SerialInv
  <2>7. CASE i = 1
    <3>1. counts.serial = <<SerialEntry(SerialM)>>
      BY <2>2, <2>7 DEF SerialInv
    <3>2. counts'.serial = <<SerialEntry(SerialM), SerialEntry(SerialM - 1)>>
      BY <2>5, <2>7, <3>1, Appended
    <3> QED
      BY <2>2, <2>3, <2>7, <3>2 DEF SerialInv
  <2>8. CASE i = 2
    <3>1. counts.serial = <<SerialEntry(SerialM), SerialEntry(SerialM - 1)>>
      BY <2>2, <2>8 DEF SerialInv
    <3>2. counts'.serial = AllSerialEntries
      BY <2>5, <2>8, <3>1, Appended DEF AllSerialEntries
    <3> QED
      BY <2>2, <2>4, <2>8, <3>2 DEF SerialInv
  <2> QED
    BY <1>1, <2>1, <2>6, <2>7, <2>8
<1>3. CASE ~ SerialTest
  <2>1. /\ counts'.serial = counts.serial
        /\ pc' = "serial" => \/ pc = "approximate_entropy" /\ i' = 0
                             \/ pc = "serial" /\ i' = i
        /\ pc # "start" => bits' = bits
        /\ pc' = "done" => pc \in {"serial", "done"}
        /\ pc' \notin {"serial", "done"} => pc \notin {"serial", "done"}
    BY <1>1, <1>3, Steps DEF Quiet, Follows, Loop, Only, Fields
  <2>2. pc # "start" =>
          /\ \A w : SerialEntry(w)' = SerialEntry(w)
          /\ AllSerialEntries' = AllSerialEntries
    <3> SUFFICES ASSUME pc # "start"
                 PROVE  /\ \A w : SerialEntry(w)' = SerialEntry(w)
                        /\ AllSerialEntries' = AllSerialEntries
      OBVIOUS
    <3>1. \A w : TableOf(bits, w)' = TableOf(bits, w)
      BY <2>1
    <3>2. \A w : SerialEntry(w)'
                   = [w |-> w, P |-> TableOf(bits, w)', psi |-> psi2(w, TableOf(bits, w)')]
      BY DEF SerialEntry, psi2
    <3>3. \A w : SerialEntry(w)' = SerialEntry(w)
      BY <3>1, <3>2, Zenon DEF SerialEntry
    <3> QED
      BY <3>3, Zenon DEF AllSerialEntries
  <2>3. CASE pc' = "serial" /\ pc = "approximate_entropy"
    BY <2>1, <2>3 DEF SerialInv
  <2>4. CASE pc' = "serial" /\ pc = "serial"
    <3>1. i' = i
      BY <2>1, <2>4
    <3> QED
      BY <2>1, <2>2, <2>4, <3>1 DEF SerialInv
  <2>5. CASE pc' = "done" /\ pc = "serial"
    <3>1. i >= Turns("serial")
      BY <1>1, <2>5, LeftAtEnd
    <3>2. i >= 3
      BY <3>1, TurnsAre
    <3>3. counts.serial = AllSerialEntries
      BY <2>5, <3>2 DEF SerialInv
    <3> QED
      BY <2>1, <2>2, <2>5, <3>3 DEF SerialInv
  <2>6. CASE pc' = "done" /\ pc = "done"
    BY <2>1, <2>2, <2>6 DEF SerialInv
  <2>7. CASE pc' \notin {"serial", "done"}
    BY <2>1, <2>7 DEF SerialInv
  <2> QED
    BY <2>1, <2>3, <2>4, <2>5, <2>6, <2>7
<1> QED
  BY <1>2, <1>3

WindowsInv == BytesInv /\ OnesRightInv /\ RunsRightInv /\ EntropyInv /\ SerialInv

\* These hold in every reachable state, too.
LEMMA WindowsInvHolds == Spec => []WindowsInv
<1>1. Init => WindowsInv
  <2> SUFFICES ASSUME Init PROVE WindowsInv
    OBVIOUS
  <2>1. pc = "start" /\ counts.apen = <<>> /\ counts.serial = <<>>
    BY DEF Init, NothingCounted
  <2> QED
    BY <2>1 DEF WindowsInv, BytesInv, OnesRightInv, RunsRightInv, EntropyInv, SerialInv
<1>2. IInv /\ WindowsInv /\ [Next]_vars => WindowsInv'
  BY BytesKept, OnesRightKept, RunsRightKept, EntropyKept, SerialKept DEF IInv, WindowsInv
<1> QED
  BY <1>1, <1>2, InvariantHolds, PTL DEF Spec
-----------------------------------------------------------------------------
\* What a state has of each table when WindowsAgree speaks of it.
IsTable(t) == t.w \in Nat /\ t.w > 0 /\ t.P = TableOf(bits, t.w)

\* What WindowsAgree says of one table, and of two.
OfOnes(t) == SumFunction([x \in Words(t.w - 1) |-> t.P[2 ^ t.w - 1 + (2 * x + 1)]])
OfAll(t) == SumFunction([x \in Words(t.w) |-> t.P[2 ^ t.w - 1 + x]])

\* The sums of one table, as counts of windows.
LEMMA SumsOfTable ==
  ASSUME IsSequence(bits), NEW t, IsTable(t)
  PROVE  OfAll(t) = n /\ OfOnes(t) = OnesOf(bits)
<1>1. t.w \in Nat /\ t.w - 1 \in Nat /\ (t.w - 1) + 1 = t.w
  BY DEF IsTable
<1>2. \A x \in Words(t.w) : t.P[2 ^ t.w - 1 + x] = Freq(bits, t.w, x)
  BY <1>1, TableHolds DEF IsTable
<1>3. OfAll(t) = n
  <2> DEFINE f == [x \in Words(t.w) |-> t.P[2 ^ t.w - 1 + x]]
  <2>1. f = [x \in Words(t.w) |-> Freq(bits, t.w, x)]
    BY <1>2
  <2>2. OfAll(t) = SumFunctionOnSet(f, Words(t.w))
    BY DEF OfAll, SumFunction
  <2> QED
    BY <1>1, <2>1, <2>2, FreqSum
<1>4. OfOnes(t) = OnesOf(bits)
  <2> DEFINE f == [x \in Words(t.w - 1) |-> t.P[2 ^ t.w - 1 + (2 * x + 1)]]
  <2>1. \A x \in Words(t.w - 1) : 2 * x + 1 \in Words(t.w)
    BY <1>1, LongerWords
  <2>2. f = [x \in Words(t.w - 1) |-> Freq(bits, (t.w - 1) + 1, 2 * x + 1)]
    BY <1>1, <1>2, <2>1
  <2>3. OfOnes(t) = SumFunctionOnSet(f, Words(t.w - 1))
    BY DEF OfOnes, SumFunction
  <2> QED
    BY <1>1, <2>2, <2>3, FreqOfOnes
<1> QED
  BY <1>3, <1>4

\* Two-bit windows and changes.
LEMMA ChangesOfTable ==
  ASSUME IsSequence(bits), NEW t, IsTable(t), t.w = 2
  PROVE  t.P[2 ^ t.w - 1 + 1] + t.P[2 ^ t.w - 1 + 2]
           = ChangesOf(bits, n) + (IF bits[0] = bits[n - 1] THEN 0 ELSE 1)
<1>1. 1 \in Words(2) /\ 2 \in Words(2)
  <2>1. 2 ^ 1 = 2
    BY PowersOfTwo, 0 \in Nat, 0 + 1 = 1
  <2>2. 2 ^ 2 = 4
    BY <2>1, PowersOfTwo, 1 \in Nat, 1 + 1 = 2
  <2> QED
    BY <2>2 DEF Words
<1>2. /\ t.P[2 ^ t.w - 1 + 1] = Freq(bits, 2, 1)
      /\ t.P[2 ^ t.w - 1 + 2] = Freq(bits, 2, 2)
  <2>1. t.P = TableOf(bits, 2)
    BY DEF IsTable
  <2>2. TableOf(bits, 2)[2 ^ 2 - 1 + 1] = Freq(bits, 2, 1)
    BY <1>1, TableHolds, 2 \in Nat
  <2>3. TableOf(bits, 2)[2 ^ 2 - 1 + 2] = Freq(bits, 2, 2)
    BY <1>1, TableHolds, 2 \in Nat
  <2> QED
    BY <2>1, <2>2, <2>3, Zenon
<1> QED
  BY <1>2, FreqOfChanges

\* Two tables whose lengths differ by one.
LEMMA TablesOfNeighbours ==
  ASSUME IsSequence(bits), NEW t, IsTable(t), NEW u, IsTable(u), u.w = t.w + 1,
         NEW x \in Words(t.w)
  PROVE  /\ t.P[2 ^ t.w - 1 + x]
              = u.P[2 ^ u.w - 1 + (2 * x)] + u.P[2 ^ u.w - 1 + (2 * x + 1)]
         /\ t.P[2 ^ t.w - 1 + x]
              = u.P[2 ^ u.w - 1 + x] + u.P[2 ^ u.w - 1 + (x + 2 ^ t.w)]
<1>1. t.w \in Nat /\ u.w \in Nat
  BY DEF IsTable
<1>2. \A y \in Words(u.w) : u.P[2 ^ u.w - 1 + y] = Freq(bits, u.w, y)
  BY <1>1, TableHolds DEF IsTable
<1>3. t.P[2 ^ t.w - 1 + x] = Freq(bits, t.w, x)
  BY <1>1, TableHolds DEF IsTable
<1>4. /\ 2 * x \in Words(u.w) /\ 2 * x + 1 \in Words(u.w)
      /\ x \in Words(u.w) /\ x + 2 ^ t.w \in Words(u.w)
  BY <1>1, LongerWords
<1>5. /\ Freq(bits, t.w, x) = Freq(bits, u.w, 2 * x) + Freq(bits, u.w, 2 * x + 1)
      /\ Freq(bits, t.w, x) = Freq(bits, u.w, x) + Freq(bits, u.w, x + 2 ^ t.w)
  BY <1>1, FreqByLastBit, FreqByFirstBit
<1> QED
  BY <1>2, <1>3, <1>4, <1>5, Zenon

\* For every sequence and all word lengths, the tables of approximate_entropy.go
\* and of serial.go agree with each other, with the ones of frequency.go and
\* with the runs of runs.go: the windows go once round a circle, and each of
\* the four tests, which read the bytes and the bits in ways of their own,
\* counts the same positions.
THEOREM WindowCountsAgree == Spec => []WindowsAgree
<1>1. IInv /\ WindowsInv => WindowsAgree
  <2> SUFFICES ASSUME IInv, WindowsInv, pc = "done" PROVE WindowsAgree
    BY DEF WindowsAgree
  <2> DEFINE tables == {t \in {counts.apen[k] : k \in DOMAIN counts.apen}
                         \cup {[w |-> s.w, P |-> s.P] :
                                 s \in {counts.serial[k] : k \in DOMAIN counts.serial}} :
                       t.w > 0}
  <2>1. IsSequence(bits) /\ counts.ones = OnesOf(bits)
    BY DEF IInv, ControlInv, BitsTyped, IsSequence, WindowsInv, OnesRightInv
  <2>2. counts.runs = 0 \/ counts.runs = 1 + ChangesOf(bits, n)
    BY DEF WindowsInv, RunsRightInv
  <2>3. ASSUME NEW t \in tables PROVE IsTable(t)
    <3>1. CASE t \in {counts.apen[k] : k \in DOMAIN counts.apen}
      <4>1. counts.apen = <<EntropyEntry(ApEnM), EntropyEntry(ApEnM + 1)>>
        BY DEF WindowsInv, EntropyInv
      <4>2. t = EntropyEntry(ApEnM) \/ t = EntropyEntry(ApEnM + 1)
        BY <3>1, <4>1
      <4>3. \A w \in Nat : w > 0 => IsTable(EntropyEntry(w))
        BY DEF IsTable, EntropyEntry
      <4> QED
        BY <4>2, <4>3, WordLengths
    <3>2. CASE t \in {[w |-> s.w, P |-> s.P] :
                         s \in {counts.serial[k] : k \in DOMAIN counts.serial}}
      <4>1. counts.serial = <<SerialEntry(SerialM), SerialEntry(SerialM - 1),
                              SerialEntry(SerialM - 2)>>
        BY DEF WindowsInv, SerialInv, AllSerialEntries
      <4>2. PICK k \in DOMAIN counts.serial :
               t = [w |-> counts.serial[k].w, P |-> counts.serial[k].P]
        BY <3>2
      <4>3. k \in {1, 2, 3}
        BY <4>1
      <4>4. counts.serial[k] \in {SerialEntry(SerialM), SerialEntry(SerialM - 1),
                                  SerialEntry(SerialM - 2)}
        BY <4>1, <4>3
      <4>5. PICK w \in Nat : counts.serial[k] = SerialEntry(w)
        BY <4>4, WordLengths
      <4>6. t = EntropyEntry(w)
        BY <4>2, <4>5 DEF SerialEntry, EntropyEntry
      <4>7. t.w > 0
        OBVIOUS
      <4> QED
        BY <4>6, <4>7 DEF IsTable, EntropyEntry
    <3> QED
      BY <3>1, <3>2
  <2> HIDE DEF tables
  <2>4. ASSUME NEW t \in tables
        PROVE  OfAll(t) = n /\ OfOnes(t) = counts.ones
    BY <2>1, <2>3, SumsOfTable
  <2>5. ASSUME NEW t \in tables, t.w = 2, counts.runs > 0
        PROVE  t.P[2 ^ t.w - 1 + 1] + t.P[2 ^ t.w - 1 + 2]
                 = counts.runs - 1 + (IF bits[0] = bits[n - 1] THEN 0 ELSE 1)
    <3>1. t.P[2 ^ t.w - 1 + 1] + t.P[2 ^ t.w - 1 + 2]
            = ChangesOf(bits, n) + (IF bits[0] = bits[n - 1] THEN 0 ELSE 1)
      BY <2>1, <2>3, <2>5, ChangesOfTable
    <3>2. counts.runs \in Nat /\ counts.runs = 1 + ChangesOf(bits, n)
      BY <2>2, <2>5, ConstantsFit DEF IInv, RunsInv
    <3>3. ChangesOf(bits, n) \in Int
      <4>1. IsFiniteSet({p \in 1..(n - 1) : bits[p] # bits[p - 1]})
        <5> DEFINE S == {p \in 1..(n - 1) : bits[p] # bits[p - 1]}
        <5>1. S \subseteq 1..(n - 1) /\ IsFiniteSet(1..(n - 1))
          BY FS_Interval, ConstantsFit, 1 \in Int, n - 1 \in Int
        <5> HIDE DEF S
        <5>2. IsFiniteSet(S)
          BY <5>1, FS_Subset
        <5> QED
          BY <5>2 DEF S
      <4> QED
        BY <4>1, FS_CardinalityType DEF ChangesOf
    <3>4. counts.runs - 1 = ChangesOf(bits, n)
      BY <3>2, <3>3
    <3> QED
      BY <3>1, <3>4, Zenon
  <2>6. ASSUME NEW t \in tables, NEW u \in tables, u.w = t.w + 1, NEW x \in Words(t.w)
        PROVE  /\ t.P[2 ^ t.w - 1 + x]
                    = u.P[2 ^ u.w - 1 + (2 * x)] + u.P[2 ^ u.w - 1 + (2 * x + 1)]
               /\ t.P[2 ^ t.w - 1 + x]
                    = u.P[2 ^ u.w - 1 + x] + u.P[2 ^ u.w - 1 + (x + 2 ^ t.w)]
    BY <2>1, <2>3, <2>6, TablesOfNeighbours
  <2> QED
    BY <2>4, <2>5, <2>6, Zenon DEF WindowsAgree, OfAll, OfOnes, tables
<1> QED
  BY <1>1, InvariantHolds, WindowsInvHolds, PTL

\* For every sequence and every word length, the arguments of the incomplete
\* gamma function in serial.go are not negative: both come down to
\* sums of squares, of how much more often a word goes on with 0 than with 1.
THEOREM SerialArguments == Spec => []SerialNonNegative
<1>1. IInv /\ WindowsInv => SerialNonNegative
  <2> SUFFICES ASSUME IInv, WindowsInv, Len(counts.serial) = 3 PROVE SerialNonNegative
    BY DEF SerialNonNegative
  <2>1. pc # "start" /\ counts.serial = AllSerialEntries
    <3>1. \A a, b : Len(<<>>) = 0 /\ Len(<<a>>) = 1 /\ Len(<<a, b>>) = 2
      OBVIOUS
    <3>2. SerialInv
      BY DEF WindowsInv
    <3>3. counts.serial # <<>> /\ counts.serial # <<SerialEntry(SerialM)>>
          /\ counts.serial # <<SerialEntry(SerialM), SerialEntry(SerialM - 1)>>
      <4>1. Len(counts.serial) # 0 /\ Len(counts.serial) # 1 /\ Len(counts.serial) # 2
        OBVIOUS
      <4> QED
        BY <3>1, <4>1, Zenon
    <3> QED
      BY <3>2, <3>3, Zenon DEF SerialInv
  <2>2. IsSequence(bits)
    BY <2>1 DEF IInv, ControlInv, BitsTyped, IsSequence
  <2> DEFINE psi(w) == psi2(w, TableOf(bits, w))
  <2>3. /\ psi(SerialM - 2) \in Int /\ psi(SerialM - 1) \in Int /\ psi(SerialM) \in Int
        /\ psi(SerialM - 1) - psi(SerialM - 2) >= 0
        /\ psi(SerialM) - 2 * psi(SerialM - 1) + psi(SerialM - 2) >= 0
    BY <2>2, PsiDifferences, WordLengths
  <2>4. /\ counts.serial[1].psi = psi(SerialM)
        /\ counts.serial[2].psi = psi(SerialM - 1)
        /\ counts.serial[3].psi = psi(SerialM - 2)
    BY <2>1 DEF AllSerialEntries, SerialEntry
  <2> HIDE DEF psi
  <2> QED
    BY <2>3, <2>4 DEF SerialNonNegative
<1> QED
  BY <1>1, InvariantHolds, WindowsInvHolds, PTL
-----------------------------------------------------------------------------
\* The classes of the longest run.

\* The greater of two numbers.
LEMMA MaxOfTwo ==
  ASSUME NEW a \in Int, NEW b \in Int
  PROVE  Max({a, b}) = IF a <= b THEN b ELSE a
<1>1. CASE a <= b
  <2>1. \A y \in {a, b} : y <= b
    BY <1>1
  <2> QED
    BY <1>1, <2>1, MaxIs
<1>2. CASE ~ a <= b
  <2>1. \A y \in {a, b} : y <= a
    BY <1>2
  <2> QED
    BY <1>2, <2>1, MaxIs
<1> QED
  BY <1>1, <1>2

\* The bounds of the classes are one number after the other.
LEMMA ClassBounds ==
  /\ Len(V) \in Nat /\ Len(V) >= 1 /\ DOMAIN V = 1..Len(V) /\ V[1] \in Nat
  /\ \A r \in DOMAIN V : V[r] = V[1] + r - 1
<1>1. V \in Seq(Nat) /\ V # <<>> /\ \A r \in 2..Len(V) : V[r] = V[r - 1] + 1
  BY PatternsAssumption
<1>2. Len(V) \in Nat /\ Len(V) >= 1 /\ DOMAIN V = 1..Len(V)
  BY <1>1
<1>3. \A r \in 1..Len(V) : V[r] \in Nat
  BY <1>1
<1>4. V[1] \in Nat
  BY <1>2, <1>3
<1> DEFINE N == Len(V) - 1
           T == {k \in 0..N : V[k + 1] = V[1] + k}
<1>5. 0 \in T /\ N \in Nat
  BY <1>2, <1>4
<1>6. ASSUME NEW k \in 0..(N - 1), k \in T PROVE k + 1 \in T
  <2>1. (k + 1) + 1 \in 2..Len(V) /\ ((k + 1) + 1) - 1 = k + 1 /\ k + 1 \in 0..N
    BY <1>2
  <2>2. V[(k + 1) + 1] = V[k + 1] + 1
    BY <1>1, <2>1
  <2>3. V[k + 1] = V[1] + k
    BY <1>6
  <2> QED
    BY <1>4, <2>1, <2>2, <2>3
<1>7. 0..N \subseteq T
  <2> HIDE DEF T, N
  <2> QED
    BY <1>5, <1>6, InductionUpTo
<1>8. ASSUME NEW r \in DOMAIN V PROVE V[r] = V[1] + r - 1
  <2>1. r - 1 \in 0..N /\ (r - 1) + 1 = r /\ r \in Int
    BY <1>2
  <2>2. V[(r - 1) + 1] = V[1] + (r - 1)
    BY <1>7, <2>1
  <2> QED
    BY <1>4, <2>1, <2>2
<1> QED
  BY <1>2, <1>4, <1>8

\* A length, moved to the nearest end of the classes if it is outside.
Clamped(x) == Min({Max({x, V[1]}), V[Len(V)]})

\* The one class of a length.
ClassIndex(x) == Clamped(x) - V[1] + 1

\* The switch finds that class and no other.
LEMMA ClassIs ==
  ASSUME NEW x \in Nat
  PROVE  /\ ClassIndex(x) \in DOMAIN V
         /\ \A r \in DOMAIN V : /\ r \in Class(x) <=> V[r] = Clamped(x)
                                /\ r \in Class(x) <=> r = ClassIndex(x)
<1> DEFINE N == Len(V)
           a == V[1]
           z == V[N]
           c == Clamped(x)
<1>1. /\ N \in Nat /\ N >= 1 /\ DOMAIN V = 1..N /\ a \in Nat
      /\ \A r \in 1..N : V[r] = a + r - 1
  BY ClassBounds
<1>2. z = a + N - 1 /\ z \in Nat /\ a <= z
  <2>1. z = a + N - 1
    BY <1>1
  <2> HIDE DEF z
  <2> QED
    BY <1>1, <2>1
<1>3. c = IF x < a THEN a ELSE IF x > z THEN z ELSE x
  <2>1. Max({x, a}) = IF x <= a THEN a ELSE x
    <3>1. x \in Int /\ a \in Int
      BY <1>1
    <3> HIDE DEF a
    <3> QED
      BY <3>1, MaxOfTwo, Zenon
  <2> DEFINE m == Max({x, a})
  <2>2. m \in Int
    BY <1>1, <2>1
  <2>3. c = Min({m, z})
    BY DEF Clamped
  <2> HIDE DEF m, c
  <2>4. c = IF m <= z THEN m ELSE z
    BY <1>2, <2>2, <2>3, MinOfTwo
  <2>5. m = IF x <= a THEN a ELSE x
    BY <2>1 DEF m
  <2> HIDE DEF a, z
  <2> QED
    BY <1>1, <1>2, <2>4, <2>5
<1>4. Class(x) = IF x < a THEN {1} ELSE IF x > z THEN {N} ELSE {r \in DOMAIN V : V[r] = x}
  BY DEF Class
<1>5. ClassIndex(x) = c - a + 1
  BY DEF ClassIndex
<1> HIDE DEF N, a, z, c
<1>6. c \in Nat /\ a <= c /\ c <= z
  BY <1>1, <1>2, <1>3
<1>7. c - a + 1 \in 1..N
  BY <1>1, <1>2, <1>6
<1>8. ASSUME NEW r \in 1..N
      PROVE  (r \in Class(x) <=> V[r] = c) /\ (V[r] = c <=> r = c - a + 1)
  <2>1. V[r] = a + r - 1
    BY <1>1
  <2>2. V[r] = c <=> r = c - a + 1
    BY <1>1, <1>6, <2>1
  <2>3. r \in Class(x) <=> V[r] = c
    <3>1. CASE x < a
      BY <1>1, <1>3, <1>4, <2>1, <3>1
    <3>2. CASE ~ x < a /\ x > z
      BY <1>1, <1>2, <1>3, <1>4, <2>1, <3>2
    <3>3. CASE ~ x < a /\ ~ x > z
      BY <1>1, <1>3, <1>4, <3>3
    <3> QED
      BY <3>1, <3>2, <3>3
  <2> QED
    BY <2>2, <2>3
<1> QED
  BY <1>1, <1>5, <1>7, <1>8 DEF c
-----------------------------------------------------------------------------
\* Maximal runs of ones in the block of len bits from base on.

OneAt(base, len, j) == j \in base..(base + len - 1) /\ bits[j] = 1

\* Ones only, from a to c.
Stretch(base, len, a, c) == /\ a \in Int /\ c \in Int /\ a <= c
                            /\ \A j \in a..c : OneAt(base, len, j)

\* What is a maximal run.
LEMMA RunIs ==
  ASSUME NEW base \in Nat, NEW len \in Nat, NEW a, NEW c
  PROVE  <<a, c>> \in RunsOfOnes(base, len)
            <=> /\ Stretch(base, len, a, c)
                /\ ~ OneAt(base, len, a - 1) /\ ~ OneAt(base, len, c + 1)
<1>1. Stretch(base, len, a, c) => a \in base..(base + len - 1) /\ c \in base..(base + len - 1)
  <2> SUFFICES ASSUME Stretch(base, len, a, c)
               PROVE  a \in base..(base + len - 1) /\ c \in base..(base + len - 1)
    OBVIOUS
  <2>1. a \in a..c /\ c \in a..c
    BY DEF Stretch
  <2> QED
    BY <2>1 DEF Stretch, OneAt
<1>2. a \in base..(base + len - 1) => a \in Int
  OBVIOUS
<1>3. c \in base..(base + len - 1) => c \in Int
  OBVIOUS
<1> QED
  BY <1>1, <1>2, <1>3 DEF RunsOfOnes, Stretch, OneAt

\* A maximal run is a pair.
LEMMA RunIsPair ==
  ASSUME NEW base, NEW len, NEW e \in RunsOfOnes(base, len)
  PROVE  e = <<e[1], e[2]>>
BY DEF RunsOfOnes

\* Every stretch lies in a maximal run.
LEMMA StretchInRun ==
  ASSUME NEW base \in Nat, NEW len \in Nat, NEW a, NEW c, Stretch(base, len, a, c)
  PROVE  \E e \in RunsOfOnes(base, len) : e[1] <= a /\ c <= e[2]
<1> DEFINE one(j) == OneAt(base, len, j)
           Backward == {x \in Nat : x <= a /\ \A j \in x..c : one(j)}
<1>1. a \in Int /\ c \in Int /\ a <= c /\ \A j \in a..c : one(j)
  BY DEF Stretch
<1>2. \A j : one(j) => j \in Nat /\ j <= base + len - 1
  BY DEF OneAt
<1>3. a \in Backward
  <2>1. a \in a..c
    BY <1>1
  <2> QED
    BY <1>1, <1>2, <2>1
<1> HIDE DEF one
<1>4. PICK lo \in Backward : \A y \in Backward : lo <= y
  BY <1>3, LeastOf
<1>5. lo \in Nat /\ lo <= a /\ \A j \in lo..c : one(j)
  OBVIOUS
<1>6. ~ one(lo - 1)
  <2> SUFFICES ASSUME one(lo - 1) PROVE FALSE
    OBVIOUS
  <2>1. lo - 1 \in Nat /\ lo - 1 <= a
    BY <1>1, <1>2, <1>5
  <2>2. \A j \in (lo - 1)..c : j = lo - 1 \/ j \in lo..c
    BY <1>1, <1>5
  <2>3. lo - 1 \in Backward
    BY <1>5, <2>1, <2>2
  <2> QED
    BY <1>4, <1>5, <2>3
<1> HIDE DEF Backward
<1> DEFINE last == base + len - 1
           Onward == {y \in 0..last : c <= y /\ \A j \in lo..y : one(j)}
<1>7. c \in Onward /\ last \in Nat
  <2>1. c \in lo..c
    BY <1>1, <1>5
  <2>2. c \in Nat /\ c <= last
    BY <1>2, <1>5, <2>1
  <2>3. last \in Int
    OBVIOUS
  <2> HIDE DEF last
  <2> QED
    BY <1>5, <2>2, <2>3
<1> HIDE DEF last
<1>8. PICK hi \in Onward : \A y \in Onward : y <= hi
  BY <1>7, GreatestOf
<1>9. hi \in Nat /\ c <= hi /\ hi <= last /\ \A j \in lo..hi : one(j)
  BY <1>7
<1>10. ~ one(hi + 1)
  <2> SUFFICES ASSUME one(hi + 1) PROVE FALSE
    OBVIOUS
  <2>1. hi + 1 \in 0..last /\ c <= hi + 1
    BY <1>1, <1>2, <1>7, <1>9 DEF last
  <2>2. \A j \in lo..(hi + 1) : j = hi + 1 \/ j \in lo..hi
    BY <1>5, <1>9
  <2>3. hi + 1 \in Onward
    BY <1>9, <2>1, <2>2
  <2> QED
    BY <1>8, <1>9, <2>3
<1>11. Stretch(base, len, lo, hi)
  BY <1>1, <1>5, <1>9 DEF Stretch, one
<1>12. <<lo, hi>> \in RunsOfOnes(base, len)
  BY <1>6, <1>10, <1>11, RunIs DEF one
<1> QED
  BY <1>5, <1>9, <1>12

\* Two maximal runs that share a position are one.
LEMMA RunsApart ==
  ASSUME NEW base \in Nat, NEW len \in Nat,
         NEW e \in RunsOfOnes(base, len), NEW f \in RunsOfOnes(base, len),
         NEW j \in Int, e[1] <= j, j <= e[2], f[1] <= j, j <= f[2]
  PROVE  e = f
<1> DEFINE one(k) == OneAt(base, len, k)
<1>1. /\ e = <<e[1], e[2]>> /\ f = <<f[1], f[2]>>
      /\ Stretch(base, len, e[1], e[2]) /\ ~ one(e[1] - 1) /\ ~ one(e[2] + 1)
      /\ Stretch(base, len, f[1], f[2]) /\ ~ one(f[1] - 1) /\ ~ one(f[2] + 1)
  BY RunIs, RunIsPair
<1>2. /\ e[1] \in Int /\ e[2] \in Int /\ \A k \in e[1]..e[2] : one(k)
      /\ f[1] \in Int /\ f[2] \in Int /\ \A k \in f[1]..f[2] : one(k)
  BY <1>1 DEF Stretch
<1> HIDE DEF one
<1>3. e[1] - 1 \notin f[1]..f[2] /\ e[2] + 1 \notin f[1]..f[2]
  BY <1>1, <1>2
<1>4. f[1] - 1 \notin e[1]..e[2] /\ f[2] + 1 \notin e[1]..e[2]
  BY <1>1, <1>2
<1>5. e[1] = f[1] /\ e[2] = f[2]
  BY <1>2, <1>3, <1>4
<1> QED
  BY <1>1, <1>5

\* There are finitely many.
LEMMA RunsAreFinite ==
  ASSUME NEW base \in Nat, NEW len \in Nat
  PROVE  IsFiniteSet(RunsOfOnes(base, len))
<1> DEFINE B == base..(base + len - 1)
<1>1. IsFiniteSet(B)
  BY FS_Interval, base + len - 1 \in Int
<1>2. IsFiniteSet(B \X B)
  <2> HIDE DEF B
  <2> QED
    BY <1>1, FS_Product
<1>3. RunsOfOnes(base, len) \subseteq B \X B
  BY DEF RunsOfOnes
<1> HIDE DEF B
<1> QED
  BY <1>2, <1>3, FS_Subset
-----------------------------------------------------------------------------
\* The scan of a block by longest_run.go.

AllOnes(a, c) == \A k \in a..c : bits[k] = 1

\* After j bits run is the length of the ones they end in, and longest that of
\* the longest stretch of ones in them.
ScanIsAt(base, j, run, longest) ==
    /\ run \in 0..j /\ AllOnes(base + j - run, base + j - 1)
    /\ \A a \in base..(base + j - 1) : AllOnes(a, base + j - 1) => base + j - a <= run
    /\ longest \in Nat
    /\ \A a, c \in base..(base + j - 1) : a <= c /\ AllOnes(a, c) => c - a + 1 <= longest
    /\ \/ longest = 0
       \/ \E a, c \in base..(base + j - 1) : a <= c /\ AllOnes(a, c) /\ c - a + 1 = longest

\* One bit more.
LEMMA ScanGoesOn ==
  ASSUME NEW base \in Nat, NEW j \in Nat, NEW run, NEW longest, ScanIsAt(base, j, run, longest),
         NEW next, next = IF bits[base + j] = 1 THEN run + 1 ELSE 0
  PROVE  ScanIsAt(base, j + 1, next, Max({next, longest}))
<1> DEFINE e == base + j
           top == Max({next, longest})
<1>1. /\ run \in 0..j /\ \A k \in (e - run)..(e - 1) : bits[k] = 1
      /\ longest \in Nat /\ e \in Nat /\ base <= e
  BY DEF ScanIsAt, AllOnes
<1>2. next \in 0..(j + 1) /\ next \in Nat
  BY <1>1
<1>3. top \in Nat /\ next <= top /\ longest <= top /\ (top = next \/ top = longest)
  <2>1. top = IF next <= longest THEN longest ELSE next
    BY <1>1, <1>2, MaxOfTwo
  <2> HIDE DEF top
  <2> QED
    BY <1>1, <1>2, <2>1
<1>4. /\ base + (j + 1) = e + 1 /\ (e + 1) - 1 = e
      /\ \A a : a \in base..e <=> a \in base..(e - 1) \/ a = e
  BY <1>1
<1> HIDE DEF top
<1>5. AllOnes(e + 1 - next, e)
  <2>1. CASE bits[e] = 1
    <3>1. e + 1 - next = e - run
      BY <1>1, <2>1
    <3>2. \A k \in (e - run)..e : k = e \/ k \in (e - run)..(e - 1)
      BY <1>1
    <3> QED
      BY <1>1, <2>1, <3>1, <3>2 DEF AllOnes
  <2>2. CASE bits[e] # 1
    <3>1. (e + 1 - next)..e = {}
      BY <1>1, <2>2
    <3> QED
      BY <3>1 DEF AllOnes
  <2> QED
    BY <2>1, <2>2
<1>6. ASSUME NEW a \in base..e, AllOnes(a, e) PROVE e + 1 - a <= next
  <2>1. bits[e] = 1
    <3>1. e \in a..e
      BY <1>1
    <3> QED
      BY <1>6, <3>1 DEF AllOnes
  <2>2. next = run + 1
    BY <2>1
  <2>3. CASE a = e
    BY <1>1, <2>2, <2>3
  <2>4. CASE a \in base..(e - 1)
    <3>1. AllOnes(a, e - 1)
      <4>1. \A k \in a..(e - 1) : k \in a..e
        BY <1>1
      <4> QED
        BY <1>6, <4>1 DEF AllOnes
    <3>2. e - a <= run
      BY <2>4, <3>1 DEF ScanIsAt
    <3> QED
      BY <1>1, <2>2, <3>2
  <2> QED
    BY <1>4, <2>3, <2>4
<1>7. ASSUME NEW a \in base..e, NEW c \in base..e, a <= c, AllOnes(a, c)
      PROVE  c - a + 1 <= top
  <2>1. CASE c = e
    <3>1. e + 1 - a <= next
      BY <1>6, <1>7, <2>1
    <3> QED
      BY <1>1, <1>2, <1>3, <2>1, <3>1
  <2>2. CASE c \in base..(e - 1)
    <3>1. a \in base..(e - 1)
      BY <1>1, <1>7, <2>2
    <3>2. c - a + 1 <= longest
      BY <1>7, <2>2, <3>1 DEF ScanIsAt
    <3> QED
      BY <1>1, <1>3, <2>2, <3>2
  <2> QED
    BY <1>4, <2>1, <2>2
<1>8. \/ top = 0
      \/ \E a, c \in base..e : a <= c /\ AllOnes(a, c) /\ c - a + 1 = top
  <2>1. CASE top = next
    <3>1. CASE next = 0
      BY <2>1, <3>1
    <3>2. CASE next # 0
      <4>1. e + 1 - next \in base..e /\ e \in base..e /\ e - (e + 1 - next) + 1 = next
        BY <1>1, <1>2, <3>2
      <4>2. e + 1 - next <= e
        BY <1>1, <1>2, <3>2
      <4> QED
        BY <1>5, <2>1, <4>1, <4>2
    <3> QED
      BY <3>1, <3>2
  <2>2. CASE top = longest
    <3>1. CASE longest = 0
      BY <2>2, <3>1
    <3>2. CASE longest # 0
      <4>1. PICK a \in base..(e - 1), c \in base..(e - 1) :
               a <= c /\ AllOnes(a, c) /\ c - a + 1 = longest
        BY <3>2 DEF ScanIsAt
      <4> QED
        BY <1>4, <2>2, <4>1
    <3> QED
      BY <3>1, <3>2
  <2> QED
    BY <1>3, <2>1, <2>2
<1> HIDE DEF e
<1> DEFINE d == base + (j + 1)
<1>9. d = e + 1 /\ d - 1 = e /\ e \in Int
  BY <1>1, <1>4
<1> HIDE DEF d
<1>10. /\ AllOnes(d - next, d - 1)
       /\ \A a \in base..(d - 1) : AllOnes(a, d - 1) => d - a <= next
       /\ \A a, c \in base..(d - 1) : a <= c /\ AllOnes(a, c) => c - a + 1 <= top
       /\ \/ top = 0
          \/ \E a, c \in base..(d - 1) : a <= c /\ AllOnes(a, c) /\ c - a + 1 = top
  BY <1>5, <1>6, <1>7, <1>8, <1>9
<1> QED
  BY <1>2, <1>3, <1>10 DEF ScanIsAt, top, d

\* What the scan of Longest computes, bit by bit.
ScanValues == [run : Nat, longest : Nat]
IsScan(g, base) ==
    /\ g \in [0..RunM -> ScanValues] /\ g[0] = [run |-> 0, longest |-> 0]
    /\ \A j \in 1..RunM :
         LET run == IF bits[base + j - 1] = 1 THEN g[j - 1].run + 1 ELSE 0
         IN g[j] = [run |-> run, longest |-> Max({run, g[j - 1].longest})]

\* There is such a function.
LEMMA ScanExists ==
  ASSUME NEW base \in Nat PROVE \E g : IsScan(g, base)
<1> DEFINE run(j, s) == IF bits[base + j - 1] = 1 THEN s.run + 1 ELSE 0
           value(j, s) == [run |-> run(j, s), longest |-> Max({run(j, s), s.longest})]
           step == [j \in 1..RunM |-> [s \in ScanValues |-> value(j, s)]]
           start == [run |-> 0, longest |-> 0]
<1>1. RunM \in Nat
  BY ConstantsFit
<1>2. start \in ScanValues
  BY DEF ScanValues
<1>3. \A j \in 1..RunM : \A s \in ScanValues : value(j, s) \in ScanValues
  <2> TAKE j \in 1..RunM
  <2> TAKE s \in ScanValues
  <2>1. s.run \in Nat /\ s.longest \in Nat
    BY DEF ScanValues
  <2>2. run(j, s) \in Nat
    BY <2>1
  <2> HIDE DEF run
  <2>3. Max({run(j, s), s.longest}) \in Nat
    BY <2>1, <2>2, MaxOfTwo
  <2> QED
    BY <2>2, <2>3 DEF ScanValues
<1>4. /\ step \in [1..RunM -> [ScanValues -> ScanValues]]
      /\ \A j \in 1..RunM : \A s \in ScanValues : step[j][s] = value(j, s)
  <2> HIDE DEF value
  <2> QED
    BY <1>3
<1> HIDE DEF step, start
<1>5. PICK g : BuiltUp(g, RunM, ScanValues, start, step)
  BY <1>1, <1>2, <1>4, RecursionUpTo
<1>6. g \in [0..RunM -> ScanValues] /\ g[0] = start
  BY <1>5 DEF BuiltUp
<1>7. ASSUME NEW j \in 1..RunM PROVE g[j] = value(j, g[j - 1])
  <2>1. j - 1 \in 0..RunM
    BY <1>1
  <2>2. g[j] = step[j][g[j - 1]] /\ g[j - 1] \in ScanValues
    BY <1>5, <1>6, <2>1 DEF BuiltUp
  <2> HIDE DEF value
  <2> QED
    BY <1>4, <2>2
<1> QED
  BY <1>6, <1>7 DEF IsScan, start

\* Longest is where it ends.
LEMMA LongestIsScanned ==
  ASSUME NEW base \in Nat, NEW h, IsScan(h, base)
  PROVE  Longest(base) = h[RunM].longest
<1> DEFINE value(j, s) == LET run == IF bits[base + j - 1] = 1 THEN s.run + 1
                                     ELSE AfterZero(s.run)
                          IN [run |-> run, longest |-> Max({run, s.longest})]
           start == [run |-> 0, longest |-> 0]
           e(r) == [j \in 0..RunM |-> IF j = 0 THEN start ELSE value(j, r[j - 1])]
           scan == CHOOSE r : r = e(r)
<1>1. RunM \in Nat
  BY ConstantsFit
<1>2. /\ h \in [0..RunM -> ScanValues] /\ h[0] = start
      /\ \A j \in 1..RunM : h[j] = value(j, h[j - 1])
  BY DEF IsScan, AfterZero
<1>3. Longest(base) = scan[RunM].longest
  BY DEF Longest
<1> HIDE DEF value, start
<1>4. h = e(h)
  <2>1. \A j \in 0..RunM : j # 0 => j \in 1..RunM
    BY <1>1
  <2>2. \A j \in 0..RunM : h[j] = IF j = 0 THEN start ELSE value(j, h[j - 1])
    BY <1>2, <2>1
  <2>3. h = [j \in 0..RunM |-> h[j]]
    BY <1>2
  <2> QED
    BY <2>2, <2>3
<1>5. scan = e(scan)
  BY <1>4, Zenon
<1> HIDE DEF scan
<1>6. \A j \in 0..RunM : scan[j] = IF j = 0 THEN start ELSE value(j, scan[j - 1])
  <2> DEFINE g == e(scan)
  <2>1. \A j \in 0..RunM : g[j] = IF j = 0 THEN start ELSE value(j, scan[j - 1])
    OBVIOUS
  <2>2. scan = g
    BY <1>5
  <2> HIDE DEF g
  <2> QED
    BY <2>1, <2>2
<1> DEFINE T == {j \in 0..RunM : scan[j] = h[j]}
<1>7. 0 \in T
  BY <1>1, <1>2, <1>6
<1>8. ASSUME NEW j \in 0..(RunM - 1), j \in T PROVE j + 1 \in T
  <2>1. j + 1 \in 1..RunM /\ j + 1 \in 0..RunM /\ (j + 1) - 1 = j /\ j + 1 # 0
    BY <1>1
  <2>2. scan[j + 1] = value(j + 1, scan[j]) /\ h[j + 1] = value(j + 1, h[j])
    BY <1>2, <1>6, <2>1
  <2> QED
    BY <1>8, <2>1, <2>2
<1> HIDE DEF T
<1>9. 0..RunM \subseteq T
  BY <1>1, <1>7, <1>8, InductionUpTo
<1>10. RunM \in T
  BY <1>1, <1>9
<1> QED
  BY <1>3, <1>10 DEF T

\* The scan finds the greatest length of a maximal run, and 0 without one.
LEMMA LongestIsGreatest ==
  ASSUME NEW base \in Nat
  PROVE  /\ Longest(base) \in Nat
         /\ Longest(base) = Max({0} \cup RunLengths(base, RunM))
<1>1. RunM \in Nat
  BY ConstantsFit
<1>2. PICK g : IsScan(g, base)
  BY ScanExists
<1> DEFINE T == {j \in 0..RunM : ScanIsAt(base, j, g[j].run, g[j].longest)}
<1>3. 0 \in T
  <2>1. g[0].run = 0 /\ g[0].longest = 0 /\ 0 \in 0..RunM
    BY <1>1, <1>2 DEF IsScan
  <2>2. ScanIsAt(base, 0, 0, 0)
    BY DEF ScanIsAt, AllOnes
  <2> QED
    BY <2>1, <2>2
<1>4. ASSUME NEW j \in 0..(RunM - 1), j \in T PROVE j + 1 \in T
  <2> DEFINE next == IF bits[base + j] = 1 THEN g[j].run + 1 ELSE 0
  <2>1. /\ j + 1 \in 1..RunM /\ j + 1 \in 0..RunM /\ (j + 1) - 1 = j /\ j \in Nat
        /\ base + (j + 1) - 1 = base + j
    BY <1>1
  <2>2. ScanIsAt(base, j, g[j].run, g[j].longest)
    BY <1>4
  <2>3. g[j + 1] = [run |-> next, longest |-> Max({next, g[j].longest})]
    BY <1>2, <2>1 DEF IsScan
  <2>4. ScanIsAt(base, j + 1, next, Max({next, g[j].longest}))
    BY <2>1, <2>2, ScanGoesOn
  <2> HIDE DEF next
  <2> QED
    BY <2>1, <2>3, <2>4
<1> HIDE DEF T
<1>5. 0..RunM \subseteq T
  BY <1>1, <1>3, <1>4, InductionUpTo
<1> DEFINE longest == g[RunM].longest
           S == {0} \cup RunLengths(base, RunM)
<1>6. ScanIsAt(base, RunM, g[RunM].run, longest)
  <2>1. RunM \in T
    BY <1>1, <1>5
  <2> QED
    BY <2>1 DEF T
<1>7. Longest(base) = longest
  BY <1>2, LongestIsScanned
<1> HIDE DEF longest
<1>8. longest \in Nat
  BY <1>6 DEF ScanIsAt
<1>9. ASSUME NEW e \in RunsOfOnes(base, RunM)
      PROVE  e[2] - e[1] + 1 \in Int /\ e[2] - e[1] + 1 <= longest
  <2>1. Stretch(base, RunM, e[1], e[2])
    BY <1>1, RunIs, RunIsPair
  <2>2. /\ e[1] \in Int /\ e[2] \in Int /\ e[1] <= e[2]
        /\ \A k \in e[1]..e[2] : k \in base..(base + RunM - 1) /\ bits[k] = 1
    BY <2>1 DEF Stretch, OneAt
  <2>3. e[1] \in base..(base + RunM - 1) /\ e[2] \in base..(base + RunM - 1)
    BY <2>2
  <2> QED
    BY <1>6, <2>2, <2>3 DEF ScanIsAt, AllOnes
<1>10. S \in SUBSET Int /\ \A y \in S : y <= longest
  BY <1>8, <1>9 DEF RunLengths
<1>11. longest \in S
  <2>1. CASE longest = 0
    BY <2>1
  <2>2. CASE longest # 0
    <3>1. PICK a \in base..(base + RunM - 1), c \in base..(base + RunM - 1) :
             a <= c /\ AllOnes(a, c) /\ c - a + 1 = longest
      BY <1>6, <2>2 DEF ScanIsAt
    <3>2. Stretch(base, RunM, a, c)
      <4>1. \A k \in a..c : k \in base..(base + RunM - 1)
        BY <1>1
      <4> QED
        BY <3>1, <4>1 DEF Stretch, OneAt, AllOnes
    <3>3. PICK e \in RunsOfOnes(base, RunM) : e[1] <= a /\ c <= e[2]
      BY <1>1, <3>2, StretchInRun
    <3>4. e[1] \in Int /\ e[2] \in Int
      BY <1>1, RunIs, RunIsPair DEF Stretch
    <3>5. e[2] - e[1] + 1 = longest
      BY <1>1, <1>8, <1>9, <3>1, <3>3, <3>4
    <3> QED
      BY <3>5 DEF RunLengths
  <2> QED
    BY <2>1, <2>2
<1> HIDE DEF S
<1> QED
  BY <1>7, <1>8, <1>10, <1>11, MaxIs DEF S
-----------------------------------------------------------------------------
\* The matches of the template of ones.

\* As many ones as positions are ones only.
LEMMA OnesEverywhere ==
  ASSUME NEW p \in Int, NEW len \in Nat
  PROVE  OnesIn(p, len) = len <=> AllOnes(p, p + len - 1)
<1> DEFINE U == p..(p + len - 1)
           S == {k \in U : bits[k] = 1}
<1>1. IsFiniteSet(U) /\ Cardinality(U) = len
  <2>1. p + len - 1 \in Int
    OBVIOUS
  <2>2. IsFiniteSet(U) /\ Cardinality(U) = IF p > p + len - 1 THEN 0 ELSE p + len - 1 - p + 1
    BY <2>1, FS_Interval
  <2>3. (IF p > p + len - 1 THEN 0 ELSE p + len - 1 - p + 1) = len
    OBVIOUS
  <2> HIDE DEF U
  <2> QED
    BY <2>2, <2>3
<1>2. OnesIn(p, len) = Cardinality(S)
  BY DEF OnesIn
<1>3. AllOnes(p, p + len - 1) <=> S = U
  BY DEF AllOnes
<1>4. S \subseteq U
  OBVIOUS
<1> HIDE DEF S, U
<1>5. ASSUME S # U PROVE Cardinality(S) # len
  <2>1. PICK x \in U : x \notin S
    BY <1>4, <1>5
  <2>2. /\ IsFiniteSet(U \ {x}) /\ Cardinality(U \ {x}) \in Nat
        /\ Cardinality(U) = Cardinality(U \ {x}) + 1
    BY <1>1, OneLess
  <2>3. S \subseteq U \ {x}
    BY <1>4, <2>1
  <2>4. Cardinality(S) <= Cardinality(U \ {x}) /\ IsFiniteSet(S)
    BY <2>2, <2>3, FS_Subset
  <2>5. Cardinality(S) \in Nat
    BY <2>4, FS_CardinalityType
  <2> QED
    BY <1>1, <2>2, <2>4, <2>5
<1> QED
  BY <1>1, <1>2, <1>3, <1>5

\* A match at offset j lies in the run e.
MatchInRun(base, j, e) == e[1] <= base + j /\ base + j + TemplateLen - 1 <= e[2]

\* A match lies in one run, and what lies in a run matches.
LEMMA MatchIsInRun ==
  ASSUME NEW base \in Nat, NEW j \in 0..(OnesM - TemplateLen)
  PROVE  /\ OnesIn(base + j, TemplateLen) = TemplateLen
              <=> \E e \in RunsOfOnes(base, OnesM) : MatchInRun(base, j, e)
         /\ \A e, f \in RunsOfOnes(base, OnesM) :
              MatchInRun(base, j, e) /\ MatchInRun(base, j, f) => e = f
<1> DEFINE p == base + j
           R == RunsOfOnes(base, OnesM)
<1>1. /\ TemplateLen \in Nat /\ TemplateLen >= 1 /\ OnesM \in Nat /\ OnesM >= TemplateLen
      /\ j \in Nat /\ j <= OnesM - TemplateLen /\ p \in Nat /\ p + TemplateLen - 1 \in Int
  BY ConstantsFit
<1>2. \A e \in R : /\ e[1] \in Int /\ e[2] \in Int
                   /\ \A k \in e[1]..e[2] : bits[k] = 1
  BY <1>1, RunIs, RunIsPair DEF Stretch, OneAt
<1>3. OnesIn(p, TemplateLen) = TemplateLen <=> AllOnes(p, p + TemplateLen - 1)
  BY <1>1, OnesEverywhere
<1>4. ASSUME AllOnes(p, p + TemplateLen - 1) PROVE \E e \in R : MatchInRun(base, j, e)
  <2>1. Stretch(base, OnesM, p, p + TemplateLen - 1)
    <3>1. \A k \in p..(p + TemplateLen - 1) : k \in base..(base + OnesM - 1)
      BY <1>1
    <3>2. p <= p + TemplateLen - 1 /\ p \in Int
      BY <1>1
    <3> QED
      BY <1>1, <1>4, <3>1, <3>2 DEF Stretch, OneAt, AllOnes
  <2> QED
    BY <1>1, <2>1, StretchInRun DEF MatchInRun
<1>5. ASSUME NEW e \in R, MatchInRun(base, j, e) PROVE AllOnes(p, p + TemplateLen - 1)
  <2>1. \A k \in p..(p + TemplateLen - 1) : k \in e[1]..e[2]
    BY <1>1, <1>2, <1>5 DEF MatchInRun
  <2> QED
    BY <1>2, <2>1 DEF AllOnes
<1>6. ASSUME NEW e \in R, NEW f \in R, MatchInRun(base, j, e), MatchInRun(base, j, f)
      PROVE  e = f
  <2>1. e[1] <= p /\ p <= e[2] /\ f[1] <= p /\ p <= f[2] /\ p \in Int
    BY <1>1, <1>2, <1>6 DEF MatchInRun
  <2> QED
    BY <1>1, <2>1, RunsApart
<1> QED
  BY <1>3, <1>4, <1>5, <1>6

\* How many matches a run holds.
Holds(e) == Max({0, e[2] - e[1] + 2 - TemplateLen})

\* The matches of a block are counted run by run.
LEMMA MatchesByRun ==
  ASSUME NEW base \in Nat
  PROVE  /\ OnesMatches(base) \in Nat
         /\ OnesMatches(base)
              = SumFunction([e \in RunsOfOnes(base, OnesM) |->
                               Max({0, e[2] - e[1] + 2 - TemplateLen})])
<1> DEFINE R == RunsOfOnes(base, OnesM)
           J == {j \in 0..(OnesM - TemplateLen) :
                    OnesIn(base + j, TemplateLen) = TemplateLen}
           g == [j \in J |-> CHOOSE e \in R : MatchInRun(base, j, e)]
           count == [e \in R |-> Cardinality({j \in J : g[j] = e})]
           held == [e \in R |-> Max({0, e[2] - e[1] + 2 - TemplateLen})]
<1>1. /\ TemplateLen \in Nat /\ TemplateLen >= 1 /\ OnesM \in Nat /\ OnesM >= TemplateLen
      /\ OnesM - TemplateLen \in Nat
  BY ConstantsFit
<1>2. IsFiniteSet(J) /\ Cardinality(J) \in Nat
  <2>1. IsFiniteSet(0..(OnesM - TemplateLen))
    BY <1>1, FS_Interval
  <2>2. J \subseteq 0..(OnesM - TemplateLen)
    OBVIOUS
  <2> HIDE DEF J
  <2> QED
    BY <2>1, <2>2, FS_Subset, FS_CardinalityType
<1>3. IsFiniteSet(R)
  BY <1>1, RunsAreFinite
<1>4. \A j \in J : g[j] \in R /\ MatchInRun(base, j, g[j])
  <2> TAKE j \in J
  <2>1. \E e \in R : MatchInRun(base, j, e)
    BY MatchIsInRun
  <2>2. g[j] = CHOOSE e \in R : MatchInRun(base, j, e)
    OBVIOUS
  <2> HIDE DEF g, R
  <2> QED
    BY <2>1, <2>2
<1>5. g \in [J -> R]
  <2>1. g = [j \in J |-> g[j]]
    OBVIOUS
  <2> HIDE DEF g, J
  <2> QED
    BY <1>4, <2>1
<1> HIDE DEF g
<1>6. SumFunctionOnSet(count, R) = Cardinality(J)
  <2> HIDE DEF R, J
  <2> QED
    BY <1>2, <1>3, <1>5, CountsAddUp
<1>7. ASSUME NEW e \in R PROVE Cardinality({j \in J : g[j] = e}) = Holds(e)
  <2> DEFINE a == e[1] - base
             c == e[2] - base - TemplateLen + 1
  <2>1. /\ e[1] \in Int /\ e[2] \in Int /\ e[1] <= e[2]
        /\ \A k \in e[1]..e[2] : k \in base..(base + OnesM - 1)
    BY <1>1, RunIs, RunIsPair DEF Stretch, OneAt
  <2>2. e[1] >= base /\ e[2] <= base + OnesM - 1
    BY <2>1
  <2>3. a \in Nat /\ c \in Int /\ c <= OnesM - TemplateLen
    BY <1>1, <2>1, <2>2
  <2>4. \A j \in Int : MatchInRun(base, j, e) <=> j \in a..c
    <3> TAKE j \in Int
    <3>1. j \in a..c <=> a <= j /\ j <= c
      BY <2>3
    <3> QED
      BY <1>1, <2>1, <3>1 DEF MatchInRun
  <2>5. \A j \in a..c : j \in J
    <3> TAKE j \in a..c
    <3>1. j \in 0..(OnesM - TemplateLen) /\ j \in Int
      BY <1>1, <2>3
    <3>2. MatchInRun(base, j, e)
      BY <2>4, <3>1
    <3> QED
      BY <3>1, <3>2, MatchIsInRun
  <2>6. {j \in J : g[j] = e} = a..c
    <3>1. ASSUME NEW j \in J, g[j] = e PROVE j \in a..c
      <4>1. MatchInRun(base, j, e) /\ j \in Int
        BY <1>1, <1>4, <3>1
      <4> QED
        BY <2>4, <4>1
    <3>2. ASSUME NEW j \in a..c PROVE j \in J /\ g[j] = e
      <4>1. j \in J /\ j \in Int
        BY <2>3, <2>5
      <4>2. MatchInRun(base, j, e) /\ MatchInRun(base, j, g[j]) /\ g[j] \in R
        BY <1>4, <2>4, <4>1
      <4>3. j \in 0..(OnesM - TemplateLen)
        BY <4>1
      <4> QED
        BY <4>1, <4>2, <4>3, MatchIsInRun
    <3> HIDE DEF a, c, J
    <3> QED
      BY <3>1, <3>2
  <2>7. Cardinality(a..c) = IF a > c THEN 0 ELSE c - a + 1
    <3> HIDE DEF a, c
    <3> QED
      BY <2>3, FS_Interval
  <2> DEFINE d == e[2] - e[1] + 2 - TemplateLen
  <2>8. d \in Int /\ Max({0, d}) = IF 0 <= d THEN d ELSE 0
    <3>1. d \in Int
      BY <1>1, <2>1
    <3> HIDE DEF d
    <3> QED
      BY <3>1, MaxOfTwo, 0 \in Int
  <2>9. (IF a > c THEN 0 ELSE c - a + 1) = IF 0 <= d THEN d ELSE 0
    BY <1>1, <2>1
  <2>10. Holds(e) = Max({0, d})
    BY DEF Holds
  <2> HIDE DEF a, c, d, J
  <2> QED
    BY <2>6, <2>7, <2>8, <2>9, <2>10
<1>8. count = held
  <2>1. \A e \in R : Cardinality({j \in J : g[j] = e}) = Max({0, e[2] - e[1] + 2 - TemplateLen})
    BY <1>7 DEF Holds
  <2> HIDE DEF R, J
  <2> QED
    BY <2>1
<1>9. SumFunction(held) = SumFunctionOnSet(held, R)
  BY DEF SumFunction
<1>10. OnesMatches(base) = Cardinality(J)
  BY DEF OnesMatches
<1> HIDE DEF J, count, R
<1> QED
  BY <1>2, <1>6, <1>8, <1>9, <1>10 DEF R
-----------------------------------------------------------------------------
\* The sums of block_frequency.go.

\* The ones of the positions from a to a + k - 1 come to those before.
LEMMA OnesUpToGrows ==
  ASSUME NEW a \in Nat, NEW k \in Nat, a + k <= n
  PROVE  OnesUpTo(bits, a + k) = OnesUpTo(bits, a) + OnesIn(a, k)
<1> DEFINE m == a + k
           S == {p \in 0..(a - 1) : bits[p] = 1}
           T == {p \in a..(m - 1) : bits[p] = 1}
           U == {p \in 0..(m - 1) : bits[p] = 1}
<1>1. n \in Nat /\ m \in Nat /\ a <= m /\ m <= n
  BY ConstantsFit
<1>2. OnesUpTo(bits, a) = Cardinality(S) /\ OnesIn(a, k) = Cardinality(T)
  BY DEF OnesUpTo, OnesIn
<1> HIDE DEF m
<1>3. OnesUpTo(bits, m) = Cardinality(U)
  BY DEF OnesUpTo
<1>4. S \in SUBSET (0..(n - 1)) /\ T \in SUBSET (0..(n - 1)) /\ S \cap T = {} /\ S \cup T = U
  <2>1. \A p : /\ p \in 0..(a - 1) => p \in 0..(n - 1) /\ p \notin a..(m - 1)
               /\ p \in a..(m - 1) => p \in 0..(n - 1)
               /\ p \in 0..(m - 1) <=> p \in 0..(a - 1) \/ p \in a..(m - 1)
    BY <1>1
  <2> QED
    BY <2>1, Zenon
<1> HIDE DEF S, T, U
<1>5. Cardinality(U) = Cardinality(S) + Cardinality(T)
  BY <1>4, InTwoClasses
<1> QED
  BY <1>2, <1>3, <1>5 DEF m

\* A number more in a sequence comes to its sum.
LEMMA SumAppended ==
  ASSUME NEW s \in Seq(Int), NEW x \in Int
  PROVE  SumFunction(Append(s, x)) = SumFunction(s) + x
<1> DEFINE N == Len(s)
           t == Append(s, x)
<1>1. N \in Nat /\ DOMAIN s = 1..N /\ \A k \in 1..N : s[k] \in Int
  BY LenProperties, ElementOfSeq
<1>2. /\ t \in Seq(Int) /\ Len(t) = N + 1 /\ \A k \in 1..N : t[k] = s[k]
      /\ t[N + 1] = x
  BY AppendProperties
<1>3. DOMAIN t = 1..(N + 1)
  BY <1>2, LenProperties
<1> HIDE DEF N, t
<1> DEFINE S == 1..N
<1>4. IsFiniteSet(S)
  BY <1>1, FS_Interval, 1 \in Int
<1>5. N + 1 \notin S /\ S \cup {N + 1} = 1..(N + 1)
  BY <1>1
<1>6. \A k \in S : s[k] \in Int /\ t[k] = s[k]
  BY <1>1, <1>2
<1>7. \A k \in S \cup {N + 1} : t[k] \in Int
  BY <1>2, <1>6
<1> HIDE DEF S
<1>8. SumFunctionOnSet(t, S \cup {N + 1}) = SumFunctionOnSet(t, S) + t[N + 1]
  BY <1>4, <1>5, <1>7, SumWith
<1>9. SumFunctionOnSet(t, S) = SumFunctionOnSet(s, S)
  <2>1. \A k \in S : s[k] \in Int
    BY <1>6
  <2>2. \A k \in S : t[k] = s[k]
    BY <1>6
  <2> QED
    BY <1>4, <2>1, <2>2, SumSame
<1>10. SumFunction(t) = SumFunctionOnSet(t, S \cup {N + 1})
  BY <1>3, <1>5 DEF SumFunction
<1>11. SumFunction(s) = SumFunctionOnSet(s, S)
  BY <1>1 DEF SumFunction, S
<1> QED
  BY <1>2, <1>8, <1>9, <1>10, <1>11 DEF t

\* The sums add up to the ones of the blocks they stand for.
SumsRightInv ==
    /\ pc \in {"start", "frequency"} => counts.sums = <<>>
    /\ pc = "block_frequency" =>
         i <= n \div BlockSize /\ SumFunction(counts.sums) = OnesUpTo(bits, BlockSize * i)
    /\ pc \notin {"start", "frequency", "block_frequency"} =>
         SumFunction(counts.sums) = OnesUpTo(bits, n - (n % BlockSize))

\* Every turn of block_frequency.go adds the ones of the next block.
LEMMA SumsRightKept ==
  ASSUME ControlInv, SumsInv, SumsRightInv, [Next]_vars PROVE SumsRightInv'
<1>1. /\ Shape /\ i \in Nat /\ n \in Nat /\ BlockSize \in Nat /\ BlockSize >= 1
  BY ConstantsFit DEF ControlInv
<1> DEFINE N == n \div BlockSize
<1>2. N \in Nat /\ BlockSize * N = n - (n % BlockSize) /\ BlockSize * N <= n
  <2> DEFINE r == n % BlockSize
  <2>1. N \in Nat /\ n = BlockSize * N + r /\ r \in Nat
    BY <1>1
  <2> HIDE DEF N, r
  <2>2. BlockSize * N \in Int
    BY <1>1, <2>1
  <2> QED
    BY <1>1, <2>1, <2>2 DEF r
<1> HIDE DEF N
<1>3. CASE BlockFrequencyTest
  <2>1. /\ Loop("block_frequency", {"sums"}) /\ i < N
        /\ counts'.sums = Append(counts.sums, OnesIn(i * BlockSize, BlockSize))
    BY <1>1, <1>3, TurnEffects DEF N
  <2>2. /\ pc = "block_frequency" /\ pc' = "block_frequency" /\ i' = i + 1 /\ bits' = bits
        /\ SumFunction(counts.sums) = OnesUpTo(bits, BlockSize * i)
    BY <2>1 DEF Loop, SumsRightInv
  <2> DEFINE a == BlockSize * i
  <2>3. /\ a \in Nat /\ a + BlockSize = BlockSize * (i + 1) /\ i * BlockSize = a
        /\ a + BlockSize <= n
    <3>1. BlockSize * (i + 1) <= BlockSize * N
      BY <1>1, <1>2, <2>1
    <3>2. a \in Nat /\ BlockSize * (i + 1) = a + BlockSize /\ i * BlockSize = a
      BY <1>1
    <3>3. BlockSize * N \in Int
      BY <1>1, <1>2
    <3> HIDE DEF a
    <3> QED
      BY <1>1, <1>2, <3>1, <3>2, <3>3
  <2> HIDE DEF a
  <2>4. OnesUpTo(bits, a + BlockSize) = OnesUpTo(bits, a) + OnesIn(a, BlockSize)
    BY <1>1, <2>3, OnesUpToGrows
  <2>5. counts.sums \in Seq(Int) /\ OnesIn(a, BlockSize) \in Int
    <3> DEFINE S == {j \in a..(a + BlockSize - 1) : bits[j] = 1}
    <3>1. S \in SUBSET (a..(a + BlockSize - 1)) /\ a \in Int
      BY <2>3
    <3>2. OnesIn(a, BlockSize) = Cardinality(S)
      BY DEF OnesIn
    <3> HIDE DEF S
    <3>5. Cardinality(S) \in 0..BlockSize
      <4> DEFINE k == BlockSize
      <4>1. k \in Nat /\ S \in SUBSET (a..(a + k - 1)) /\ a \in Int
        BY <1>1, <3>1
      <4> HIDE DEF k
      <4>2. Cardinality(S) \in 0..k
        BY <4>1, CountInside
      <4> QED
        BY <4>2 DEF k
    <3>3. OnesIn(a, BlockSize) \in Int
      BY <1>1, <3>2, <3>5
    <3>4. counts.sums \in Seq(Int)
      BY SeqMonotonic, 0..BlockSize \subseteq Int DEF SumsInv
    <3> QED
      BY <3>3, <3>4
  <2>6. SumFunction(counts'.sums) = OnesUpTo(bits, a) + OnesIn(a, BlockSize)
    BY <2>1, <2>2, <2>3, <2>5, SumAppended DEF a
  <2>7. i' <= N
    BY <1>1, <1>2, <2>1, <2>2
  <2> QED
    BY <2>2, <2>3, <2>4, <2>6, <2>7 DEF SumsRightInv, N
<1>4. CASE ~ BlockFrequencyTest
  <2>1. /\ counts'.sums = counts.sums
        /\ pc' = "block_frequency" => \/ pc = "frequency" /\ i' = 0
                                      \/ pc = "block_frequency" /\ i' = i
        /\ pc # "start" => bits' = bits
        /\ pc' \in {"start", "frequency"} => pc \in {"start", "frequency"}
        /\ pc = "start" => pc' \in {"start", "frequency"}
        /\ pc = "frequency" => pc' \in {"frequency", "block_frequency"}
    BY <1>1, <1>4, Steps DEF Quiet, Follows, Loop, Only, Fields
  <2>2. CASE pc' \in {"start", "frequency"}
    BY <2>1, <2>2 DEF SumsRightInv
  <2>3. CASE pc' = "block_frequency" /\ pc = "frequency"
    <3>1. counts'.sums = <<>> /\ i' = 0
      BY <2>1, <2>3 DEF SumsRightInv
    <3>2. SumFunction(<<>>) = 0
      BY SumEmpty, DOMAIN <<>> = {} DEF SumFunction
    <3>3. OnesUpTo(bits', BlockSize * 0) = 0
      <4>1. {p \in 0..(BlockSize * 0 - 1) : bits'[p] = 1} = {}
        BY <1>1
      <4> QED
        BY <4>1, FS_EmptySet DEF OnesUpTo
    <3>4. i' <= n \div BlockSize
      BY <1>2, <3>1 DEF N
    <3> QED
      BY <2>3, <3>1, <3>2, <3>3, <3>4 DEF SumsRightInv
  <2>4. CASE pc' = "block_frequency" /\ pc = "block_frequency"
    BY <2>1, <2>4 DEF SumsRightInv
  <2>5. CASE pc' \notin {"start", "frequency", "block_frequency"} /\ pc = "block_frequency"
    <3>1. i >= N
      BY <1>1, <2>5, LeftAtEnd, TurnsAre DEF N
    <3>2. i = N
      BY <1>1, <1>2, <2>5, <3>1 DEF SumsRightInv, N
    <3>3. SumFunction(counts.sums) = OnesUpTo(bits, n - (n % BlockSize))
      BY <1>2, <2>5, <3>2 DEF SumsRightInv
    <3> QED
      BY <2>1, <2>5, <3>3 DEF SumsRightInv
  <2>6. CASE /\ pc' \notin {"start", "frequency", "block_frequency"}
             /\ pc \notin {"start", "frequency", "block_frequency"}
    BY <2>1, <2>6 DEF SumsRightInv
  <2> QED
    BY <2>1, <2>2, <2>3, <2>4, <2>5, <2>6
<1> QED
  BY <1>3, <1>4
-----------------------------------------------------------------------------
\* The classes that the blocks are sorted into.

\* The blocks of a class, of the longest run and of the template of ones.
LongestBlocks(r) == {b \in Nat : r \in Class(Longest(b * RunM))}
MatchBlocks(r) == {b \in Nat : r = Min({OnesMatches(b * OnesM), MostOnes})}

\* Among the blocks before a turn and the block of the turn.
LEMMA BlocksCounted ==
  ASSUME NEW S, NEW k \in Nat
  PROVE  /\ Cardinality(S \cap (0..(0 - 1))) = 0
         /\ Cardinality(S \cap (0..(k - 1))) \in Nat
         /\ Cardinality(S \cap (0..(k + 1 - 1)))
              = Cardinality(S \cap (0..(k - 1))) + (IF k \in S THEN 1 ELSE 0)
<1> DEFINE A == S \cap (0..(k - 1))
<1>1. IsFiniteSet(A)
  <2>1. IsFiniteSet(0..(k - 1)) /\ A \subseteq 0..(k - 1)
    BY FS_Interval, 0 \in Int, k - 1 \in Int
  <2> HIDE DEF A
  <2> QED
    BY <2>1, FS_Subset
<1>2. S \cap (0..(0 - 1)) = {}
  OBVIOUS
<1> DEFINE B == S \cap (0..(k + 1 - 1))
<1>3. B = IF k \in S THEN A \cup {k} ELSE A
  <2>1. \A x : x \in 0..(k + 1 - 1) <=> x \in 0..(k - 1) \/ x = k
    OBVIOUS
  <2> QED
    BY <2>1
<1>4. k \notin A
  OBVIOUS
<1> HIDE DEF A, B
<1>5. Cardinality(A \cup {k}) = Cardinality(A) + 1 /\ Cardinality(A) \in Nat
  BY <1>1, <1>4, FS_AddElement, FS_CardinalityType
<1>6. Cardinality(S \cap (0..(0 - 1))) = 0
  BY <1>2, FS_EmptySet
<1>7. Cardinality(B) = Cardinality(A) + (IF k \in S THEN 1 ELSE 0)
  BY <1>3, <1>5
<1> QED
  BY <1>5, <1>6, <1>7 DEF A, B

\* The bits stay while blocks are counted.
LEMMA BlocksStay ==
  ASSUME bits' = bits
  PROVE  \A r : LongestBlocks(r)' = LongestBlocks(r) /\ MatchBlocks(r)' = MatchBlocks(r)
<1>1. \A base : Longest(base)' = Longest(base)
  BY DEF Longest, AfterZero
<1>2. \A base : OnesMatches(base)' = OnesMatches(base)
  BY DEF OnesMatches, OnesIn
<1>3. \A x : Class(x)' = Class(x)
  BY DEF Class
<1> QED
  BY <1>1, <1>2, <1>3 DEF LongestBlocks, MatchBlocks

\* Class r holds the blocks whose longest run belongs there.
NuRightInv ==
    /\ pc = "longest_run" =>
         /\ i <= n \div RunM
         /\ \A r \in DOMAIN V :
               counts.nu[r] = Cardinality(LongestBlocks(r) \cap (0..(i - 1)))
    /\ pc \notin {"start", "frequency", "block_frequency", "runs", "longest_run"} =>
         \A r \in DOMAIN V :
            counts.nu[r] = Cardinality(LongestBlocks(r) \cap (0..(n \div RunM - 1)))

\* Every turn of longest_run.go sorts one block.
LEMMA NuRightKept ==
  ASSUME ControlInv, NuInv, NuRightInv, [Next]_vars PROVE NuRightInv'
<1>1. Shape /\ i \in Nat /\ n \div RunM \in Nat
  BY ConstantsFit, QuotientBound DEF ControlInv
<1>2. CASE LongestRunOfOnesTest
  <2>1. /\ Loop("longest_run", {"nu"}) /\ i < n \div RunM
        /\ counts'.nu = [r \in DOMAIN V |->
              counts.nu[r] + (IF r \in Class(Longest(i * RunM)) THEN 1 ELSE 0)]
    BY <1>1, <1>2, TurnEffects
  <2>2. pc = "longest_run" /\ pc' = "longest_run" /\ i' = i + 1 /\ bits' = bits
    BY <2>1 DEF Loop
  <2>3. ASSUME NEW r \in DOMAIN V
        PROVE  counts'.nu[r] = Cardinality(LongestBlocks(r)' \cap (0..(i + 1 - 1)))
    <3>1. counts.nu[r] = Cardinality(LongestBlocks(r) \cap (0..(i - 1)))
      BY <2>2 DEF NuRightInv
    <3>2. i \in LongestBlocks(r) <=> r \in Class(Longest(i * RunM))
      BY <1>1 DEF LongestBlocks
    <3>3. Cardinality(LongestBlocks(r) \cap (0..(i + 1 - 1)))
            = Cardinality(LongestBlocks(r) \cap (0..(i - 1)))
              + (IF i \in LongestBlocks(r) THEN 1 ELSE 0)
      BY <1>1, BlocksCounted
    <3>4. LongestBlocks(r)' = LongestBlocks(r)
      BY <2>2, BlocksStay
    <3> QED
      BY <2>1, <3>1, <3>2, <3>3, <3>4
  <2>4. i' <= n \div RunM
    <3> DEFINE N == n \div RunM
    <3> HIDE DEF N
    <3>1. i < N /\ N \in Nat
      BY <1>1, <2>1 DEF N
    <3>2. i' <= N
      BY <1>1, <2>2, <3>1
    <3> QED
      BY <3>2 DEF N
  <2>5. \A r \in DOMAIN V :
           counts'.nu[r] = Cardinality(LongestBlocks(r)' \cap (0..(i' - 1)))
    <3>1. i' - 1 = i + 1 - 1
      BY <1>1, <2>2
    <3> QED
      BY <2>3, <3>1, Zenon
  <2> QED
    BY <2>2, <2>4, <2>5 DEF NuRightInv
<1>3. CASE ~ LongestRunOfOnesTest
  <2>1. /\ counts'.nu = counts.nu
        /\ pc' = "longest_run" => \/ pc = "runs" /\ i' = 0
                                  \/ pc = "longest_run" /\ i' = i
        /\ pc # "start" => bits' = bits
        /\ pc \in {"start", "frequency", "block_frequency", "runs"} =>
             pc' \in {"start", "frequency", "block_frequency", "runs", "longest_run"}
    BY <1>1, <1>3, Steps DEF Quiet, Follows, Loop, Only, Fields
  <2>2. pc # "start" => \A r : LongestBlocks(r)' = LongestBlocks(r)
    BY <2>1, BlocksStay
  <2>3. CASE pc' = "longest_run" /\ pc = "runs"
    <3>1. \A r \in DOMAIN V : counts'.nu[r] = 0
      BY <2>1, <2>3 DEF NuInv
    <3>2. i' = 0
      BY <2>1, <2>3
    <3>3. \A S : Cardinality(S \cap (0..(0 - 1))) = 0
      BY BlocksCounted, 0 \in Nat
    <3>4. i' <= n \div RunM
      BY <1>1, <3>2
    <3> QED
      BY <2>3, <3>1, <3>2, <3>3, <3>4 DEF NuRightInv
  <2>4. CASE pc' = "longest_run" /\ pc = "longest_run"
    <3>1. i' = i
      BY <2>1, <2>4
    <3> QED
      BY <2>1, <2>2, <2>4, <3>1 DEF NuRightInv
  <2>5. CASE /\ pc' \notin {"start", "frequency", "block_frequency", "runs", "longest_run"}
             /\ pc = "longest_run"
    <3>1. i >= n \div RunM
      BY <1>1, <2>5, LeftAtEnd, TurnsAre
    <3>2. i = n \div RunM
      BY <1>1, <2>5, <3>1 DEF NuRightInv
    <3>3. \A r \in DOMAIN V :
             counts.nu[r] = Cardinality(LongestBlocks(r) \cap (0..(n \div RunM - 1)))
      BY <2>5, <3>2 DEF NuRightInv
    <3> QED
      BY <2>1, <2>2, <2>5, <3>3 DEF NuRightInv
  <2>6. CASE /\ pc' \notin {"start", "frequency", "block_frequency", "runs", "longest_run"}
             /\ pc \notin {"start", "frequency", "block_frequency", "runs", "longest_run"}
    BY <2>1, <2>2, <2>6 DEF NuRightInv
  <2>7. CASE pc' \in {"start", "frequency", "block_frequency", "runs"}
    BY <2>7 DEF NuRightInv
  <2> QED
    BY <2>1, <2>3, <2>4, <2>5, <2>6, <2>7
<1> QED
  BY <1>2, <1>3

\* Class r holds the blocks with as many matches, the last class those with more.
NuOnesRightInv ==
    /\ pc = "overlapping_template" =>
         /\ i <= n \div OnesM
         /\ \A r \in 0..MostOnes :
               counts.nuOnes[r] = Cardinality(MatchBlocks(r) \cap (0..(i - 1)))
    /\ pc \in {"universal", "approximate_entropy", "serial", "done"} =>
         \A r \in 0..MostOnes :
            counts.nuOnes[r] = Cardinality(MatchBlocks(r) \cap (0..(n \div OnesM - 1)))

\* Every turn of overlapping_template.go sorts one block.
LEMMA NuOnesRightKept ==
  ASSUME ControlInv, NuOnesInv, NuOnesRightInv, [Next]_vars PROVE NuOnesRightInv'
<1>1. Shape /\ i \in Nat /\ n \div OnesM \in Nat
  <2>1. OnesM \in Nat /\ OnesM >= 1 /\ n \in Nat
    <3>1. TemplateLen \in Nat /\ TemplateLen >= 1 /\ OnesM \in Nat /\ OnesM >= TemplateLen
          /\ n \in Nat
      BY ConstantsFit
    <3> QED
      BY <3>1
  <2> QED
    BY <2>1, QuotientBound DEF ControlInv
<1>2. CASE OverlappingTemplateTest
  <2> DEFINE c == Min({OnesMatches(i * OnesM), MostOnes})
  <2>1. /\ Loop("overlapping_template", {"nuOnes"}) /\ i < n \div OnesM
        /\ counts'.nuOnes = [counts.nuOnes EXCEPT ![c] = @ + 1]
    BY <1>1, <1>2, TurnEffects
  <2>2. /\ pc = "overlapping_template" /\ pc' = "overlapping_template"
        /\ i' = i + 1 /\ bits' = bits
    BY <2>1 DEF Loop
  <2>3. ASSUME NEW r \in 0..MostOnes
        PROVE  counts'.nuOnes[r] = Cardinality(MatchBlocks(r)' \cap (0..(i + 1 - 1)))
    <3>1. counts.nuOnes[r] = Cardinality(MatchBlocks(r) \cap (0..(i - 1)))
      BY <2>2 DEF NuOnesRightInv
    <3>2. i \in MatchBlocks(r) <=> r = c
      BY <1>1 DEF MatchBlocks
    <3>3. /\ Cardinality(MatchBlocks(r) \cap (0..(i + 1 - 1)))
               = Cardinality(MatchBlocks(r) \cap (0..(i - 1)))
                 + (IF i \in MatchBlocks(r) THEN 1 ELSE 0)
          /\ Cardinality(MatchBlocks(r) \cap (0..(i - 1))) \in Nat
      BY <1>1, BlocksCounted
    <3>4. MatchBlocks(r)' = MatchBlocks(r)
      BY <2>2, BlocksStay
    <3> HIDE DEF c
    <3>5. counts'.nuOnes[r] = IF r = c THEN counts.nuOnes[r] + 1 ELSE counts.nuOnes[r]
      BY <2>1 DEF NuOnesInv
    <3> QED
      BY <3>1, <3>2, <3>3, <3>4, <3>5
  <2>4. i' <= n \div OnesM
    <3> DEFINE N == n \div OnesM
    <3> HIDE DEF N
    <3>1. i < N /\ N \in Nat
      BY <1>1, <2>1 DEF N
    <3>2. i' <= N
      BY <1>1, <2>2, <3>1
    <3> QED
      BY <3>2 DEF N
  <2>5. \A r \in 0..MostOnes :
           counts'.nuOnes[r] = Cardinality(MatchBlocks(r)' \cap (0..(i' - 1)))
    <3>1. i' - 1 = i + 1 - 1
      BY <1>1, <2>2
    <3> QED
      BY <2>3, <3>1, Zenon
  <2> QED
    BY <2>2, <2>4, <2>5 DEF NuOnesRightInv
<1>3. CASE ~ OverlappingTemplateTest
  <2>1. /\ counts'.nuOnes = counts.nuOnes
        /\ pc' = "overlapping_template" =>
             \/ pc = "non_overlapping_template" /\ i' = 0
             \/ pc = "overlapping_template" /\ i' = i
        /\ pc # "start" => bits' = bits
        /\ pc' \in {"universal", "approximate_entropy", "serial", "done"} =>
             pc \in {"overlapping_template", "universal", "approximate_entropy", "serial",
                     "done"}
    BY <1>1, <1>3, Steps DEF Quiet, Follows, Loop, Only, Fields
  <2>2. pc # "start" => \A r : MatchBlocks(r)' = MatchBlocks(r)
    BY <2>1, BlocksStay
  <2>3. CASE pc' = "overlapping_template" /\ pc = "non_overlapping_template"
    <3>1. \A r \in 0..MostOnes : counts'.nuOnes[r] = 0
      BY <2>1, <2>3 DEF NuOnesInv
    <3>2. i' = 0
      BY <2>1, <2>3
    <3>3. \A S : Cardinality(S \cap (0..(0 - 1))) = 0
      BY BlocksCounted, 0 \in Nat
    <3>4. i' <= n \div OnesM
      BY <1>1, <3>2
    <3> QED
      BY <2>3, <3>1, <3>2, <3>3, <3>4 DEF NuOnesRightInv
  <2>4. CASE pc' = "overlapping_template" /\ pc = "overlapping_template"
    <3>1. i' = i
      BY <2>1, <2>4
    <3> QED
      BY <2>1, <2>2, <2>4, <3>1 DEF NuOnesRightInv
  <2>5. CASE /\ pc' \in {"universal", "approximate_entropy", "serial", "done"}
             /\ pc = "overlapping_template"
    <3>1. i >= n \div OnesM
      BY <1>1, <2>5, LeftAtEnd, TurnsAre
    <3>2. i = n \div OnesM
      BY <1>1, <2>5, <3>1 DEF NuOnesRightInv
    <3>3. \A r \in 0..MostOnes :
             counts.nuOnes[r] = Cardinality(MatchBlocks(r) \cap (0..(n \div OnesM - 1)))
      BY <2>5, <3>2 DEF NuOnesRightInv
    <3> QED
      BY <2>1, <2>2, <2>5, <3>3 DEF NuOnesRightInv
  <2>6. CASE /\ pc' \in {"universal", "approximate_entropy", "serial", "done"}
             /\ pc \in {"universal", "approximate_entropy", "serial", "done"}
    BY <2>1, <2>2, <2>6 DEF NuOnesRightInv
  <2>7. CASE pc' \notin {"overlapping_template", "universal", "approximate_entropy",
                         "serial", "done"}
    BY <2>7 DEF NuOnesRightInv
  <2> QED
    BY <2>1, <2>3, <2>4, <2>5, <2>6, <2>7
<1> QED
  BY <1>2, <1>3
-----------------------------------------------------------------------------
BlocksInv == SumsRightInv /\ NuRightInv /\ NuOnesRightInv

\* These hold in every reachable state, too.
LEMMA BlocksInvHolds == Spec => []BlocksInv
<1>1. Init => BlocksInv
  <2> SUFFICES ASSUME Init PROVE BlocksInv
    OBVIOUS
  <2>1. pc = "start" /\ counts.sums = <<>>
    BY DEF Init, NothingCounted
  <2> QED
    BY <2>1 DEF BlocksInv, SumsRightInv, NuRightInv, NuOnesRightInv
<1>2. IInv /\ BlocksInv /\ [Next]_vars => BlocksInv'
  BY SumsRightKept, NuRightKept, NuOnesRightKept DEF IInv, BlocksInv
<1> QED
  BY <1>1, <1>2, InvariantHolds, PTL DEF Spec

\* Where a block lies.
LEMMA BlockStart ==
  ASSUME NEW b \in Nat PROVE b * RunM \in Nat /\ b * OnesM \in Nat
<1>1. RunM \in Nat /\ OnesM \in Nat
  BY ConstantsFit
<1> QED
  BY <1>1

\* The blocks that a class of the longest run holds are those that the property
\* names.
LEMMA LongestBlocksAre ==
  ASSUME NEW N \in Nat, NEW r \in DOMAIN V
  PROVE  LongestBlocks(r) \cap (0..(N - 1)) =
           {b \in 0..(N - 1) :
              LET longest == Max({0} \cup RunLengths(b * RunM, RunM))
              IN V[r] = Min({Max({longest, V[1]}), V[Len(V)]})}
<1>1. ASSUME NEW b \in 0..(N - 1)
      PROVE  b \in LongestBlocks(r) <=>
               LET longest == Max({0} \cup RunLengths(b * RunM, RunM))
               IN V[r] = Min({Max({longest, V[1]}), V[Len(V)]})
  <2>1. b \in Nat /\ b * RunM \in Nat
    BY BlockStart
  <2>2. /\ Longest(b * RunM) \in Nat
        /\ Longest(b * RunM) = Max({0} \cup RunLengths(b * RunM, RunM))
    BY <2>1, LongestIsGreatest
  <2>3. r \in Class(Longest(b * RunM)) <=> V[r] = Clamped(Longest(b * RunM))
    BY <2>2, ClassIs
  <2> QED
    BY <2>1, <2>2, <2>3, Zenon DEF LongestBlocks, Clamped
<1> QED
  BY <1>1, Zenon

\* Every block is in one class.
LEMMA NuAddsUp ==
  ASSUME NEW N \in Nat, NEW nu, DOMAIN nu = DOMAIN V, nu = [r \in DOMAIN V |-> nu[r]],
         \A r \in DOMAIN V : nu[r] = Cardinality(LongestBlocks(r) \cap (0..(N - 1)))
  PROVE  SumFunction(nu) = N
<1> DEFINE B == 0..(N - 1)
           D == DOMAIN V
           g == [b \in B |-> ClassIndex(Longest(b * RunM))]
<1>1. IsFiniteSet(B) /\ Cardinality(B) = N
  <2>1. N - 1 \in Int /\ 0 \in Int
    OBVIOUS
  <2>2. IsFiniteSet(B) /\ Cardinality(B) = IF 0 > N - 1 THEN 0 ELSE N - 1 - 0 + 1
    BY <2>1, FS_Interval
  <2>3. (IF 0 > N - 1 THEN 0 ELSE N - 1 - 0 + 1) = N
    OBVIOUS
  <2> HIDE DEF B
  <2> QED
    BY <2>2, <2>3
<1>2. IsFiniteSet(D)
  <2>1. D = 1..Len(V) /\ Len(V) \in Int /\ 1 \in Int
    BY ClassBounds
  <2> HIDE DEF D
  <2> QED
    BY <2>1, FS_Interval
<1>3. \A b \in B : b \in Nat /\ Longest(b * RunM) \in Nat
  <2> TAKE b \in B
  <2>1. b \in Nat
    OBVIOUS
  <2>2. b * RunM \in Nat
    BY <2>1, BlockStart
  <2> QED
    BY <2>1, <2>2, LongestIsGreatest
<1>4. \A b \in B : g[b] = ClassIndex(Longest(b * RunM))
  OBVIOUS
<1>5. g \in [B -> D]
  <2>1. \A b \in B : ClassIndex(Longest(b * RunM)) \in D
    BY <1>3, ClassIs
  <2> HIDE DEF B, D
  <2> QED
    BY <2>1
<1> HIDE DEF g
<1>6. ASSUME NEW r \in D PROVE LongestBlocks(r) \cap B = {b \in B : g[b] = r}
  <2>1. \A b \in B : b \in LongestBlocks(r) <=> g[b] = r
    <3> TAKE b \in B
    <3>1. r \in Class(Longest(b * RunM)) <=> r = ClassIndex(Longest(b * RunM))
      BY <1>3, ClassIs
    <3> QED
      BY <1>3, <1>4, <3>1 DEF LongestBlocks
  <2> HIDE DEF B
  <2> QED
    BY <2>1
<1> DEFINE count == [r \in D |-> Cardinality({b \in B : g[b] = r})]
<1>7. nu = count
  <2>1. \A r \in D : nu[r] = Cardinality({b \in B : g[b] = r})
    <3> TAKE r \in D
    <3>1. nu[r] = Cardinality(LongestBlocks(r) \cap B)
      OBVIOUS
    <3>2. LongestBlocks(r) \cap B = {b \in B : g[b] = r}
      BY <1>6
    <3> HIDE DEF B
    <3> QED
      BY <3>1, <3>2
  <2> HIDE DEF B
  <2> QED
    BY <2>1
<1>8. SumFunctionOnSet(count, D) = Cardinality(B)
  <2> HIDE DEF B, D
  <2> QED
    BY <1>1, <1>2, <1>5, CountsAddUp
<1>9. SumFunction(nu) = SumFunctionOnSet(nu, D)
  BY DEF SumFunction
<1> HIDE DEF B, D, count
<1> QED
  BY <1>1, <1>7, <1>8, <1>9

\* The blocks of a class of the overlapping test are those that the property
\* names.
LEMMA MatchBlocksAre ==
  ASSUME NEW N \in Nat, NEW r \in 0..MostOnes
  PROVE  MatchBlocks(r) \cap (0..(N - 1)) =
           {b \in 0..(N - 1) :
              r = Min({MostOnes, SumFunction(
                         [e \in RunsOfOnes(b * OnesM, OnesM) |->
                            Max({0, e[2] - e[1] + 2 - TemplateLen})])})}
<1>1. ASSUME NEW b \in 0..(N - 1)
      PROVE  b \in MatchBlocks(r) <=>
              r = Min({MostOnes, SumFunction(
                         [e \in RunsOfOnes(b * OnesM, OnesM) |->
                            Max({0, e[2] - e[1] + 2 - TemplateLen})])})
  <2>1. b \in Nat /\ b * OnesM \in Nat
    BY BlockStart
  <2>2. OnesMatches(b * OnesM)
          = SumFunction([e \in RunsOfOnes(b * OnesM, OnesM) |->
                           Max({0, e[2] - e[1] + 2 - TemplateLen})])
    BY <2>1, MatchesByRun
  <2>3. \A x, y : {x, y} = {y, x}
    OBVIOUS
  <2>4. b \in MatchBlocks(r) <=> r = Min({MostOnes, OnesMatches(b * OnesM)})
    BY <2>1, <2>3 DEF MatchBlocks
  <2> QED
    BY <2>2, <2>4, Zenon
<1> QED
  BY <1>1, Zenon

\* For every sequence and all block lengths, longest_run.go sorts every block
\* into the class of its longest run and no block is lost, overlapping_template.go
\* sorts it by the matches that its runs of ones hold, and the blocks of
\* block_frequency.go with the bits behind the last one hold the ones that
\* frequency.go counts.
THEOREM BlocksAreClassified == Spec => []BlocksClassified
<1>1. IInv /\ WindowsInv /\ BlocksInv => BlocksClassified
  <2> SUFFICES ASSUME IInv, WindowsInv, BlocksInv, pc = "done" PROVE BlocksClassified
    BY DEF BlocksClassified
  <2>1. /\ n \in Nat /\ n \div RunM \in Nat /\ n \div OnesM \in Nat
        /\ BlockSize \in Nat /\ BlockSize >= 1
    <3>1. /\ n \in Nat /\ RunM \in Nat /\ RunM >= 1 /\ TemplateLen \in Nat
          /\ TemplateLen >= 1 /\ OnesM \in Nat /\ OnesM >= TemplateLen
          /\ BlockSize \in Nat /\ BlockSize >= 1
      BY ConstantsFit
    <3>2. OnesM >= 1
      BY <3>1
    <3> QED
      BY <3>1, <3>2, QuotientBound
  <2>2. \A r \in DOMAIN V :
           counts.nu[r] = Cardinality(LongestBlocks(r) \cap (0..(n \div RunM - 1)))
    BY DEF BlocksInv, NuRightInv
  <2>3. \A r \in 0..MostOnes :
           counts.nuOnes[r] = Cardinality(MatchBlocks(r) \cap (0..(n \div OnesM - 1)))
    BY DEF BlocksInv, NuOnesRightInv
  <2>4. \A r \in DOMAIN V : counts.nu[r] = Cardinality({b \in 0..(n \div RunM - 1) :
              LET longest == Max({0} \cup RunLengths(b * RunM, RunM))
              IN V[r] = Min({Max({longest, V[1]}), V[Len(V)]})})
    BY <2>1, <2>2, LongestBlocksAre, Zenon
  <2>5. SumFunction(counts.nu) = n \div RunM
    <3>1. DOMAIN counts.nu = DOMAIN V /\ counts.nu = [r \in DOMAIN V |-> counts.nu[r]]
      BY DEF IInv, NuInv
    <3> QED
      BY <2>1, <2>2, <3>1, NuAddsUp
  <2>6. \A r \in 0..MostOnes :
              counts.nuOnes[r] = Cardinality({b \in 0..(n \div OnesM - 1) :
                 r = Min({MostOnes, SumFunction(
                            [e \in RunsOfOnes(b * OnesM, OnesM) |->
                               Max({0, e[2] - e[1] + 2 - TemplateLen})])})})
    BY <2>1, <2>3, MatchBlocksAre, Zenon
  <2>7. counts.ones = SumFunction(counts.sums) + OnesIn(n - (n % BlockSize), n % BlockSize)
    <3> DEFINE k == n % BlockSize
               a == n - k
    <3>1. k \in Nat /\ k <= n
      <4>1. n \div BlockSize \in Nat /\ n = BlockSize * (n \div BlockSize) + k /\ k \in Nat
        BY <2>1
      <4>2. BlockSize * (n \div BlockSize) \in Nat
        BY <2>1, <4>1
      <4> HIDE DEF k
      <4> QED
        BY <2>1, <4>1, <4>2
    <3>2. SumFunction(counts.sums) = OnesUpTo(bits, a)
      BY DEF BlocksInv, SumsRightInv
    <3>3. counts.ones = OnesUpTo(bits, n)
      BY DEF WindowsInv, OnesRightInv, OnesOf, OnesUpTo
    <3> HIDE DEF k
    <3>4. a \in Nat /\ a + k = n
      BY <2>1, <3>1
    <3> HIDE DEF a
    <3>5. OnesUpTo(bits, a + k) = OnesUpTo(bits, a) + OnesIn(a, k)
      BY <2>1, <3>1, <3>4, OnesUpToGrows
    <3> QED
      BY <3>2, <3>3, <3>4, <3>5 DEF a, k
  <2> QED
    BY <2>4, <2>5, <2>6, <2>7, Zenon DEF BlocksClassified
<1> QED
  BY <1>1, InvariantHolds, WindowsInvHolds, BlocksInvHolds, PTL
=============================================================================
