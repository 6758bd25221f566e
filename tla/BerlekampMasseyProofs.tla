------------------------ MODULE BerlekampMasseyProofs ------------------------
(***************************************************************************)
(* Proofs about BerlekampMassey for every block length M and every number  *)
(* of blocks: the types, that the only block whose scan writes outside the *)
(* slice P is 0...01, that the length L the loop arrives at is the linear  *)
(* complexity of the block, and that the switch sorts it by its distance   *)
(* from ceil(M/2).                                                         *)
(*                                                                         *)
(* PanicExactlyOnLateOne is not inductive. Shape adds what the algorithm   *)
(* keeps between its variables: the degrees of C and B are bounded by the  *)
(* register lengths they belong to, and the register has length 0 exactly  *)
(* as long as only zeros were scanned. RegisterIsShortest needs Massey,    *)
(* which remembers of the register that B was what it generated and where  *)
(* it failed.                                                              *)
(***************************************************************************)
EXTENDS BerlekampMassey, Induction

\* The bounds of the register and of its two polynomials.
Degrees == /\ L <= N_ /\ m < N_ /\ L <= m + 1
           /\ L = 0 <=> m = -1
           /\ 0 \in C /\ C \subseteq 0..L
           /\ 0 \in B /\ B \subseteq 0..(m + 1 - L)

\* The register is empty exactly until the first one of the block.
EmptyUntilFirstOne == L = 0 <=> \A k \in 0..(N_ - 1) : k \notin ones

Shape == Degrees /\ EmptyUntilFirstOne

IInv == /\ TypeOK /\ Shape /\ PanicExactlyOnLateOne
        /\ pc = "scan" => done < NumBlocks

\* Where the register is not empty, the shifted polynomial stays in its
\* slice: its degree is at most N_ + 1 - L.
LEMMA ShiftedDegree ==
    ASSUME TypeOK, Degrees, N_ < M
    PROVE  /\ \A e \in Shifted : e \in 1..(N_ + 1 - L)
           /\ L # 0 => Shifted \subseteq Index
<1> USE BMAssumption
<1>1. \A e \in Shifted : e \in 1..(N_ + 1 - L)
  <2> SUFFICES ASSUME NEW e \in Shifted
               PROVE e \in 1..(N_ + 1 - L)
    OBVIOUS
  <2>1. PICK j \in B : e = j + N_ - m
    BY DEF Shifted
  <2>2. j \in 0..(m + 1 - L)
    BY DEF Degrees
  <2> QED
    BY <2>1, <2>2 DEF TypeOK, Degrees
<1>2. L # 0 => Shifted \subseteq Index
  BY <1>1 DEF TypeOK, Index
<1> QED
  BY <1>1, <1>2

\* An empty register predicts 0, so the discrepancy is the bit itself.
LEMMA EmptyRegister ==
    ASSUME TypeOK, L = 0
    PROVE  Discrepancy = (IF N_ \in ones THEN 1 ELSE 0)
<1>1. {i \in 1..L : i \in C /\ N_ - i \in ones} = {}
  OBVIOUS
<1>2. Cardinality({i \in 1..L : i \in C /\ N_ - i \in ones}) = 0
  BY <1>1, FS_EmptySet
<1> QED
  BY <1>2 DEF Discrepancy

\* Scanning the last bit of the block 0...01 ends in the panic, so no step
\* completes that block.
LEMMA LateOneIsNotCompleted ==
    ASSUME TypeOK, Shape, N_ = M - 1, ones = {M - 1}
    PROVE  Discrepancy = 1 /\ ~ (Shifted \subseteq Index)
<1> USE BMAssumption
<1>1. L = 0 /\ m = -1
  BY DEF Shape, Degrees, EmptyUntilFirstOne, TypeOK
<1>2. Discrepancy = 1
  BY <1>1, EmptyRegister
<1>3. 0 + N_ - m \in Shifted
  BY DEF Shape, Degrees, Shifted
<1>4. M \in Shifted
  BY <1>1, <1>3
<1> QED
  BY <1>2, <1>4 DEF Index

\* The inductive invariant holds of every reachable state of the block loop.
LEMMA InvariantHolds == Spec => []IInv
<1> USE BMAssumption
<1>1. Init => IInv
  <2> SUFFICES ASSUME Init PROVE IInv
    OBVIOUS
  <2>1. TypeOK
    BY DEF Init, TypeOK, Index
  <2>2. Shape
    BY DEF Init, Shape, Degrees, EmptyUntilFirstOne
  <2> QED
    BY <2>1, <2>2 DEF Init, IInv, PanicExactlyOnLateOne
<1>2. IInv /\ [Next]_vars => IInv'
  <2> SUFFICES ASSUME IInv, [Next]_vars PROVE IInv'
    OBVIOUS
  <2> USE DEF IInv, Shape
  <2>1. CASE Predicted
    <3>1. TypeOK'
      BY <2>1 DEF Predicted, Scanning, TypeOK
    <3>2. Degrees'
      BY <2>1 DEF Predicted, Scanning, Degrees, TypeOK
    <3>3. EmptyUntilFirstOne'
      <4>1. L = 0 => N_ \notin ones
        BY <2>1, EmptyRegister DEF Predicted
      <4> QED
        BY <2>1, <4>1 DEF Predicted, Scanning, EmptyUntilFirstOne, TypeOK
    <3> QED
      BY <2>1, <3>1, <3>2, <3>3, LateOneIsNotCompleted
      DEF Predicted, Scanning, PanicExactlyOnLateOne, TypeOK
  <2>2. CASE Corrected
    <3>1. \A e \in Shifted : e \in 1..(N_ + 1 - L)
      BY <2>2, ShiftedDegree DEF Corrected, Scanning
    <3>2. 0 \in C' /\ C' \subseteq C \cup Shifted
      BY <2>2, <3>1 DEF Corrected, Xor, Degrees, TypeOK
    <3>a. C' \subseteq Index
      BY <2>2, <3>2 DEF Corrected, TypeOK
    <3>b. PanicExactlyOnLateOne' /\ (pc' = "scan" => done' < NumBlocks)
      BY <2>2, LateOneIsNotCompleted
      DEF Corrected, Scanning, PanicExactlyOnLateOne, TypeOK
    <3>3. CASE GrowsAt(L, N_)
      <4>1. L' = N_ + 1 - L /\ m' = N_ /\ B' = C /\ N_' = N_ + 1
            /\ UNCHANGED <<pc, ones, nu, done>>
        BY <2>2, <3>3 DEF Corrected
      <4>2. 2 * L <= N_ /\ L \in Nat /\ N_ \in Nat /\ N_ < M
        BY <2>2, <3>3 DEF GrowsAt, TypeOK, Corrected, Scanning
      <4>3. TypeOK'
        BY <4>1, <4>2, <3>a DEF TypeOK
      <4>4. Degrees'
        <5>1. C' \subseteq 0..L'
          BY <3>1, <3>2, <4>1, <4>2 DEF Degrees
        <5>2. B' \subseteq 0..(m' + 1 - L')
          BY <4>1, <4>2 DEF Degrees
        <5> QED
          BY <3>2, <4>1, <4>2, <5>1, <5>2 DEF Degrees
      <4>5. EmptyUntilFirstOne'
        <5>1. L' # 0
          BY <4>1, <4>2
        <5>2. \E k \in 0..(N_' - 1) : k \in ones'
          <6>1. CASE L = 0
            BY <6>1, <2>2, <4>1, <4>2, EmptyRegister DEF Corrected
          <6>2. CASE L # 0
            BY <6>2, <4>1, <4>2 DEF EmptyUntilFirstOne
          <6> QED
            BY <6>1, <6>2
        <5> QED
          BY <5>1, <5>2 DEF EmptyUntilFirstOne
      <4> QED
        BY <3>b, <4>3, <4>4, <4>5
    <3>4. CASE ~ GrowsAt(L, N_)
      <4>1. UNCHANGED <<pc, ones, L, m, B, nu, done>> /\ N_' = N_ + 1
        BY <2>2, <3>4 DEF Corrected
      <4>2. 2 * L > N_ /\ L \in Nat /\ N_ \in Nat /\ N_ < M
        BY <2>2, <3>4 DEF GrowsAt, TypeOK, Corrected, Scanning
      <4>3. TypeOK'
        BY <4>1, <4>2, <3>a DEF TypeOK
      <4>4. Degrees'
        <5>1. C' \subseteq 0..L'
          BY <3>1, <3>2, <4>1, <4>2 DEF Degrees
        <5> QED
          BY <3>2, <4>1, <4>2, <5>1 DEF Degrees, TypeOK
      <4>5. EmptyUntilFirstOne'
        BY <4>1, <4>2 DEF EmptyUntilFirstOne
      <4> QED
        BY <3>b, <4>3, <4>4, <4>5
    <3> QED
      BY <3>3, <3>4
  <2>3. CASE OutOfRange
    <3>1. L = 0 /\ m = -1
      BY <2>3, ShiftedDegree DEF OutOfRange, Scanning, Degrees
    <3>2. Shifted = {N_ + 1}
      <4>1. B = {0}
        <5>1. \A j \in B : j = 0
          BY <3>1 DEF Degrees
        <5> QED
          BY <5>1 DEF Degrees
      <4>2. Shifted = {0 + N_ - m}
        BY <4>1 DEF Shifted
      <4> QED
        BY <4>2, <3>1 DEF TypeOK
    <3>3. N_ = M - 1
      BY <2>3, <3>2 DEF OutOfRange, Scanning, TypeOK, Index
    <3>4. N_ \in ones
      BY <2>3, <3>1, EmptyRegister DEF OutOfRange
    <3>5. ones = {M - 1}
      <4>1. \A k \in ones : k \in 0..(M - 1) /\ k \notin 0..(M - 2)
        BY <3>1, <3>3 DEF EmptyUntilFirstOne, TypeOK, Index
      <4>2. \A k \in ones : k = M - 1
        BY <4>1
      <4> QED
        BY <3>3, <3>4, <4>2
    <3>6. TypeOK' /\ Degrees' /\ EmptyUntilFirstOne'
      BY <2>3 DEF OutOfRange, TypeOK, Degrees, EmptyUntilFirstOne
    <3> QED
      BY <2>3, <3>5, <3>6 DEF OutOfRange, Scanning, PanicExactlyOnLateOne, TypeOK
  <2>4. CASE NextBlock
    <3>1. Bucket(L) \in 0..6
      <4> DEFINE Passed == {k \in 0..5 : Tval(L) > (36 * k - 90) * 2 ^ M}
      <4>1. IsFiniteSet(0..5) /\ Cardinality(0..5) = 6
        BY FS_Interval, ~ (0 > 5), 5 - 0 + 1 = 6, 0 \in Int, 5 \in Int
      <4>2. Cardinality(Passed) \in Nat /\ Cardinality(Passed) <= 6
        BY <4>1, FS_Subset, FS_CardinalityType
      <4> QED
        BY <4>2 DEF Bucket
    <3>2. nu' \in [0..6 -> Nat]
      BY <2>4, <3>1 DEF NextBlock, TypeOK
    <3>3. CASE MoreBlocks(done + 1)
      <4>1. TypeOK'
        BY <2>4, <3>2, <3>3 DEF NextBlock, MoreBlocks, TypeOK, Index
      <4>2. Degrees' /\ EmptyUntilFirstOne'
        BY <2>4, <3>3 DEF NextBlock, Degrees, EmptyUntilFirstOne
      <4> QED
        BY <2>4, <3>3, <4>1, <4>2
        DEF NextBlock, MoreBlocks, PanicExactlyOnLateOne
    <3>4. CASE ~ MoreBlocks(done + 1)
      <4>1. done' \in 0..NumBlocks
        BY <2>4 DEF NextBlock, TypeOK
      <4> QED
        BY <2>4, <3>2, <3>4, <4>1
        DEF NextBlock, TypeOK, Degrees, EmptyUntilFirstOne, PanicExactlyOnLateOne
    <3> QED
      BY <3>3, <3>4
  <2>5. CASE UNCHANGED vars
    BY <2>5 DEF vars, TypeOK, Degrees, EmptyUntilFirstOne, PanicExactlyOnLateOne
  <2>6. CASE Ended
    BY <2>6, <2>5 DEF Ended
  <2> QED
    BY <2>1, <2>2, <2>3, <2>4, <2>5, <2>6 DEF Next
<1> QED
  BY <1>1, <1>2, PTL DEF Spec

\* The loop's variables keep their types: no index computed from C, B, L or m
\* other than the one below leaves its slice, for any block length.
THEOREM TypeCorrect == Spec => []TypeOK
BY InvariantHolds, PTL DEF IInv

\* The write P[j+N_-m] (linear_complexity.go:49) is out of range in the block
\* 0...01 and in no other one, for every block length and number of blocks.
THEOREM PanicCharacterised == Spec => []PanicExactlyOnLateOne
BY InvariantHolds, PTL DEF IInv

\* The polynomials' degrees never exceed the register lengths they belong to,
\* and the register stays empty until the first 1 of the block.
THEOREM RegisterShape == Spec => []Shape
BY InvariantHolds, PTL DEF IInv
-----------------------------------------------------------------------------
\* Parities. A register with connection polynomial c predicts the bit k of s
\* from the bits k - i; with 0 in c the bit itself takes part, and the parity
\* is the discrepancy.

Par(s, c, k) == Cardinality({i \in c : k - i \in s}) % 2

\* Two sums have the same parity when they differ by twice a number.
LEMMA ParityOfSums ==
  ASSUME NEW x \in Nat, NEW y \in Nat, NEW z \in Nat
  PROVE  /\ x % 2 \in 0..1
         /\ (((x + z) % 2) + ((y + z) % 2)) % 2 = (x + y) % 2
  OBVIOUS

\* Two finite sets that share nothing.
LEMMA DisjointUnion ==
  ASSUME NEW S, NEW T, IsFiniteSet(S), IsFiniteSet(T), S \cap T = {}
  PROVE  /\ IsFiniteSet(S \cup T)
         /\ Cardinality(S \cup T) = Cardinality(S) + Cardinality(T)
<1>1. Cardinality(S) \in Nat /\ Cardinality(T) \in Nat
  BY FS_CardinalityType
<1>2. Cardinality(S \cap T) = 0
  BY FS_EmptySet
<1>3. /\ IsFiniteSet(S \cup T)
      /\ Cardinality(S \cup T)
            = Cardinality(S) + Cardinality(T) - Cardinality(S \cap T)
  BY FS_Union
<1> QED
  BY <1>1, <1>2, <1>3

\* The parity of a corrected polynomial is the sum of the two parities.
LEMMA ParXor ==
  ASSUME NEW s, NEW k, NEW a, NEW b, IsFiniteSet(a), IsFiniteSet(b)
  PROVE  Par(s, Xor(a, b), k) = (Par(s, a, k) + Par(s, b, k)) % 2
<1> DEFINE A == {i \in a : k - i \in s}
           D == {i \in b : k - i \in s}
           X == {i \in Xor(a, b) : k - i \in s}
<1>1. X = (A \ D) \cup (D \ A)
  BY DEF Xor
<1>2. IsFiniteSet(A) /\ IsFiniteSet(D)
  BY FS_Subset, Zenon
<1> HIDE DEF A, D, X
<1>3. IsFiniteSet(A \ D) /\ IsFiniteSet(D \ A) /\ IsFiniteSet(A \cap D)
  BY <1>2, FS_Difference, FS_Intersection
<1>4. /\ Cardinality(A \ D) \in Nat /\ Cardinality(D \ A) \in Nat
      /\ Cardinality(A \cap D) \in Nat
  BY <1>3, FS_CardinalityType
<1>5. Cardinality(X) = Cardinality(A \ D) + Cardinality(D \ A)
  <2>1. (A \ D) \cap (D \ A) = {}
    OBVIOUS
  <2> QED
    BY <1>1, <1>3, <2>1, DisjointUnion
<1>6. Cardinality(A) = Cardinality(A \ D) + Cardinality(A \cap D)
  <2>1. (A \ D) \cap (A \cap D) = {} /\ (A \ D) \cup (A \cap D) = A
    OBVIOUS
  <2> QED
    BY <1>3, <2>1, DisjointUnion
<1>7. Cardinality(D) = Cardinality(D \ A) + Cardinality(A \cap D)
  <2>1. (D \ A) \cap (A \cap D) = {} /\ (D \ A) \cup (A \cap D) = D
    OBVIOUS
  <2> QED
    BY <1>3, <2>1, DisjointUnion
<1>8. ((Cardinality(A) % 2) + (Cardinality(D) % 2)) % 2 = Cardinality(X) % 2
  BY <1>4, <1>5, <1>6, <1>7, ParityOfSums
<1> QED
  BY <1>8, Zenon DEF A, D, X, Par

\* A polynomial moved by d predicts the bit k as the polynomial itself did the
\* bit d places before.
LEMMA ParShift ==
  ASSUME NEW s, NEW b \in SUBSET Int, IsFiniteSet(b), NEW d \in Int, NEW k \in Int
  PROVE  Par(s, {j + d : j \in b}, k) = Par(s, b, k - d)
<1> DEFINE T == {j \in b : (k - d) - j \in s}
           U == {i \in {j + d : j \in b} : k - i \in s}
           f == [j \in T |-> j + d]
<1>1. \A j \in b : k - (j + d) = (k - d) - j
  OBVIOUS
<1>2. f \in [T -> U] /\ \A j \in T : f[j] = j + d
  BY <1>1
<1>3. ASSUME NEW i \in U PROVE \E j \in T : f[j] = i
  BY <1>1
<1>4. ASSUME NEW i \in T, NEW j \in T, f[i] = f[j] PROVE i = j
  BY <1>2, <1>4
<1>5. IsFiniteSet(T)
  BY FS_Subset, Zenon
<1> HIDE DEF T, U, f
<1>6. f \in Bijection(T, U)
  BY <1>2, <1>3, <1>4, Zenon DEF Bijection, Injection, Surjection, IsInjective
<1>7. Cardinality(U) = Cardinality(T)
  BY <1>5, <1>6, FS_Bijection DEF ExistsBijection
<1> QED
  BY <1>7 DEF T, U, Par

\* With 0 in the polynomial the parity is that of the bit and its prediction.
LEMMA ParAndPrediction ==
  ASSUME NEW s, NEW len \in Nat, NEW c \in SUBSET (0..len), 0 \in c, NEW k \in Int
  PROVE  /\ Par(s, c, k) = ((IF k \in s THEN 1 ELSE 0)
                            + Cardinality({i \in 1..len : i \in c /\ k - i \in s})) % 2
         /\ Par(s, c, k) \in 0..1
<1> DEFINE P == {i \in 1..len : i \in c /\ k - i \in s}
           A == {i \in c : k - i \in s}
<1>1. IsFiniteSet(P) /\ Cardinality(P) \in Nat
  <2>1. IsFiniteSet(1..len)
    BY FS_Interval
  <2>2. P \subseteq 1..len
    OBVIOUS
  <2> HIDE DEF P
  <2> QED
    BY <2>1, <2>2, FS_Subset, FS_CardinalityType
<1>2. 0 \notin P /\ k - 0 = k /\ 0..len = {0} \cup 1..len
  OBVIOUS
<1>3. CASE k \in s
  <2>1. A = P \cup {0}
    <3>1. ASSUME NEW i PROVE i \in A <=> i \in P \cup {0}
      BY <1>2, <1>3, Zenon
    <3> HIDE DEF P, A
    <3> QED
      BY <3>1
  <2> HIDE DEF P, A
  <2>2. Cardinality(A) = Cardinality(P) + 1
    BY <1>1, <1>2, <2>1, FS_AddElement
  <2>3. Cardinality(A) % 2 = (1 + Cardinality(P)) % 2 /\ Cardinality(A) % 2 \in 0..1
    BY <1>1, <2>2
  <2> QED
    BY <1>3, <2>3, Zenon DEF P, A, Par
<1>4. CASE k \notin s
  <2>1. A = P
    <3>1. ASSUME NEW i PROVE i \in A <=> i \in P
      BY <1>2, <1>4, Zenon
    <3> HIDE DEF P, A
    <3> QED
      BY <3>1
  <2> HIDE DEF P, A
  <2>3. Cardinality(A) % 2 = (0 + Cardinality(P)) % 2 /\ Cardinality(A) % 2 \in 0..1
    BY <1>1, <2>1
  <2> QED
    BY <1>4, <2>3, Zenon DEF P, A, Par
<1> QED
  BY <1>3, <1>4

\* A finite set falls into parts by the values of f. When all parts but the
\* first are even, it has the parity of the first.
LEMMA EvenParts ==
  ASSUME NEW P, IsFiniteSet(P), NEW N \in Nat, NEW f \in [P -> 0..N],
         \A k \in 1..N : Cardinality({p \in P : f[p] = k}) % 2 = 0
  PROVE  Cardinality(P) % 2 = Cardinality({p \in P : f[p] = 0}) % 2
<1> DEFINE Upto(k) == {p \in P : f[p] <= k}
           Part(k) == {p \in P : f[p] = k}
           T == {k \in 0..N : Cardinality(Upto(k)) % 2 = Cardinality(Part(0)) % 2}
<1>1. \A k : IsFiniteSet(Upto(k)) /\ IsFiniteSet(Part(k))
  BY FS_Subset, Zenon
<1>2. 0 \in T
  <2>1. Upto(0) = Part(0)
    OBVIOUS
  <2> QED
    BY <2>1
<1>3. ASSUME NEW k \in 0..(N - 1), k \in T PROVE k + 1 \in T
  <2>1. Upto(k + 1) = Upto(k) \cup Part(k + 1) /\ Upto(k) \cap Part(k + 1) = {}
    OBVIOUS
  <2>2. Cardinality(Part(k + 1)) % 2 = 0
    <3>1. k + 1 \in 1..N
      OBVIOUS
    <3> QED
      BY <3>1
  <2>3. Cardinality(Upto(k)) % 2 = Cardinality(Part(0)) % 2
    BY <1>3
  <2> HIDE DEF Upto, Part
  <2>4. Cardinality(Upto(k)) \in Nat /\ Cardinality(Part(k + 1)) \in Nat
    BY <1>1, FS_CardinalityType
  <2>5. Cardinality(Upto(k + 1)) = Cardinality(Upto(k)) + Cardinality(Part(k + 1))
    <3>1. IsFiniteSet(Upto(k)) /\ IsFiniteSet(Part(k + 1))
      BY <1>1
    <3> QED
      BY <2>1, <3>1, DisjointUnion
  <2>6. Cardinality(Upto(k + 1)) % 2 = Cardinality(Part(0)) % 2
    BY <2>2, <2>3, <2>4, <2>5
  <2>7. k + 1 \in 0..N
    OBVIOUS
  <2> QED
    BY <2>6, <2>7
<1> HIDE DEF T
<1>4. 0..N \subseteq T
  BY <1>2, <1>3, InductionUpTo
<1>5. N \in T
  BY <1>4
<1>6. Upto(N) = P
  OBVIOUS
<1> QED
  BY <1>5, <1>6, Zenon DEF T

\* A register of length l that produces s up to n - 1 produces the bit n too
\* when some register of length len, l + len <= n, produces s up to n. The pairs
\* of positions of the two polynomials that meet a 1 are counted twice.
LEMMA Agreement ==
  ASSUME NEW s, NEW n \in Nat, NEW l \in Nat, NEW len \in Nat, l + len <= n,
         NEW a \in SUBSET (0..l), NEW b \in SUBSET (0..len), 0 \in b,
         \A k \in l..(n - 1) : Par(s, a, k) = 0,
         \A k \in len..n : Par(s, b, k) = 0
  PROVE  Par(s, a, n) = 0
<1> DEFINE P == {p \in a \X b : n - p[1] - p[2] \in s}
           first == [p \in P |-> p[1]]
           second == [p \in P |-> p[2]]
<1>1. IsFiniteSet(a) /\ IsFiniteSet(b)
  <2>1. IsFiniteSet(0..l) /\ IsFiniteSet(0..len)
    BY FS_Interval
  <2> QED
    BY <2>1, FS_Subset
<1>2. IsFiniteSet(P)
  <2>1. IsFiniteSet(a \X b)
    BY <1>1, FS_Product
  <2> QED
    BY <2>1, FS_Subset, Zenon
<1>3. first \in [P -> 0..l] /\ second \in [P -> 0..len]
  OBVIOUS
<1>4. ASSUME NEW i \in 0..l
      PROVE  Cardinality({p \in P : first[p] = i}) % 2 = 0
  <2> DEFINE F == {p \in P : first[p] = i}
  <2>1. CASE i \notin a
    <3>1. F = {}
      BY <2>1
    <3>2. Cardinality({}) % 2 = 0
      BY FS_EmptySet
    <3> HIDE DEF F
    <3>3. Cardinality(F) % 2 = 0
      BY <3>1, <3>2
    <3> QED
      BY <3>3 DEF F
  <2>2. CASE i \in a
    <3> DEFINE G == {j \in b : (n - i) - j \in s}
               g == [j \in G |-> <<i, j>>]
    <3>1. g \in [G -> F] /\ \A j \in G : g[j] = <<i, j>>
      BY <2>2
    <3>2. ASSUME NEW p \in F PROVE \E j \in G : g[j] = p
      <4>1. p = <<i, p[2]>> /\ p[2] \in G
        OBVIOUS
      <4> HIDE DEF G, F
      <4> QED
        BY <4>1
    <3>3. ASSUME NEW x \in G, NEW y \in G, g[x] = g[y] PROVE x = y
      <4>1. <<i, x>> = <<i, y>>
        BY <3>3
      <4> QED
        BY <4>1
    <3>4. IsFiniteSet(G)
      BY <1>1, FS_Subset, Zenon
    <3> HIDE DEF F, G, g
    <3>5. g \in Bijection(G, F)
      BY <3>1, <3>2, <3>3, Zenon DEF Bijection, Injection, Surjection, IsInjective
    <3>6. Cardinality(F) = Cardinality(G)
      BY <3>4, <3>5, FS_Bijection DEF ExistsBijection
    <3>7. n - i \in len..n
      OBVIOUS
    <3>8. Cardinality(G) % 2 = 0
      BY <3>7, Zenon DEF G, Par
    <3> QED
      BY <3>6, <3>8 DEF F
  <2> QED
    BY <2>1, <2>2
<1>5. ASSUME NEW j \in b
      PROVE  Cardinality({p \in P : second[p] = j}) % 2 = Par(s, a, n - j)
  <2> DEFINE F == {p \in P : second[p] = j}
             G == {i \in a : (n - j) - i \in s}
             g == [i \in G |-> <<i, j>>]
  <2>1. g \in [G -> F] /\ \A i \in G : g[i] = <<i, j>>
    <3>1. \A i \in a : n - i - j = (n - j) - i
      OBVIOUS
    <3> QED
      BY <3>1
  <2>2. ASSUME NEW p \in F PROVE \E i \in G : g[i] = p
    <3>1. p = <<p[1], j>> /\ p[1] \in a /\ n - p[1] - j \in s
      OBVIOUS
    <3>2. PICK i \in a : p = <<i, j>> /\ n - i - j \in s
      BY <3>1
    <3>3. (n - j) - i = n - i - j
      OBVIOUS
    <3>4. i \in G
      BY <3>2, <3>3
    <3> HIDE DEF G, F
    <3> QED
      BY <2>1, <3>2, <3>4
  <2>3. ASSUME NEW x \in G, NEW y \in G, g[x] = g[y] PROVE x = y
    <3>1. <<x, j>> = <<y, j>>
      BY <2>3
    <3> QED
      BY <3>1
  <2>4. IsFiniteSet(G)
    BY <1>1, FS_Subset, Zenon
  <2> HIDE DEF F, G, g
  <2>5. g \in Bijection(G, F)
    BY <2>1, <2>2, <2>3, Zenon DEF Bijection, Injection, Surjection, IsInjective
  <2>6. Cardinality(F) = Cardinality(G)
    BY <2>4, <2>5, FS_Bijection DEF ExistsBijection
  <2> QED
    BY <2>6, Zenon DEF F, G, Par
<1>6. ASSUME NEW j \in 1..len
      PROVE  Cardinality({p \in P : second[p] = j}) % 2 = 0
  <2>1. CASE j \in b
    <3>1. n - j \in l..(n - 1)
      OBVIOUS
    <3> QED
      BY <1>5, <2>1, <3>1, Zenon
  <2>2. CASE j \notin b
    <3> DEFINE F == {p \in P : second[p] = j}
    <3>1. F = {}
      BY <2>2
    <3>2. Cardinality({}) % 2 = 0
      BY FS_EmptySet
    <3> HIDE DEF F
    <3>3. Cardinality(F) % 2 = 0
      BY <3>1, <3>2
    <3> QED
      BY <3>3 DEF F
  <2> QED
    BY <2>1, <2>2
<1> HIDE DEF P, first, second
<1>7. Cardinality(P) % 2 = Cardinality({p \in P : first[p] = 0}) % 2
  <2>1. \A k \in 1..l : Cardinality({p \in P : first[p] = k}) % 2 = 0
    BY <1>4
  <2> QED
    BY <1>2, <1>3, <2>1, EvenParts
<1>8. Cardinality(P) % 2 = Cardinality({p \in P : second[p] = 0}) % 2
  BY <1>2, <1>3, <1>6, EvenParts
<1>9. Cardinality({p \in P : first[p] = 0}) % 2 = 0
  BY <1>4
<1>10. Cardinality({p \in P : second[p] = 0}) % 2 = Par(s, a, n)
  <2>1. n - 0 = n
    OBVIOUS
  <2> QED
    BY <1>5, <2>1
<1> QED
  BY <1>7, <1>8, <1>9, <1>10
-----------------------------------------------------------------------------
\* The register generates what has been scanned, the one it last replaced
\* everything up to the bit m where it failed, and no shorter one does better.

Register == \A k \in L..(N_ - 1) : Par(ones, C, k) = 0

OldRegister == L # 0 => /\ \A k \in (m + 1 - L)..(m - 1) : Par(ones, B, k) = 0
                        /\ Par(ones, B, m) = 1

Massey == Register /\ OldRegister /\ RegisterIsShortest

\* A register that has not failed yet may or may not have 0 in its polynomial.
LEMMA GeneratesIsPar ==
  ASSUME NEW len \in Nat, NEW c \in SUBSET (0..len), NEW k \in Int
  PROVE  Generates(c, len, k) <=> Par(ones, c \cup {0}, k) = 0
<1> DEFINE b == c \cup {0}
           P(e) == {i \in 1..len : i \in e /\ k - i \in ones}
<1>1. b \in SUBSET (0..len) /\ 0 \in b
  OBVIOUS
<1>2. P(b) = P(c)
  OBVIOUS
<1> HIDE DEF b
<1>3. Par(ones, b, k) = ((IF k \in ones THEN 1 ELSE 0) + Cardinality(P(b))) % 2
  BY <1>1, ParAndPrediction
<1>4. Par(ones, b, k) = ((IF k \in ones THEN 1 ELSE 0) + Cardinality(P(c))) % 2
  BY <1>2, <1>3, Zenon
<1>5. Generates(c, len, k)
        <=> ((IF k \in ones THEN 1 ELSE 0) + Cardinality(P(c))) % 2 = 0
  BY DEF Generates
<1> HIDE DEF P
<1>6. Generates(c, len, k) <=> Par(ones, b, k) = 0
  BY <1>4, <1>5
<1> QED
  BY <1>6 DEF b

\* The discrepancy is the parity at the next bit.
LEMMA DiscrepancyIsPar ==
  ASSUME TypeOK, Degrees
  PROVE  Discrepancy = Par(ones, C, N_)
<1>1. L \in Nat /\ N_ \in Int /\ C \in SUBSET (0..L) /\ 0 \in C
  BY DEF TypeOK, Degrees
<1>2. Par(ones, C, N_) = ((IF N_ \in ones THEN 1 ELSE 0)
            + Cardinality({i \in 1..L : i \in C /\ N_ - i \in ones})) % 2
  BY <1>1, ParAndPrediction
<1> QED
  BY <1>2, Zenon DEF Discrepancy

\* Where it begins, a register of length 0 has nothing to generate.
LEMMA EmptyMassey ==
  ASSUME N_ = 0, L = 0 PROVE Massey
<1>1. L..(N_ - 1) = {} /\ 0..(L - 1) = {}
  OBVIOUS
<1> QED
  BY <1>1 DEF Massey, Register, OldRegister, RegisterIsShortest

\* A bit that was predicted is one more that the register generates.
LEMMA PredictedStep ==
  ASSUME IInv, Massey, Predicted PROVE Massey'
<1>1. TypeOK /\ Degrees
  BY DEF IInv, Shape
<1>2. /\ N_' = N_ + 1 /\ ones' = ones /\ C' = C /\ B' = B /\ L' = L /\ m' = m
      /\ Par(ones, C, N_) = 0
  BY <1>1, DiscrepancyIsPar DEF Predicted
<1>3. L \in Nat /\ N_ \in Nat /\ m \in Int
  BY <1>1 DEF TypeOK
<1>4. Register'
  <2>1. \A k \in L..(N_' - 1) : k = N_ \/ k \in L..(N_ - 1)
    BY <1>2, <1>3
  <2>2. \A k \in L..(N_' - 1) : Par(ones, C, k) = 0
    BY <1>2, <2>1, Zenon DEF Massey, Register
  <2>3. \A k \in L'..(N_' - 1) : Par(ones', C', k) = 0
    BY <1>2, <2>2, Zenon
  <2> QED
    BY <2>3, Zenon DEF Register
<1>5. OldRegister'
  BY <1>2, Zenon DEF Massey, OldRegister
<1>6. RegisterIsShortest'
  <2> SUFFICES ASSUME NEW len \in 0..(L' - 1), NEW c \in SUBSET (1..len)
               PROVE  \E k \in len..(N_' - 1) : ~ Generates(c, len, k)'
    BY Zenon DEF RegisterIsShortest
  <2>1. PICK k \in len..(N_ - 1) : ~ Generates(c, len, k)
    BY <1>2, Zenon DEF Massey, RegisterIsShortest
  <2>2. k \in len..(N_' - 1)
    BY <1>2, <1>3
  <2>3. Generates(c, len, k)' <=> Generates(c, len, k)
    BY <1>2, Zenon DEF Generates
  <2> QED
    BY <2>1, <2>2, <2>3, Zenon
<1> QED
  BY <1>4, <1>5, <1>6 DEF Massey

\* The corrected polynomial has the sum of the two parities, the old one's
\* taken N_ - m places before.
LEMMA CorrectedParity ==
  ASSUME TypeOK, Shifted \subseteq Index, NEW k \in Int
  PROVE  Par(ones, Xor(C, Shifted), k)
           = (Par(ones, C, k) + Par(ones, B, k - (N_ - m))) % 2
<1>1. /\ C \in SUBSET Int /\ B \in SUBSET Int /\ N_ \in Int /\ m \in Int
      /\ C \subseteq Index /\ B \subseteq Index
  BY DEF TypeOK, Index
<1>2. IsFiniteSet(C) /\ IsFiniteSet(B) /\ IsFiniteSet(Shifted)
  <2>1. M - 1 \in Int
    BY BMAssumption
  <2>2. IsFiniteSet(Index)
    BY <2>1, FS_Interval DEF Index
  <2> QED
    BY <1>1, <2>2, FS_Subset
<1>3. Shifted = {j + (N_ - m) : j \in B}
  <2>1. \A j \in B : j + N_ - m = j + (N_ - m)
    BY <1>1
  <2> QED
    BY <2>1 DEF Shifted
<1>4. Par(ones, Shifted, k) = Par(ones, B, k - (N_ - m))
  <2>1. N_ - m \in Int
    BY <1>1
  <2>2. Par(ones, {j + (N_ - m) : j \in B}, k) = Par(ones, B, k - (N_ - m))
    BY <1>1, <1>2, <2>1, ParShift
  <2> QED
    BY <1>3, <2>2, Zenon
<1> QED
  BY <1>2, <1>4, ParXor
\* What the lemmas on a correction start from.
LEMMA CorrectedFacts ==
  ASSUME IInv, Massey, Corrected
  PROVE  /\ L \in Nat /\ N_ \in Nat /\ m \in Int /\ L <= N_ /\ L <= m + 1 /\ m < N_
         /\ C \in SUBSET (0..L) /\ 0 \in C
         /\ ones' = ones /\ C' = Xor(C, Shifted) /\ N_' = N_ + 1
         /\ Shifted \subseteq Index
         /\ Par(ones, C, N_) = 1
         /\ \/ L' = N_ + 1 - L /\ m' = N_ /\ B' = C /\ 2 * L <= N_
            \/ L' = L /\ m' = m /\ B' = B /\ 2 * L > N_
<1>1. TypeOK /\ Degrees
  BY DEF IInv, Shape
<1>2. L \in Nat /\ N_ \in Nat /\ m \in Int
  BY <1>1 DEF TypeOK
<1>3. GrowsAt(L, N_) <=> 2 * L <= N_
  BY <1>2 DEF GrowsAt
<1>4. Par(ones, C, N_) = 1
  BY <1>1, DiscrepancyIsPar DEF Corrected
<1>5. C \in SUBSET (0..L) /\ 0 \in C /\ L <= N_ /\ L <= m + 1 /\ m < N_
  BY <1>1 DEF Degrees
<1>6. CASE GrowsAt(L, N_)
  BY <1>2, <1>3, <1>4, <1>5, <1>6 DEF Corrected
<1>7. CASE ~ GrowsAt(L, N_)
  BY <1>2, <1>3, <1>4, <1>5, <1>7 DEF Corrected
<1> QED
  BY <1>6, <1>7

\* The corrected register generates the bit that the old one missed, and still
\* every bit before it: there the old polynomial's parity is 0 as well.
LEMMA CorrectedRegister ==
  ASSUME IInv, Massey, Corrected PROVE Register'
<1>1. /\ L \in Nat /\ N_ \in Nat /\ m \in Int /\ L <= N_ /\ L <= m + 1 /\ m < N_
      /\ ones' = ones /\ C' = Xor(C, Shifted) /\ N_' = N_ + 1
      /\ Shifted \subseteq Index /\ Par(ones, C, N_) = 1
      /\ \/ L' = N_ + 1 - L
         \/ L' = L /\ 2 * L > N_
  BY CorrectedFacts
<1>2. ASSUME NEW k \in L'..N_ PROVE Par(ones, C', k) = 0
  <2>1. L # 0 /\ k \in Int /\ k >= N_ + 1 - L /\ k >= L
    <3>1. CASE L' = N_ + 1 - L /\ 2 * L <= N_
      BY <1>1, <3>1
    <3>2. CASE L' = N_ + 1 - L /\ 2 * L > N_
      BY <1>1, <1>2, <3>2, CorrectedFacts
    <3>3. CASE L' = L /\ 2 * L > N_
      BY <1>1, <3>3
    <3> QED
      BY <1>1, <3>1, <3>2, <3>3
  <2>2. Par(ones, C', k) = (Par(ones, C, k) + Par(ones, B, k - (N_ - m))) % 2
    <3>1. TypeOK
      BY DEF IInv
    <3> QED
      BY <1>1, <2>1, <3>1, CorrectedParity
  <2>3. /\ \A j \in (m + 1 - L)..(m - 1) : Par(ones, B, j) = 0
        /\ Par(ones, B, m) = 1
    BY <2>1 DEF Massey, OldRegister
  <2>4. CASE k = N_
    <3>1. k - (N_ - m) = m
      BY <1>1, <2>4
    <3>2. Par(ones, C', k) = (1 + 1) % 2
      BY <1>1, <2>2, <2>3, <2>4, <3>1
    <3> QED
      BY <3>2
  <2>5. CASE k # N_
    <3>1. k \in L..(N_ - 1) /\ k - (N_ - m) \in (m + 1 - L)..(m - 1)
      BY <1>1, <2>1, <2>5
    <3>2. Par(ones, C, k) = 0
      BY <3>1 DEF Massey, Register
    <3>3. Par(ones, B, k - (N_ - m)) = 0
      BY <2>3, <3>1
    <3>4. Par(ones, C', k) = (0 + 0) % 2
      BY <2>2, <3>2, <3>3
    <3> QED
      BY <3>4
  <2> QED
    BY <2>4, <2>5
<1>3. N_' - 1 = N_
  BY <1>1
<1>4. \A k \in L'..(N_' - 1) : Par(ones', C', k) = 0
  BY <1>1, <1>2, <1>3
<1> QED
  BY <1>4, Zenon DEF Register

\* When the register grows, the one it replaces becomes the old one, and the
\* bit where that one failed is the bit just scanned.
LEMMA CorrectedOldRegister ==
  ASSUME IInv, Massey, Corrected PROVE OldRegister'
<1>1. /\ L \in Nat /\ N_ \in Nat /\ ones' = ones /\ Par(ones, C, N_) = 1
      /\ \/ L' = N_ + 1 - L /\ m' = N_ /\ B' = C
         \/ L' = L /\ m' = m /\ B' = B
  BY CorrectedFacts
<1>2. CASE L' = N_ + 1 - L /\ m' = N_ /\ B' = C
  <2>1. m' + 1 - L' = L /\ m' - 1 = N_ - 1
    BY <1>1, <1>2
  <2>2. \A k \in (m' + 1 - L')..(m' - 1) : Par(ones', B', k) = 0
    BY <1>1, <1>2, <2>1 DEF Massey, Register
  <2>3. Par(ones', B', m') = 1
    BY <1>1, <1>2
  <2> QED
    BY <2>2, <2>3, Zenon DEF OldRegister
<1>3. CASE L' = L /\ m' = m /\ B' = B
  BY <1>1, <1>3, Zenon DEF Massey, OldRegister
<1> QED
  BY <1>1, <1>2, <1>3

\* A register that generated the missed bit too and is too short for the new
\* length would agree with the old register on that bit.
LEMMA CorrectedIsShortest ==
  ASSUME IInv, Massey, Corrected PROVE RegisterIsShortest'
<1>1. /\ L \in Nat /\ N_ \in Nat /\ ones' = ones /\ N_' = N_ + 1
      /\ C \in SUBSET (0..L) /\ Par(ones, C, N_) = 1 /\ L <= N_
      /\ L' = N_ + 1 - L \/ L' = L
  BY CorrectedFacts
<1> SUFFICES ASSUME NEW len \in 0..(L' - 1), NEW c \in SUBSET (1..len)
             PROVE  \E k \in len..(N_' - 1) : ~ Generates(c, len, k)'
  BY Zenon DEF RegisterIsShortest
<1>2. \A k : Generates(c, len, k)' <=> Generates(c, len, k)
  BY <1>1, Zenon DEF Generates
<1>3. N_' - 1 = N_ /\ len \in Nat
  BY <1>1
<1>4. CASE len <= L - 1
  <2>1. len \in 0..(L - 1)
    BY <1>1, <1>3, <1>4
  <2>2. PICK k \in len..(N_ - 1) : ~ Generates(c, len, k)
    BY <2>1, Zenon DEF Massey, RegisterIsShortest
  <2>3. k \in len..(N_' - 1)
    BY <1>1, <1>3
  <2> QED
    BY <1>2, <2>2, <2>3, Zenon
<1>5. CASE L' = N_ + 1 - L /\ L + len <= N_
  <2> SUFFICES ASSUME \A k \in len..N_ : Generates(c, len, k) PROVE FALSE
    BY <1>2, <1>3, Zenon
  <2> DEFINE b == c \cup {0}
  <2>1. b \in SUBSET (0..len) /\ 0 \in b /\ c \in SUBSET (0..len)
    BY <1>3
  <2>2. \A k \in len..N_ : Par(ones, b, k) = 0
    <3>1. \A k \in len..N_ : k \in Int
      OBVIOUS
    <3> QED
      BY <1>3, <2>1, <3>1, GeneratesIsPar
  <2> HIDE DEF b
  <2>3. \A k \in L..(N_ - 1) : Par(ones, C, k) = 0
    BY DEF Massey, Register
  <2>4. Par(ones, C, N_) = 0
    BY <1>1, <1>3, <1>5, <2>1, <2>2, <2>3, Agreement
  <2> QED
    BY <1>1, <2>4
<1> QED
  BY <1>1, <1>3, <1>4, <1>5

\* Every step keeps the register the shortest one.
LEMMA MasseyKept ==
  ASSUME IInv, Massey, [Next]_vars PROVE Massey'
<1>1. CASE Predicted
  BY <1>1, PredictedStep
<1>2. CASE Corrected
  BY <1>2, CorrectedRegister, CorrectedOldRegister, CorrectedIsShortest DEF Massey
<1>3. ASSUME ones' = ones, N_' = N_, C' = C, B' = B, L' = L, m' = m
      PROVE  Massey'
  <2>1. Register' /\ OldRegister'
    BY <1>3, Zenon DEF Massey, Register, OldRegister
  <2>2. \A c, len, k : Generates(c, len, k)' <=> Generates(c, len, k)
    BY <1>3, Zenon DEF Generates
  <2>3. RegisterIsShortest'
    BY <1>3, <2>2, Zenon DEF Massey, RegisterIsShortest
  <2> QED
    BY <2>1, <2>3 DEF Massey
<1>4. CASE OutOfRange
  BY <1>3, <1>4 DEF OutOfRange
<1>5. CASE NextBlock
  <2>1. CASE MoreBlocks(done + 1)
    <3>1. N_' = 0 /\ L' = 0
      BY <1>5, <2>1 DEF NextBlock
    <3>2. L'..(N_' - 1) = {} /\ 0..(L' - 1) = {}
      BY <3>1
    <3> QED
      BY <3>1, <3>2 DEF Massey, Register, OldRegister, RegisterIsShortest
  <2>2. CASE ~ MoreBlocks(done + 1)
    BY <1>3, <1>5, <2>2 DEF NextBlock
  <2> QED
    BY <2>1, <2>2
<1>6. CASE Ended \/ UNCHANGED vars
  BY <1>3, <1>6 DEF Ended, vars
<1> QED
  BY <1>1, <1>2, <1>4, <1>5, <1>6 DEF Next

\* The register and the one before it are as described in every reachable state.
LEMMA MasseyHolds == Spec => []Massey
<1>1. Init => Massey
  BY EmptyMassey DEF Init
<1>2. IInv /\ Massey /\ [Next]_vars => Massey'
  BY MasseyKept
<1> QED
  BY <1>1, <1>2, InvariantHolds, PTL DEF Spec

\* The register that C and L describe (linear_complexity.go:37-55) produces
\* every bit scanned so far, whatever the block and its length.
THEOREM RegisterIsRight == Spec => []RegisterGeneratesPrefix
<1>1. IInv /\ Massey => RegisterGeneratesPrefix
  <2> SUFFICES ASSUME IInv, Massey, NEW k \in L..(N_ - 1)
               PROVE  Generates(C, L, k)
    BY DEF RegisterGeneratesPrefix
  <2>1. L \in Nat /\ N_ \in Nat /\ C \in SUBSET (0..L) /\ 0 \in C
    BY DEF IInv, Shape, Degrees, TypeOK
  <2>2. C \cup {0} = C /\ k \in Int
    BY <2>1
  <2>3. Par(ones, C, k) = 0
    BY DEF Massey, Register
  <2> QED
    BY <2>1, <2>2, <2>3, GeneratesIsPar
<1> QED
  BY <1>1, InvariantHolds, MasseyHolds, PTL

\* No shorter register produces the scanned prefix: what the block loop counts
\* is the linear complexity of the block, for every block and block length.
THEOREM LengthIsTheComplexity == Spec => []RegisterIsShortest
BY MasseyHolds, PTL DEF Massey
-----------------------------------------------------------------------------
\* The classes. 36 * 2^M * T is an integer whose terms in 2^M decide the
\* comparison with each threshold, as 2^M exceeds M.

\* A power of two exceeds its exponent.
LEMMA PowerExceeds ==
  ASSUME NEW n \in Nat PROVE 2 ^ n \in Nat /\ 2 ^ n >= n + 1
<1> DEFINE T == {k \in Nat : 2 ^ k \in Nat /\ 2 ^ k >= k + 1}
<1>1. 0 \in T
  <2>1. IsFiniteSet({}) /\ Cardinality({}) = 0
    BY FS_EmptySet
  <2>2. Cardinality(SUBSET {}) = 2 ^ 0
    BY <2>1, FS_SUBSET
  <2>3. SUBSET {} = {{}} /\ Cardinality({{}}) = 1
    BY FS_Singleton
  <2> QED
    BY <2>2, <2>3
<1>2. ASSUME NEW k \in Nat, k \in T PROVE k + 1 \in T
  <2>1. 2 ^ k \in Nat /\ 2 ^ (k + 1) = 2 * 2 ^ k /\ 2 ^ k >= k + 1
    BY <1>2, PowerOfTwo
  <2> QED
    BY <2>1
<1> HIDE DEF T
<1>3. Nat \subseteq T
  BY <1>1, <1>2, InductionOnNat
<1> QED
  BY <1>3 DEF T

\* The terms of the comparison with the threshold k, for even and odd M.
LEMMA TvalAgainst ==
  ASSUME NEW len \in Int, NEW k \in Int
  PROVE  LET e == Distance(len) - k
             gap == IF M % 2 = 0 THEN 12 * M + 8 ELSE 0 - (12 * M + 8)
         IN /\ Distance(len) \in Int
            /\ Tval(len) - (36 * k - 90) * 2 ^ M = 2 ^ M * (36 * e + 88) + gap
            /\ Tval(len) \in Int /\ (36 * k - 90) * 2 ^ M \in Int
<1> DEFINE u == 2 ^ M
<1>1. M \in Nat /\ u \in Nat
  BY BMAssumption, PowerExceeds
<1>2. \A x, y, z \in Int : x * (y + z) = x * y + x * z /\ x * y \in Int
  OBVIOUS
<1>3. CASE M % 2 = 0
  <2> DEFINE h == M \div 2
  <2>1. h \in Int /\ M = 2 * h /\ ~ (M + 1) % 2 = 0
    BY <1>1, <1>3
  <2>2. Distance(len) = len - h
    BY <1>3 DEF Distance
  <2>3. Tval(len) = 1 * (36 * len * u - (18 * M * u + (9 + 1) * u - (12 * M + 8))) + 8 * u
    BY <1>3, <2>1, Zenon DEF Tval
  <2> HIDE DEF u, h
  <2>4. 36 * len * u = 36 * (len * u) /\ 18 * M * u = 36 * (h * u)
        /\ u * (36 * (len - h - k) + 88) = 36 * (len * u) - 36 * (h * u) - 36 * (k * u) + 88 * u
        /\ (36 * k - 90) * u = 36 * (k * u) - 90 * u
        /\ len * u \in Int /\ h * u \in Int /\ k * u \in Int
    BY <1>1, <2>1
  <2> QED
    BY <1>1, <1>3, <2>1, <2>2, <2>3, <2>4 DEF u
<1>4. CASE M % 2 # 0
  <2> DEFINE h == (M + 1) \div 2
  <2>1. h \in Int /\ M = 2 * h - 1 /\ (M + 1) % 2 = 0
    BY <1>1, <1>4
  <2>2. Distance(len) = h - len
    BY <1>4 DEF Distance
  <2>3. Tval(len) = (-1) * (36 * len * u - (18 * M * u + (9 + (-1)) * u - (12 * M + 8))) + 8 * u
    BY <1>4, <2>1, Zenon DEF Tval
  <2> HIDE DEF u, h
  <2>4. 36 * len * u = 36 * (len * u) /\ 18 * M * u = 36 * (h * u) - 18 * u
        /\ u * (36 * (h - len - k) + 88) = 36 * (h * u) - 36 * (len * u) - 36 * (k * u) + 88 * u
        /\ (36 * k - 90) * u = 36 * (k * u) - 90 * u
        /\ len * u \in Int /\ h * u \in Int /\ k * u \in Int
    BY <1>1, <2>1
  <2> QED
    BY <1>1, <1>4, <2>1, <2>2, <2>3, <2>4 DEF u
<1> QED
  BY <1>3, <1>4

\* T passes a threshold exactly when the distance is at most two below it.
LEMMA ThresholdIsDistance ==
  ASSUME NEW len \in Int, NEW k \in Int
  PROVE  Tval(len) > (36 * k - 90) * 2 ^ M <=> k <= Distance(len) + 2
<1> DEFINE u == 2 ^ M
           e == Distance(len) - k
           t == Tval(len)
           b == (36 * k - 90) * 2 ^ M
           g == IF M % 2 = 0 THEN 12 * M + 8 ELSE 0 - (12 * M + 8)
<1>1. u \in Nat /\ u >= M + 1 /\ M \in Nat /\ g \in Int
      /\ g <= 12 * M + 8 /\ g >= 0 - (12 * M + 8)
  BY BMAssumption, PowerExceeds
<1>2. /\ Distance(len) \in Int /\ e \in Int
      /\ t - b = u * (36 * e + 88) + g /\ t \in Int /\ b \in Int
  <2>1. /\ Distance(len) \in Int
        /\ t - b = u * (36 * e + 88) + g /\ t \in Int /\ b \in Int
    BY TvalAgainst, Zenon
  <2>2. e \in Int
    BY <2>1
  <2> HIDE DEF u, e, t, b, g
  <2> QED
    BY <2>1, <2>2
<1> HIDE DEF u, e, t, b, g
<1>3. \A x, y \in Int : x <= y => u * x <= u * y
  BY <1>1
<1>4. CASE e >= -2
  <2>1. u * 16 <= u * (36 * e + 88)
    <3>1. 36 * e + 88 \in Int /\ 16 <= 36 * e + 88
      BY <1>2, <1>4
    <3> QED
      BY <1>3, <3>1
  <2>2. u * (36 * e + 88) \in Int
    BY <1>1, <1>2
  <2>3. t > b
    BY <1>1, <1>2, <2>1, <2>2
  <2> QED
    BY <1>2, <1>4, <2>3 DEF e, t, b
<1>5. CASE ~ e >= -2
  <2>1. u * (36 * e + 88) <= u * (0 - 20)
    <3>1. 36 * e + 88 \in Int /\ 36 * e + 88 <= 0 - 20
      BY <1>2, <1>5
    <3> QED
      BY <1>3, <3>1
  <2>2. u * (36 * e + 88) \in Int
    BY <1>1, <1>2
  <2>3. ~ t > b
    BY <1>1, <1>2, <2>1, <2>2
  <2> QED
    BY <1>2, <1>5, <2>3 DEF e, t, b
<1> QED
  BY <1>4, <1>5

\* The class of a block is its distance, moved to 0..6 and cut off there.
LEMMA BucketIsDistance ==
  ASSUME NEW len \in Int
  PROVE  Bucket(len) = Clamped(Distance(len) + 3)
<1> DEFINE d == Distance(len)
           K == {k \in 0..5 : Tval(len) > (36 * k - 90) * 2 ^ M}
<1>1. d \in Int
  BY TvalAgainst
<1>2. K = {k \in 0..5 : k <= d + 2}
  <2>1. \A k \in 0..5 : k \in Int
    OBVIOUS
  <2>2. \A k \in 0..5 : Tval(len) > (36 * k - 90) * 2 ^ M <=> k <= d + 2
    BY <2>1, ThresholdIsDistance
  <2> HIDE DEF d
  <2> QED
    BY <2>2, Zenon
<1> HIDE DEF K, d
<1>3. CASE d + 3 < 0
  <2>1. K = {}
    BY <1>1, <1>2, <1>3
  <2> QED
    BY <1>3, <2>1, FS_EmptySet DEF K, d, Bucket, Clamped
<1>4. CASE d + 3 > 6
  <2>1. K = 0..5
    BY <1>1, <1>2, <1>4
  <2>2. Cardinality(0..5) = 6
    BY FS_Interval, ~ (0 > 5), 5 - 0 + 1 = 6, 0 \in Int, 5 \in Int
  <2>3. ~ d + 3 < 0
    BY <1>1, <1>4
  <2> QED
    BY <1>4, <2>1, <2>2, <2>3, Zenon DEF K, d, Bucket, Clamped
<1>5. CASE ~ d + 3 < 0 /\ ~ d + 3 > 6
  <2>1. K = 0..(d + 2)
    BY <1>1, <1>2, <1>5
  <2>2. Cardinality(0..(d + 2)) = d + 3
    <3>1. 0 \in Int /\ d + 2 \in Int /\ (0 > d + 2 => d + 3 = 0) /\ d + 2 - 0 + 1 = d + 3
      BY <1>1, <1>5
    <3> QED
      BY <3>1, FS_Interval
  <2> QED
    BY <1>5, <2>1, <2>2, Zenon DEF K, d, Bucket, Clamped
<1> QED
  BY <1>3, <1>4, <1>5

\* The thresholds of the switch (linear_complexity.go:66-103) sort a block by
\* the distance of its linear complexity from ceil(M/2), for every block length.
THEOREM ClassesAreDistances == Spec => ClassifiedByDistance
<1>1. ASSUME IInv, [Next]_vars
      PROVE  [done' = done + 1 =>
                nu' = [nu EXCEPT ![Clamped(Distance(L) + 3)] = @ + 1]]_vars
  <2> SUFFICES ASSUME done' = done + 1
               PROVE  nu' = [nu EXCEPT ![Clamped(Distance(L) + 3)] = @ + 1]
    BY Zenon
  <2>1. done' # done /\ L \in Int
    BY <1>1 DEF IInv, TypeOK
  <2>2. NextBlock
    BY <1>1, <2>1, Zenon
    DEF Next, Predicted, Corrected, OutOfRange, Ended, vars
  <2> QED
    BY <2>1, <2>2, BucketIsDistance, Zenon DEF NextBlock
<1> QED
  BY <1>1, InvariantHolds, PTL DEF Spec, ClassifiedByDistance
=============================================================================
